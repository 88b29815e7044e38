------------------------ MODULE HostLifecycle_proofs ------------------------
(***************************************************************************)
(* Proofs about HostLifecycle for every set of hosts and runs, every wave  *)
(* assignment the planner may produce and every number of canaries and     *)
(* boots.                                                                  *)
(***************************************************************************)
EXTENDS HostLifecycle, TLAPS

(* Facts about the constants.                                              *)

LEMMA StepFacts ==
  /\ Steps = 0 .. LastStep /\ LastStep \in Nat /\ LastStep >= 3
  /\ Submit \in Mutations /\ Submit \notin Recorded
  /\ Catalog \in Mutations /\ Catalog \in Recorded
  /\ Health \in Recorded /\ Health \notin Mutations
  /\ Recorded \subseteq Steps /\ Mutations \subseteq Steps
  /\ \A s \in Steps : s # Health => s \in Mutations
  /\ \A s \in Steps : s # Submit => s \in Recorded
  /\ \A s \in Steps : NextStep(s) \in Recorded
  /\ 0 \in Boots
BY LifecycleAssumption
   DEF Steps, LastStep, Submit, Catalog, Health, Recorded, Mutations, NextStep, Boots

LEMMA ReceiptFacts ==
  /\ Absent \in Receipts /\ Torn \in Receipts
  /\ \A b \in Boots, good \in BOOLEAN :
       [file |-> "whole", boot |-> b, ok |-> good] \in Receipts
BY StepFacts DEF Absent, Torn, Receipts

THEOREM InitTypeOK == Init => TypeOK
<1> SUFFICES ASSUME Init PROVE TypeOK OBVIOUS
<1> USE DEF Init
<1>1. got \in [Runs -> [Hosts -> Receipts]] BY ReceiptFacts
<1>2. done \in [Hosts -> [Recorded -> Receipts]] BY ReceiptFacts
<1>3. step \in [Runs -> [Hosts -> Steps]] BY StepFacts
<1>4. effects \in [Hosts -> [Mutations -> Nat]] OBVIOUS
<1>5. seen \in [Runs -> [Hosts -> Boots]] /\ accepted \in [Hosts -> Boots] /\ boot \in [Hosts -> Boots]
  BY StepFacts
<1>6. wave \in [Runs -> 1 .. Waves] BY LifecycleAssumption
<1>7. native \in [Hosts -> {"stopped", "prepared", "accepted", "finalized"}] OBVIOUS
<1>8. pc \in [Runs -> [Hosts -> Locations]] BY DEF Locations
<1> QED BY <1>1, <1>2, <1>3, <1>4, <1>5, <1>6, <1>7, <1>8 DEF TypeOK

LEMMA RunTypeOK ==
  ASSUME TypeOK, NEW r \in Runs,
         StartRun(r) \/ Crash(r) \/ BeginWaves(r) \/ NextWave(r) \/ Report(r) \/ StopWave(r)
  PROVE  TypeOK'
<1> USE StepFacts, ReceiptFacts, LifecycleAssumption DEF TypeOK, Locations, control, journal, machine
<1>1. CASE StartRun(r) BY <1>1 DEF StartRun
<1>2. CASE Crash(r) BY <1>2 DEF Crash, EndRun, Forget
<1>3. CASE BeginWaves(r) BY <1>3 DEF BeginWaves, Threads
<1>4. CASE NextWave(r) BY <1>4 DEF NextWave, Advance, Threads
<1>5. CASE Report(r) BY <1>5 DEF Report, EndRun, Forget
<1>6. CASE StopWave(r) BY <1>6 DEF StopWave, EndRun, Forget
<1> QED BY <1>1, <1>2, <1>3, <1>4, <1>5, <1>6

LEMMA HostTypeOK ==
  ASSUME TypeOK, NEW r \in Runs, NEW h \in Hosts,
         AdmitHost(r, h) \/ TornAdmission(r, h) \/ Thread(r, h) \/ TornSave(r, h) \/ Fail(r, h)
  PROVE  TypeOK'
<1> USE StepFacts, ReceiptFacts, LifecycleAssumption
    DEF TypeOK, Locations, control, journal, machine, At, Go, GoTo
<1>1. CASE AdmitHost(r, h) BY <1>1 DEF AdmitHost, Reason, Reasons
<1>2. CASE TornAdmission(r, h) BY <1>2 DEF TornAdmission, EndRun, Forget
<1>3. CASE Thread(r, h)
  <2>1. CASE Observe(r, h) BY <2>1 DEF Observe
  <2>2. CASE ReadPending(r, h) BY <2>2 DEF ReadPending
  <2>3. CASE ReadAmbiguous(r, h) BY <2>3 DEF ReadAmbiguous
  <2>4. CASE ReadComplete(r, h) BY <2>4 DEF ReadComplete, NextLocation
  <2>5. CASE Begin(r, h) BY <2>5 DEF Begin
  <2>6. CASE SubmitReboot(r, h) BY <2>6 DEF SubmitReboot, Issue
  <2>7. CASE Poll(r, h) BY <2>7 DEF Poll
  <2>8. CASE StartAcceptance(r, h) BY <2>8 DEF StartAcceptance
  <2>9. CASE ApplyCatalog(r, h) BY <2>9 DEF ApplyCatalog, Issue, Result
  <2>10. CASE CollectHealth(r, h) BY <2>10 DEF CollectHealth, Result
  <2>11. CASE RunCanary(r, h)
    <3>1. step[r][h] \in Mutations BY <2>11 DEF RunCanary, Health
    <3>2. effects' \in [Hosts -> [Mutations -> Nat]] BY <2>11, <3>1 DEF RunCanary, Issue
    <3>3. CASE TargetBooted(h)
      <4>1. PICK good \in BOOLEAN : got' = [got EXCEPT ![r][h] = Result(h, good)]
        BY <2>11, <3>3 DEF RunCanary
      <4>2. got' \in [Runs -> [Hosts -> Receipts]] BY <4>1 DEF Result
      <4>3. pc' = [pc EXCEPT ![r][h] = "save"] BY <2>11, <3>3 DEF RunCanary
      <4> QED BY <2>11, <3>2, <4>2, <4>3 DEF RunCanary
    <3>4. CASE ~ TargetBooted(h)
      <4>1. pc' = [pc EXCEPT ![r][h] = "err"] /\ got' = got BY <2>11, <3>4 DEF RunCanary
      <4> QED BY <2>11, <3>2, <4>1 DEF RunCanary
    <3> QED BY <3>3, <3>4
  <2>12. CASE Save(r, h)
    <3>1. got[r][h] \in Receipts /\ done' = [done EXCEPT ![h][step[r][h]] = got[r][h]]
      BY <2>12 DEF Save
    <3>2. done' \in [Hosts -> [Recorded -> Receipts]] BY <3>1
    <3>3. got' \in [Runs -> [Hosts -> Receipts]] BY <2>12 DEF Save
    <3>4. CASE step[r][h] = Catalog /\ ~ got[r][h].ok
      <4>1. pc' = [pc EXCEPT ![r][h] = "err"] /\ step' = step BY <2>12, <3>4 DEF Save
      <4> QED BY <2>12, <3>2, <3>3, <4>1 DEF Save
    <3>5. CASE ~ (step[r][h] = Catalog /\ ~ got[r][h].ok)
      <4>1. /\ pc' = [pc EXCEPT ![r][h] = NextLocation(step[r][h])]
            /\ step' = [step EXCEPT ![r][h] = NextStep(step[r][h])]
        BY <2>12, <3>5 DEF Save
      <4>2. NextLocation(step[r][h]) \in Locations BY DEF NextLocation
      <4>3. NextStep(step[r][h]) \in Steps
        <5>1. step[r][h] \in Steps OBVIOUS
        <5> QED BY ONLY <5>1, StepFacts
      <4> QED BY <2>12, <3>2, <3>3, <4>1, <4>2, <4>3 DEF Save
    <3> QED BY <3>4, <3>5
  <2>13. CASE Evidence(r, h) BY <2>13 DEF Evidence
  <2>14. CASE Attest(r, h)
    <3>1. native' \in [Hosts -> {"stopped", "prepared", "accepted", "finalized"}]
      BY <2>14 DEF Attest
    <3>2. accepted' \in [Hosts -> Boots] BY <2>14 DEF Attest
    <3> QED BY <2>14, <3>1, <3>2 DEF Attest
  <2>15. CASE AdmitFinalization(r, h) BY <2>15 DEF AdmitFinalization
  <2>16. CASE Finalize(r, h) BY <2>16 DEF Finalize
  <2> QED BY <1>3, <2>1, <2>2, <2>3, <2>4, <2>5, <2>6, <2>7, <2>8, <2>9, <2>10,
             <2>11, <2>12, <2>13, <2>14, <2>15, <2>16 DEF Thread
<1>4. CASE TornSave(r, h) BY <1>4 DEF TornSave
<1>5. CASE Fail(r, h) BY <1>5 DEF Fail
<1> QED BY <1>1, <1>2, <1>3, <1>4, <1>5

LEMMA WorldTypeOK == TypeOK /\ World => TypeOK'
<1> SUFFICES ASSUME TypeOK, World PROVE TypeOK' OBVIOUS
<1> USE LifecycleAssumption DEF TypeOK, control, journal, machine, Boots
<1>1. CASE Clock BY <1>1 DEF Clock
<1>2. ASSUME NEW h \in Hosts, HandleReboot(h) PROVE TypeOK' BY <1>2 DEF HandleReboot
<1>3. ASSUME NEW h \in Hosts, Reboot(h) PROVE TypeOK' BY <1>3 DEF Reboot
<1>4. ASSUME NEW h \in Hosts, Rollback(h) PROVE TypeOK' BY <1>4 DEF Rollback
<1> QED BY <1>1, <1>2, <1>3, <1>4 DEF World

LEMMA NextTypeOK == TypeOK /\ [Next]_vars => TypeOK'
<1> SUFFICES ASSUME TypeOK, [Next]_vars PROVE TypeOK' OBVIOUS
<1>1. CASE World BY <1>1, WorldTypeOK
<1>2. CASE \E r \in Runs : Drive(r) BY <1>2, RunTypeOK, HostTypeOK DEF Drive
<1>3. CASE UNCHANGED vars BY <1>3 DEF TypeOK, vars, control, journal, machine
<1> QED BY <1>1, <1>2, <1>3 DEF Next

\* Every variable keeps its type, in every instance of the lifecycle.
THEOREM TypeCorrect == Spec => []TypeOK
BY InitTypeOK, NextTypeOK, PTL DEF Spec
------------------------------------------------------------------------------
(***************************************************************************)
(* At most once.  A thread that is about to issue a mutation holds it: its *)
(* intent exists, it has not been issued, and nobody else holds it.  Only  *)
(* Begin makes a holder, only an issue ends one.                           *)
(***************************************************************************)
Holds(r, h, m) == pc[r][h] = "act" /\ step[r][h] = m

OnceInv ==
  /\ \A h \in Hosts, m \in Mutations :
       effects[h][m] = 0 \/ (effects[h][m] = 1 /\ m \in intent[h])
  /\ \A r \in Runs, h \in Hosts, m \in Mutations :
       Holds(r, h, m) => m \in intent[h] /\ effects[h][m] = 0
  /\ \A q, r \in Runs, h \in Hosts, m \in Mutations :
       Holds(q, h, m) /\ Holds(r, h, m) => q = r

NoNewHolder ==
  \A r \in Runs, h \in Hosts, m \in Mutations : Holds(r, h, m)' => Holds(r, h, m)

LEMMA QuietKeepsOnce ==
  ASSUME OnceInv, NoNewHolder, UNCHANGED <<intent, effects>>
  PROVE  OnceInv'
BY DEF OnceInv, NoNewHolder

LEMMA BeginKeepsOnce ==
  ASSUME TypeOK, OnceInv, NEW r \in Runs, NEW h \in Hosts, Begin(r, h)
  PROVE  OnceInv'
<1> DEFINE s == step[r][h]
<1>1. /\ s \notin intent[h]
      /\ intent' = [intent EXCEPT ![h] = @ \cup {s}]
      /\ UNCHANGED <<step, effects>>
      /\ pc' = [pc EXCEPT ![r][h] = "act"]
  BY DEF Begin, Go, At
<1>2. \A g \in Hosts : intent[g] \subseteq intent'[g] BY <1>1 DEF TypeOK
<1>3. \A q \in Runs, g \in Hosts, m \in Mutations :
        Holds(q, g, m)' => Holds(q, g, m) \/ (q = r /\ g = h /\ m = s)
  BY <1>1 DEF Holds, TypeOK
<1>4. s \in Mutations => s \in intent'[h] /\ effects[h][s] = 0
  BY <1>1 DEF OnceInv, TypeOK
<1>5. \A q \in Runs : s \in Mutations => ~ Holds(q, h, s)
  BY <1>1 DEF OnceInv
<1> QED BY <1>1, <1>2, <1>3, <1>4, <1>5 DEF OnceInv

LEMMA IssueKeepsOnce ==
  ASSUME TypeOK, OnceInv, NEW r \in Runs, NEW h \in Hosts, NEW m \in Mutations,
         Holds(r, h, m), Issue(h, m), UNCHANGED <<intent, step>>,
         NEW l \in Locations \ {"act"}, Go(r, h, l)
  PROVE  OnceInv'
<1>1. effects' = [effects EXCEPT ![h][m] = @ + 1] BY DEF Issue
<1>2. pc' = [pc EXCEPT ![r][h] = l] BY DEF Go
<1>3. \A g \in Hosts, k \in Mutations :
        effects'[g][k] = IF g = h /\ k = m THEN effects[g][k] + 1 ELSE effects[g][k]
  BY <1>1 DEF TypeOK
<1>4. \A q \in Runs, g \in Hosts, k \in Mutations :
        Holds(q, g, k)' => Holds(q, g, k) /\ ~ (q = r /\ g = h)
  BY <1>2 DEF Holds, TypeOK
<1>5. effects'[h][m] = 1 /\ m \in intent[h] BY <1>3 DEF OnceInv
<1>6. \A q \in Runs : Holds(q, h, m)' => FALSE BY <1>4 DEF OnceInv
<1> QED BY <1>3, <1>4, <1>5, <1>6 DEF OnceInv

LEMMA IssueActionsKeepOnce ==
  ASSUME TypeOK, OnceInv, NEW r \in Runs, NEW h \in Hosts,
         SubmitReboot(r, h) \/ ApplyCatalog(r, h) \/ RunCanary(r, h)
  PROVE  OnceInv'
<1> USE DEF journal, At
<1>1. CASE SubmitReboot(r, h)
  BY <1>1, IssueKeepsOnce, StepFacts DEF SubmitReboot, Holds, Locations
<1>2. CASE ApplyCatalog(r, h)
  BY <1>2, IssueKeepsOnce, StepFacts DEF ApplyCatalog, Holds, Locations
<1>3. CASE RunCanary(r, h)
  <2>1. step[r][h] \in Mutations BY <1>3, StepFacts DEF RunCanary, Health, TypeOK
  <2>2. Holds(r, h, step[r][h]) BY <1>3 DEF RunCanary, Holds
  <2>3. Issue(h, step[r][h]) /\ UNCHANGED <<intent, step>> BY <1>3 DEF RunCanary
  <2>4. Go(r, h, "save") \/ Go(r, h, "err") BY <1>3 DEF RunCanary
  <2>5. "save" \in Locations \ {"act"} /\ "err" \in Locations \ {"act"} BY DEF Locations
  <2> QED BY <2>1, <2>2, <2>3, <2>4, <2>5, IssueKeepsOnce
<1> QED BY <1>1, <1>2, <1>3

LEMMA RunIsQuiet ==
  ASSUME TypeOK, NEW r \in Runs,
         StartRun(r) \/ Crash(r) \/ BeginWaves(r) \/ NextWave(r) \/ Report(r) \/ StopWave(r)
  PROVE  NoNewHolder /\ UNCHANGED <<intent, effects>>
<1> USE DEF TypeOK, NoNewHolder, Holds, journal
<1>1. CASE StartRun(r) BY <1>1 DEF StartRun
<1>2. CASE Crash(r) BY <1>2 DEF Crash, EndRun, Forget
<1>3. CASE BeginWaves(r) BY <1>3 DEF BeginWaves, Threads
<1>4. CASE NextWave(r) BY <1>4 DEF NextWave, Advance, Threads
<1>5. CASE Report(r) BY <1>5 DEF Report, EndRun, Forget
<1>6. CASE StopWave(r) BY <1>6 DEF StopWave, EndRun, Forget
<1> QED BY <1>1, <1>2, <1>3, <1>4, <1>5, <1>6

\* Any other step of a thread moves it somewhere else than to "act", or to the
\* "act" of the one step that is no mutation.
LEMMA HostIsQuiet ==
  ASSUME TypeOK, NEW r \in Runs, NEW h \in Hosts,
         AdmitHost(r, h) \/ TornAdmission(r, h) \/ Thread(r, h) \/ TornSave(r, h) \/ Fail(r, h),
         ~ Begin(r, h), ~ SubmitReboot(r, h), ~ ApplyCatalog(r, h), ~ RunCanary(r, h)
  PROVE  NoNewHolder /\ UNCHANGED <<intent, effects>>
<1> USE DEF TypeOK, NoNewHolder, Holds, control, journal, Go, GoTo
<1>1. CASE AdmitHost(r, h) BY <1>1 DEF AdmitHost
<1>2. CASE TornAdmission(r, h) BY <1>2 DEF TornAdmission, EndRun, Forget
<1>3. CASE Observe(r, h) BY <1>3 DEF Observe
<1>4. CASE ReadPending(r, h)
  <2>1. pc' = [pc EXCEPT ![r][h] = IF step[r][h] \in Mutations THEN "begin" ELSE "act"]
    BY <1>4 DEF ReadPending
  <2> QED BY <1>4, <2>1 DEF ReadPending
<1>5. CASE ReadAmbiguous(r, h) BY <1>5 DEF ReadAmbiguous
<1>6. CASE ReadComplete(r, h) BY <1>6 DEF ReadComplete, NextLocation
<1>7. CASE Poll(r, h) BY <1>7 DEF Poll
<1>8. CASE StartAcceptance(r, h) BY <1>8 DEF StartAcceptance
<1>9. CASE CollectHealth(r, h) BY <1>9 DEF CollectHealth
<1>10. CASE Save(r, h)
  <2>1. CASE step[r][h] = Catalog /\ ~ got[r][h].ok 
    <3>1. pc' = [pc EXCEPT ![r][h] = "err"] /\ step' = step BY <1>10, <2>1 DEF Save
    <3> QED BY <1>10, <3>1 DEF Save
  <2>2. CASE ~ (step[r][h] = Catalog /\ ~ got[r][h].ok)
    <3>1. /\ pc' = [pc EXCEPT ![r][h] = NextLocation(step[r][h])]
          /\ step' = [step EXCEPT ![r][h] = NextStep(step[r][h])]
      BY <1>10, <2>2 DEF Save
    <3>2. NextLocation(step[r][h]) # "act" BY DEF NextLocation
    <3> QED BY <1>10, <3>1, <3>2 DEF Save
  <2> QED BY <2>1, <2>2
<1>11. CASE Evidence(r, h) BY <1>11 DEF Evidence
<1>12. CASE Attest(r, h) BY <1>12 DEF Attest
<1>13. CASE AdmitFinalization(r, h) BY <1>13 DEF AdmitFinalization
<1>14. CASE Finalize(r, h) BY <1>14 DEF Finalize
<1>15. CASE TornSave(r, h) BY <1>15 DEF TornSave
<1>16. CASE Fail(r, h) BY <1>16 DEF Fail
<1> QED BY <1>1, <1>2, <1>3, <1>4, <1>5, <1>6, <1>7, <1>8, <1>9, <1>10, <1>11,
           <1>12, <1>13, <1>14, <1>15, <1>16 DEF Thread

LEMMA WorldIsQuiet ==
  World => NoNewHolder /\ UNCHANGED <<intent, effects>>
BY DEF World, Clock, HandleReboot, Reboot, Rollback, NoNewHolder, Holds, control, journal

LEMMA NextOnce == TypeOK /\ OnceInv /\ [Next]_vars => OnceInv'
<1> SUFFICES ASSUME TypeOK, OnceInv, [Next]_vars PROVE OnceInv' OBVIOUS
<1>1. CASE World BY <1>1, WorldIsQuiet, QuietKeepsOnce
<1>2. ASSUME NEW r \in Runs, Drive(r) PROVE OnceInv'
  <2>1. CASE StartRun(r) \/ Crash(r) \/ BeginWaves(r) \/ NextWave(r) \/ Report(r) \/ StopWave(r)
    BY <2>1, RunIsQuiet, QuietKeepsOnce
  <2>2. ASSUME NEW h \in Hosts,
               AdmitHost(r, h) \/ TornAdmission(r, h) \/ Thread(r, h) \/ TornSave(r, h) \/ Fail(r, h)
        PROVE  OnceInv'
    <3>1. CASE Begin(r, h) BY <3>1, BeginKeepsOnce
    <3>2. CASE SubmitReboot(r, h) \/ ApplyCatalog(r, h) \/ RunCanary(r, h)
      BY <3>2, IssueActionsKeepOnce
    <3>3. CASE /\ ~ Begin(r, h) /\ ~ SubmitReboot(r, h)
               /\ ~ ApplyCatalog(r, h) /\ ~ RunCanary(r, h)
      BY <2>2, <3>3, HostIsQuiet, QuietKeepsOnce
    <3> QED BY <3>1, <3>2, <3>3
  <2> QED BY <1>2, <2>1, <2>2 DEF Drive
<1>3. CASE UNCHANGED vars
  BY <1>3, QuietKeepsOnce DEF vars, control, journal, NoNewHolder, Holds
<1> QED BY <1>1, <1>2, <1>3 DEF Next

LEMMA InitOnce == Init => OnceInv
<1> SUFFICES ASSUME Init PROVE OnceInv OBVIOUS
<1>1. \A r \in Runs, h \in Hosts : pc[r][h] = "wait" BY DEF Init
<1>2. \A h \in Hosts, m \in Mutations : effects[h][m] = 0 BY DEF Init
<1> QED BY <1>1, <1>2 DEF OnceInv, Holds

\* No mutation is issued twice for a host, whatever runs overlap, crash, lose
\* replies or resume: the property the exclusive intent files are for.
THEOREM AtMostOnce == Spec => []MutationsAtMostOnce
<1>1. OnceInv /\ TypeOK => MutationsAtMostOnce BY DEF OnceInv, TypeOK, MutationsAtMostOnce
<1>2. Spec => []OnceInv BY InitOnce, NextOnce, TypeCorrect, PTL DEF Spec
<1> QED BY <1>1, <1>2, TypeCorrect, PTL
------------------------------------------------------------------------------
(***************************************************************************)
(* The barrier.  A run in wave w knows that every host is admitted and     *)
(* that the waves before w are finalized, because the threads it waited    *)
(* for ended "ok" and finalization is permanent.                           *)
(***************************************************************************)
WaveInv ==
  /\ \A r \in Runs : phase[r] = "waves" =>
       \A h \in Hosts : /\ admission[h] \in Reasons
                        /\ Wave[h] < wave[r] => native[h] = "finalized"
  /\ \A r \in Runs : phase[r] = "admit" => wave[r] = 1
  /\ \A r \in Runs, h \in Hosts :
       pc[r][h] # "wait" => phase[r] = "waves" /\ Wave[h] = wave[r]
  /\ \A r \in Runs, h \in Hosts : pc[r][h] = "ok" => native[h] = "finalized"
  /\ \A h \in Hosts : admission[h] \in Reasons => native[h] # "stopped"
  /\ \A h \in Hosts : effects[h][Submit] > 0 =>
       \A g \in Hosts : /\ admission[g] \in Reasons
                        /\ Wave[g] < Wave[h] => native[g] = "finalized"
  /\ reported => \A h \in Hosts : native[h] = "finalized"

\* What no step undoes.
Permanent ==
  \A h \in Hosts :
    /\ native[h] = "finalized" => native'[h] = "finalized"
    /\ native[h] # "stopped" => native'[h] # "stopped"
    /\ admission[h] \in Reasons => admission'[h] = admission[h]

\* What most steps of a thread have in common.
Ordinary ==
  /\ Permanent
  /\ UNCHANGED <<phase, wave, admission, reported>>
  /\ \A h \in Hosts : effects'[h][Submit] = effects[h][Submit]
  /\ \A r \in Runs, h \in Hosts :
       /\ pc'[r][h] # "wait" => pc[r][h] # "wait"
       /\ pc'[r][h] = "ok" => pc[r][h] = "ok"

LEMMA OrdinaryKeepsWave == ASSUME WaveInv, Ordinary PROVE WaveInv'
BY DEF WaveInv, Ordinary, Permanent

LEMMA IssueElsewhere ==
  ASSUME TypeOK, NEW h \in Hosts, NEW m \in Mutations, m # Submit, Issue(h, m)
  PROVE  \A g \in Hosts : effects'[g][Submit] = effects[g][Submit]
BY StepFacts DEF TypeOK, Issue

\* A thread that moves is not waiting, and where it goes is neither "wait" nor,
\* but for Finalize, "ok".
LEMMA MoveIsOrdinary ==
  ASSUME TypeOK, NEW r \in Runs, NEW h \in Hosts, pc[r][h] # "wait",
         NEW l \in Locations \ {"wait", "ok"}, Go(r, h, l)
  PROVE  \A q \in Runs, g \in Hosts :
           /\ pc'[q][g] # "wait" => pc[q][g] # "wait"
           /\ pc'[q][g] = "ok" => pc[q][g] = "ok"
BY DEF TypeOK, Go

LEMMA ThreadIsOrdinary ==
  ASSUME TypeOK, NEW r \in Runs, NEW h \in Hosts,
         Thread(r, h) \/ TornSave(r, h) \/ Fail(r, h),
         ~ SubmitReboot(r, h), ~ Finalize(r, h)
  PROVE  Ordinary
<1> USE StepFacts DEF At, GoTo, journal, machine
<1>m. ASSUME pc[r][h] # "wait", NEW l \in Locations \ {"wait", "ok"}, Go(r, h, l),
             UNCHANGED <<phase, wave, admission, reported>>,
             Permanent, \A g \in Hosts : effects'[g][Submit] = effects[g][Submit]
      PROVE  Ordinary
  BY <1>m, MoveIsOrdinary DEF Ordinary
<1>l. /\ Locations \ {"wait", "ok"} =
           {"observe", "read", "begin", "act", "save", "poll", "accepting",
            "evidence", "attest", "admitFinal", "finalize", "err"}
      /\ \A s \in Steps : NextLocation(s) \in {"read", "evidence"}
  BY DEF Locations, NextLocation
<1>p. UNCHANGED <<native, admission>> => Permanent BY DEF Permanent
<1>1. CASE Observe(r, h) BY <1>1, <1>m, <1>l, <1>p DEF Observe
<1>2. CASE ReadPending(r, h) BY <1>2, <1>m, <1>l, <1>p DEF ReadPending
<1>3. CASE ReadAmbiguous(r, h) BY <1>3, <1>m, <1>l, <1>p DEF ReadAmbiguous
<1>4. CASE ReadComplete(r, h) BY <1>4, <1>m, <1>l, <1>p DEF ReadComplete, TypeOK
<1>5. CASE Begin(r, h) BY <1>5, <1>m, <1>l, <1>p DEF Begin
<1>6. CASE Poll(r, h) BY <1>6, <1>m, <1>l, <1>p DEF Poll
<1>7. CASE StartAcceptance(r, h) BY <1>7, <1>m, <1>l, <1>p DEF StartAcceptance
<1>8. CASE ApplyCatalog(r, h)
  BY <1>8, <1>m, <1>l, <1>p, IssueElsewhere DEF ApplyCatalog, Catalog, Submit
<1>9. CASE CollectHealth(r, h) BY <1>9, <1>m, <1>l, <1>p DEF CollectHealth
<1>10. CASE RunCanary(r, h)
  <2>1. step[r][h] \in Mutations /\ step[r][h] # Submit
    BY <1>10 DEF RunCanary, Health, Submit, TypeOK
  <2>2. \A g \in Hosts : effects'[g][Submit] = effects[g][Submit]
    BY <1>10, <2>1, IssueElsewhere DEF RunCanary
  <2>3. Go(r, h, "save") \/ Go(r, h, "err") BY <1>10 DEF RunCanary
  <2>4. pc[r][h] # "wait" /\ UNCHANGED <<phase, wave, admission, reported, native>>
    BY <1>10 DEF RunCanary
  <2> QED BY <2>2, <2>3, <2>4, <1>m, <1>l, <1>p
<1>11. CASE Save(r, h)
  <2>1. Go(r, h, "err") \/ Go(r, h, NextLocation(step[r][h])) BY <1>11 DEF Save
  <2>2. step[r][h] \in Steps BY DEF TypeOK
  <2>3. pc[r][h] # "wait" /\ UNCHANGED <<phase, wave, admission, reported, native, effects>>
    BY <1>11 DEF Save
  <2> QED BY <2>1, <2>2, <2>3, <1>m, <1>l, <1>p
<1>12. CASE Evidence(r, h) BY <1>12, <1>m, <1>l, <1>p DEF Evidence
<1>13. CASE Attest(r, h)
  <2>1. Permanent BY <1>13 DEF Attest, Permanent, TypeOK
  <2> QED BY <1>13, <2>1, <1>m, <1>l DEF Attest
<1>14. CASE AdmitFinalization(r, h) BY <1>14, <1>m, <1>l, <1>p DEF AdmitFinalization
<1>15. CASE TornSave(r, h) BY <1>15, <1>m, <1>l, <1>p DEF TornSave
<1>16. CASE Fail(r, h) BY <1>16, <1>m, <1>l, <1>p DEF Fail
<1> QED BY <1>1, <1>2, <1>3, <1>4, <1>5, <1>6, <1>7, <1>8, <1>9, <1>10, <1>11,
           <1>12, <1>13, <1>14, <1>15, <1>16 DEF Thread

LEMMA WorldIsOrdinary == World => Ordinary
BY DEF World, Clock, HandleReboot, Reboot, Rollback, Ordinary, Permanent, control, journal, machine

LEMMA SubmitKeepsWave ==
  ASSUME TypeOK, WaveInv, NEW r \in Runs, NEW h \in Hosts, SubmitReboot(r, h)
  PROVE  WaveInv'
<1>1. /\ phase[r] = "waves" /\ Wave[h] = wave[r]
      /\ \A g \in Hosts : admission[g] \in Reasons
      /\ \A g \in Hosts : Wave[g] < Wave[h] => native[g] = "finalized"
  BY DEF SubmitReboot, At, WaveInv
<1>2. \A g \in Hosts : g # h => effects'[g][Submit] = effects[g][Submit]
  BY StepFacts DEF SubmitReboot, Issue, TypeOK
<1>3. \A q \in Runs, g \in Hosts :
        /\ pc'[q][g] # "wait" => pc[q][g] # "wait"
        /\ pc'[q][g] = "ok" => pc[q][g] = "ok"
  BY MoveIsOrdinary DEF SubmitReboot, At, Locations
<1>4. UNCHANGED <<phase, wave, admission, reported, native>> BY DEF SubmitReboot, journal
<1> QED BY <1>1, <1>2, <1>3, <1>4 DEF WaveInv

LEMMA FinalizeKeepsWave ==
  ASSUME TypeOK, WaveInv, NEW r \in Runs, NEW h \in Hosts, Finalize(r, h)
  PROVE  WaveInv'
<1>1. /\ native' = [native EXCEPT ![h] = "finalized"]
      /\ pc' = [pc EXCEPT ![r][h] = "ok"]
      /\ pc[r][h] = "finalize" /\ phase[r] = "waves"
      /\ UNCHANGED <<phase, wave, admission, reported, effects>>
  BY DEF Finalize, At, Go, journal
<1>2. \A g \in Hosts : native'[g] = IF g = h THEN "finalized" ELSE native[g]
  BY <1>1 DEF TypeOK
<1>3. \A q \in Runs, g \in Hosts : pc'[q][g] = IF q = r /\ g = h THEN "ok" ELSE pc[q][g]
  BY <1>1 DEF TypeOK
<1> QED BY <1>1, <1>2, <1>3 DEF WaveInv

LEMMA RunKeepsWave ==
  ASSUME TypeOK, WaveInv, NEW r \in Runs,
         StartRun(r) \/ Crash(r) \/ BeginWaves(r) \/ NextWave(r) \/ Report(r) \/ StopWave(r)
  PROVE  WaveInv'
<1> USE LifecycleAssumption DEF TypeOK, WaveInv, journal, machine
<1>1. CASE StartRun(r) BY <1>1 DEF StartRun
<1>2. CASE Crash(r) BY <1>2 DEF Crash, EndRun, Forget
<1>3. CASE BeginWaves(r) BY <1>3 DEF BeginWaves, Threads
<1>4. CASE NextWave(r)
  <2>0. \A h \in Hosts : Wave[h] \in Nat /\ wave[r] \in Nat OBVIOUS
  <2>1. ASSUME NEW h \in Hosts, Wave[h] < wave[r] + 1 PROVE native[h] = "finalized"
    <3>1. CASE Wave[h] = wave[r] BY <1>4, <3>1 DEF NextWave, InWave
    <3>2. CASE Wave[h] < wave[r] BY <1>4, <3>2 DEF NextWave
    <3>3. Wave[h] \in Nat /\ wave[r] \in Nat /\ Wave[h] < wave[r] + 1 BY <2>0, <2>1
    <3>4. Wave[h] = wave[r] \/ Wave[h] < wave[r] BY ONLY <3>3
    <3> QED BY ONLY <3>1, <3>2, <3>4
  <2>2. /\ wave' = [wave EXCEPT ![r] = @ + 1] /\ phase[r] = "waves"
        /\ \A h \in Hosts : pc'[r][h] # "wait" => Wave[h] = wave[r] + 1
        /\ \A h \in Hosts : pc'[r][h] # "ok"
        /\ \A q \in Runs : q # r => pc'[q] = pc[q]
        /\ UNCHANGED <<phase, admission, native, effects, reported>>
    BY <1>4 DEF NextWave, Advance, Threads
  <2>3. wave'[r] = wave[r] + 1 /\ \A q \in Runs : q # r => wave'[q] = wave[q] BY <2>2
  <2>4. \A q \in Runs : phase'[q] = "waves" =>
          \A h \in Hosts : /\ admission'[h] \in Reasons
                           /\ Wave[h] < wave'[q] => native'[h] = "finalized"
    BY <2>1, <2>2, <2>3
  <2>5. \A q \in Runs : phase'[q] = "admit" => wave'[q] = 1 BY <2>2, <2>3
  <2>6. \A q \in Runs, h \in Hosts :
          /\ pc'[q][h] # "wait" => phase'[q] = "waves" /\ Wave[h] = wave'[q]
          /\ pc'[q][h] = "ok" => native'[h] = "finalized"
    BY <2>2, <2>3
  <2> QED BY <2>2, <2>4, <2>5, <2>6
<1>5. CASE Report(r)
  <2>1. ASSUME NEW h \in Hosts PROVE native[h] = "finalized"
    <3>1. CASE Wave[h] = wave[r] BY <1>5, <3>1 DEF Report, InWave
    <3>2. CASE Wave[h] < wave[r] BY <1>5, <3>2 DEF Report
    <3>3. Wave[h] \in 1 .. Waves /\ Waves \in Nat /\ wave[r] = Waves BY <1>5 DEF Report
    <3>4. Wave[h] = wave[r] \/ Wave[h] < wave[r] BY ONLY <3>3
    <3> QED BY ONLY <3>1, <3>2, <3>4
  <2> QED BY <1>5, <2>1 DEF Report, EndRun, Forget
<1>6. CASE StopWave(r) BY <1>6 DEF StopWave, EndRun, Forget
<1> QED BY <1>1, <1>2, <1>3, <1>4, <1>5, <1>6

LEMMA AdmissionKeepsWave ==
  ASSUME TypeOK, WaveInv, NEW r \in Runs, NEW h \in Hosts,
         AdmitHost(r, h) \/ TornAdmission(r, h)
  PROVE  WaveInv'
<1>1. /\ admission[h] = "none" /\ native[h] # "stopped"
      /\ \A g \in Hosts : g # h => admission'[g] = admission[g]
      /\ UNCHANGED <<wave, reported, native, effects>>
  BY DEF AdmitHost, TornAdmission, Plannable, EndRun, control, machine, TypeOK
<1>2. \A q \in Runs, g \in Hosts :
        /\ pc'[q][g] # "wait" => pc'[q][g] = pc[q][g] /\ phase'[q] = phase[q]
        /\ phase'[q] \in {"admit", "waves"} => phase'[q] = phase[q]
  BY DEF AdmitHost, TornAdmission, EndRun, Forget, control, TypeOK, WaveInv
<1>3. "none" \notin Reasons BY DEF Reasons
<1> QED BY <1>1, <1>2, <1>3 DEF WaveInv

LEMMA NextWaveInv == TypeOK /\ WaveInv /\ [Next]_vars => WaveInv'
<1> SUFFICES ASSUME TypeOK, WaveInv, [Next]_vars PROVE WaveInv' OBVIOUS
<1>1. CASE World BY <1>1, WorldIsOrdinary, OrdinaryKeepsWave
<1>2. ASSUME NEW r \in Runs, Drive(r) PROVE WaveInv'
  <2>1. CASE StartRun(r) \/ Crash(r) \/ BeginWaves(r) \/ NextWave(r) \/ Report(r) \/ StopWave(r)
    BY <2>1, RunKeepsWave
  <2>2. ASSUME NEW h \in Hosts, AdmitHost(r, h) \/ TornAdmission(r, h)
        PROVE  WaveInv'
    BY <2>2, AdmissionKeepsWave
  <2>3. ASSUME NEW h \in Hosts, Thread(r, h) \/ TornSave(r, h) \/ Fail(r, h)
        PROVE  WaveInv'
    <3>1. CASE SubmitReboot(r, h) BY <3>1, SubmitKeepsWave
    <3>2. CASE Finalize(r, h) BY <3>2, FinalizeKeepsWave
    <3>3. CASE ~ SubmitReboot(r, h) /\ ~ Finalize(r, h)
      BY <2>3, <3>3, ThreadIsOrdinary, OrdinaryKeepsWave
    <3> QED BY <3>1, <3>2, <3>3
  <2> QED BY <1>2, <2>1, <2>2, <2>3 DEF Drive
<1>3. CASE UNCHANGED vars
  BY <1>3 DEF vars, control, journal, machine, WaveInv
<1> QED BY <1>1, <1>2, <1>3 DEF Next

LEMMA InitWave == Init => WaveInv
<1> SUFFICES ASSUME Init PROVE WaveInv OBVIOUS
<1>1. \A r \in Runs, h \in Hosts : pc[r][h] = "wait" /\ phase[r] = "idle" BY DEF Init
<1>2. \A h \in Hosts : effects[h][Submit] = 0 BY StepFacts DEF Init
<1>3. \A h \in Hosts : admission[h] \notin Reasons BY DEF Init, Reasons
<1>4. \A r \in Runs : phase[r] = "idle" BY DEF Init
<1>5. ~ reported BY DEF Init
<1> QED BY <1>1, <1>2, <1>3, <1>4, <1>5 DEF WaveInv

THEOREM WaveInvariant == Spec => []WaveInv
BY InitWave, NextWaveInv, TypeCorrect, PTL DEF Spec

\* No host is rebooted before every host of the policy has been admitted.
THEOREM AdmittedFirst == Spec => []EveryHostAdmittedFirst
<1>1. WaveInv => EveryHostAdmittedFirst BY DEF WaveInv, EveryHostAdmittedFirst
<1> QED BY <1>1, WaveInvariant, PTL

\* A retained lifecycle result means that every host is finalized.
THEOREM ReportTruthful == Spec => []ReportMeansFinalized
<1>1. WaveInv => ReportMeansFinalized BY DEF WaveInv, ReportMeansFinalized
<1> QED BY <1>1, WaveInvariant, PTL
------------------------------------------------------------------------------
(***************************************************************************)
(* Acceptance.  Result files are never replaced, so what a thread gathered *)
(* before it attests is still there when the host accepts; and only a      *)
(* submitted host holds a native request.                                  *)
(***************************************************************************)
Passed(h, b) ==
  \A s \in Recorded : done[h][s] = [file |-> "whole", boot |-> b, ok |-> TRUE]

EvidenceInv ==
  /\ \A h \in requested \cup inflight : effects[h][Submit] > 0
  /\ \A r \in Runs, h \in Hosts :
       pc[r][h] = "attest" => h \in requested /\ Passed(h, seen[r][h])
  /\ \A h \in Hosts : native[h] \in {"accepted", "finalized"} =>
       effects[h][Submit] > 0 /\ Passed(h, accepted[h])

\* What most steps leave alone for the evidence.
Untouched ==
  /\ \A h \in Hosts, b \in Boots : Passed(h, b) => Passed(h, b)'
  /\ \A h \in Hosts : effects[h][Submit] > 0 => effects'[h][Submit] > 0
  /\ requested \subseteq requested'
  /\ requested' \cup inflight' \subseteq requested \cup inflight
  /\ UNCHANGED accepted
  /\ \A h \in Hosts :
       native'[h] \in {"accepted", "finalized"} => native[h] \in {"accepted", "finalized"}
  /\ \A r \in Runs, h \in Hosts :
       pc'[r][h] = "attest" => pc[r][h] = "attest" /\ seen'[r][h] = seen[r][h]

LEMMA UntouchedKeepsEvidence ==
  ASSUME TypeOK, EvidenceInv, Untouched PROVE EvidenceInv'
<1>1. \A h \in Hosts : accepted[h] \in Boots /\ \A r \in Runs : seen[r][h] \in Boots
  BY DEF TypeOK
<1>2. ASSUME NEW h \in requested' \cup inflight' PROVE effects'[h][Submit] > 0
  BY <1>2 DEF EvidenceInv, Untouched, TypeOK
<1>3. ASSUME NEW r \in Runs, NEW h \in Hosts, pc'[r][h] = "attest"
      PROVE  h \in requested' /\ Passed(h, seen[r][h])' /\ seen'[r][h] = seen[r][h]
  <2>1. pc[r][h] = "attest" /\ seen'[r][h] = seen[r][h] BY <1>3 DEF Untouched
  <2>2. h \in requested /\ Passed(h, seen[r][h]) BY <2>1 DEF EvidenceInv
  <2>3. seen[r][h] \in Boots BY <1>1
  <2> QED BY <2>1, <2>2, <2>3 DEF Untouched, Passed
<1>4. ASSUME NEW h \in Hosts, native'[h] \in {"accepted", "finalized"}
      PROVE  effects'[h][Submit] > 0 /\ Passed(h, accepted[h])'
  <2>1. native[h] \in {"accepted", "finalized"} /\ accepted' = accepted
    BY <1>4 DEF Untouched
  <2>2. effects[h][Submit] > 0 /\ Passed(h, accepted[h]) BY <2>1 DEF EvidenceInv
  <2>3. accepted[h] \in Boots BY <1>1
  <2>4. effects'[h][Submit] > 0 BY <2>2 DEF Untouched
  <2>5. \A s \in Recorded :
          done'[h][s] = [file |-> "whole", boot |-> accepted[h], ok |-> TRUE]
    BY <2>2, <2>3 DEF Untouched, Passed
  <2> QED BY <2>1, <2>4, <2>5 DEF Passed
<1> QED BY <1>2, <1>3, <1>4 DEF EvidenceInv, Passed

LEMMA SaveKeepsPassed ==
  ASSUME TypeOK, NEW r \in Runs, NEW h \in Hosts, Save(r, h) \/ TornSave(r, h)
  PROVE  \A g \in Hosts, b \in Boots : Passed(g, b) => Passed(g, b)'
<1>1. PICK x : done' = [done EXCEPT ![h][step[r][h]] = x] BY DEF Save, TornSave
<1>2. done[h][step[r][h]].file = "absent" BY DEF Save, TornSave
<1>3. ASSUME NEW g \in Hosts, NEW s \in Recorded, done[g][s].file # "absent"
      PROVE  done'[g][s] = done[g][s]
  BY <1>1, <1>2, <1>3 DEF TypeOK
<1> SUFFICES ASSUME NEW g \in Hosts, NEW b \in Boots, Passed(g, b), NEW s \in Recorded
             PROVE  done'[g][s] = [file |-> "whole", boot |-> b, ok |-> TRUE]
  BY DEF Passed
<1>5. done[g][s] = [file |-> "whole", boot |-> b, ok |-> TRUE] BY DEF Passed
<1>6. done[g][s].file # "absent" BY <1>5
<1> QED BY <1>3, <1>5, <1>6

LEMMA IssueKeepsSubmitted ==
  ASSUME TypeOK, NEW h \in Hosts, NEW m \in Mutations, Issue(h, m)
  PROVE  \A g \in Hosts : effects[g][Submit] > 0 => effects'[g][Submit] > 0
BY StepFacts DEF TypeOK, Issue

LEMMA ThreadIsUntouched ==
  ASSUME TypeOK, NEW r \in Runs, NEW h \in Hosts,
         Thread(r, h) \/ TornSave(r, h) \/ Fail(r, h),
         ~ SubmitReboot(r, h), ~ Evidence(r, h), ~ Attest(r, h)
  PROVE  Untouched
<1> USE StepFacts DEF At, GoTo, journal, machine
<1>p. UNCHANGED done => \A g \in Hosts, b \in Boots : Passed(g, b) => Passed(g, b)' BY DEF Passed
<1>m. ASSUME NEW l \in Locations \ {"attest"}, Go(r, h, l),
             \A q \in Runs, g \in Hosts : (q = r /\ g = h) \/ seen'[q][g] = seen[q][g]
      PROVE  \A q \in Runs, g \in Hosts :
               pc'[q][g] = "attest" => pc[q][g] = "attest" /\ seen'[q][g] = seen[q][g]
  BY <1>m DEF Go, TypeOK
<1>l. /\ Locations \ {"attest"} =
           {"wait", "observe", "read", "begin", "act", "save", "poll", "accepting",
            "evidence", "admitFinal", "finalize", "ok", "err"}
      /\ \A s \in Steps : NextLocation(s) \in {"read", "evidence"}
  BY DEF Locations, NextLocation
<1>e. ASSUME NEW l \in Locations \ {"attest"}, Go(r, h, l),
             UNCHANGED <<seen, done, requested, inflight, accepted, native, effects>>
      PROVE  Untouched
  BY <1>e, <1>m, <1>p DEF Untouched
<1>1. CASE Observe(r, h) BY <1>1, <1>e, <1>l DEF Observe
<1>2. CASE ReadPending(r, h) BY <1>2, <1>e, <1>l DEF ReadPending
<1>3. CASE ReadAmbiguous(r, h) BY <1>3, <1>e, <1>l DEF ReadAmbiguous
<1>4. CASE ReadComplete(r, h) BY <1>4, <1>e, <1>l DEF ReadComplete, TypeOK
<1>5. CASE Begin(r, h) BY <1>5, <1>e, <1>l DEF Begin
<1>6. CASE Poll(r, h) BY <1>6, <1>e, <1>l DEF Poll
<1>7. CASE StartAcceptance(r, h)
  <2>1. \A q \in Runs, g \in Hosts : (q = r /\ g = h) \/ seen'[q][g] = seen[q][g]
    BY <1>7 DEF StartAcceptance, TypeOK
  <2> QED BY <1>7, <2>1, <1>m, <1>l, <1>p DEF StartAcceptance, Untouched
<1>8. CASE ApplyCatalog(r, h)
  <2>1. \A g \in Hosts : effects[g][Submit] > 0 => effects'[g][Submit] > 0
    BY <1>8, IssueKeepsSubmitted DEF ApplyCatalog
  <2> QED BY <1>8, <2>1, <1>m, <1>l, <1>p DEF ApplyCatalog, Untouched
<1>9. CASE CollectHealth(r, h) BY <1>9, <1>e, <1>l DEF CollectHealth
<1>10. CASE RunCanary(r, h)
  <2>1. step[r][h] \in Mutations BY <1>10 DEF RunCanary, Health, TypeOK
  <2>2. \A g \in Hosts : effects[g][Submit] > 0 => effects'[g][Submit] > 0
    BY <1>10, <2>1, IssueKeepsSubmitted DEF RunCanary
  <2>3. Go(r, h, "save") \/ Go(r, h, "err") BY <1>10 DEF RunCanary
  <2>4. UNCHANGED <<seen, done, requested, inflight, accepted, native>> BY <1>10 DEF RunCanary
  <2> QED BY <2>2, <2>3, <2>4, <1>m, <1>l, <1>p DEF Untouched
<1>11. CASE Save(r, h)
  <2>1. Go(r, h, "err") \/ Go(r, h, NextLocation(step[r][h])) BY <1>11 DEF Save
  <2>2. step[r][h] \in Steps BY DEF TypeOK
  <2>3. UNCHANGED <<seen, requested, inflight, accepted, native, effects>> BY <1>11 DEF Save
  <2> QED BY <1>11, <2>1, <2>2, <2>3, <1>m, <1>l, SaveKeepsPassed DEF Untouched
<1>12. CASE AdmitFinalization(r, h) BY <1>12, <1>e, <1>l DEF AdmitFinalization
<1>13. CASE Finalize(r, h)
  <2>1. \A g \in Hosts : native'[g] \in {"accepted", "finalized"}
                           => native[g] \in {"accepted", "finalized"}
    BY <1>13 DEF Finalize, TypeOK
  <2> QED BY <1>13, <2>1, <1>m, <1>l, <1>p DEF Finalize, Untouched
<1>14. CASE TornSave(r, h)
  BY <1>14, <1>m, <1>l, SaveKeepsPassed DEF TornSave, Untouched
<1>15. CASE Fail(r, h) BY <1>15, <1>e, <1>l DEF Fail
<1> QED BY <1>1, <1>2, <1>3, <1>4, <1>5, <1>6, <1>7, <1>8, <1>9, <1>10, <1>11,
           <1>12, <1>13, <1>14, <1>15 DEF Thread

LEMMA RunIsUntouched ==
  ASSUME TypeOK, NEW r \in Runs,
         \/ StartRun(r) \/ Crash(r) \/ BeginWaves(r) \/ NextWave(r) \/ Report(r) \/ StopWave(r)
         \/ \E h \in Hosts : AdmitHost(r, h) \/ TornAdmission(r, h)
  PROVE  Untouched
<1> USE DEF TypeOK, Untouched, Passed, control, journal, machine
<1>1. CASE StartRun(r) BY <1>1 DEF StartRun
<1>2. CASE Crash(r) BY <1>2 DEF Crash, EndRun, Forget
<1>3. CASE BeginWaves(r) BY <1>3 DEF BeginWaves, Threads
<1>4. CASE NextWave(r) BY <1>4 DEF NextWave, Advance, Threads
<1>5. CASE Report(r) BY <1>5 DEF Report, EndRun, Forget
<1>6. CASE StopWave(r) BY <1>6 DEF StopWave, EndRun, Forget
<1>7. ASSUME NEW h \in Hosts, AdmitHost(r, h) PROVE Untouched BY <1>7 DEF AdmitHost
<1>8. ASSUME NEW h \in Hosts, TornAdmission(r, h) PROVE Untouched
  BY <1>8 DEF TornAdmission, EndRun, Forget
<1> QED BY <1>1, <1>2, <1>3, <1>4, <1>5, <1>6, <1>7, <1>8

LEMMA WorldIsUntouched == TypeOK /\ World => Untouched
BY DEF TypeOK, World, Clock, HandleReboot, Reboot, Rollback, Untouched, Passed, control, journal, machine

LEMMA SubmitKeepsEvidence ==
  ASSUME TypeOK, EvidenceInv, NEW r \in Runs, NEW h \in Hosts, SubmitReboot(r, h)
  PROVE  EvidenceInv'
<1>1. /\ \A g \in Hosts : effects[g][Submit] > 0 => effects'[g][Submit] > 0
      /\ effects'[h][Submit] > 0
  BY StepFacts DEF SubmitReboot, Issue, TypeOK
<1>2. \A q \in Runs, g \in Hosts : pc'[q][g] = "attest" => pc[q][g] = "attest"
  BY DEF SubmitReboot, Go, TypeOK
<1>3. inflight' = inflight \cup {h} /\ UNCHANGED <<seen, done, requested, accepted, native>>
  BY DEF SubmitReboot, journal
<1> QED BY <1>1, <1>2, <1>3 DEF EvidenceInv, Passed, TypeOK

LEMMA EvidenceKeepsEvidence ==
  ASSUME TypeOK, EvidenceInv, NEW r \in Runs, NEW h \in Hosts, Evidence(r, h)
  PROVE  EvidenceInv'
<1>1. /\ h \in requested /\ Passed(h, boot[h])
      /\ seen' = [seen EXCEPT ![r][h] = boot[h]]
      /\ pc' = [pc EXCEPT ![r][h] = "attest"]
      /\ UNCHANGED <<done, requested, inflight, accepted, native, effects>>
  BY DEF Evidence, TargetBooted, Gathered, Passed, Go, journal, machine
<1>2. seen'[r][h] = boot[h] BY <1>1 DEF TypeOK
<1>3. \A q \in Runs, g \in Hosts : ~ (q = r /\ g = h) =>
        pc'[q][g] = pc[q][g] /\ seen'[q][g] = seen[q][g]
  BY <1>1 DEF TypeOK
<1>4. ASSUME NEW q \in Runs, NEW g \in Hosts, pc'[q][g] = "attest"
      PROVE  g \in requested' /\ Passed(g, seen[q][g])'
  <2>1. CASE q = r /\ g = h BY <1>1, <1>2, <2>1 DEF Passed
  <2>2. CASE ~ (q = r /\ g = h) BY <1>1, <1>3, <1>4, <2>2 DEF EvidenceInv, Passed
  <2> QED BY <2>1, <2>2
<1> QED BY <1>1, <1>4 DEF EvidenceInv, Passed

LEMMA AttestKeepsEvidence ==
  ASSUME TypeOK, EvidenceInv, NEW r \in Runs, NEW h \in Hosts, Attest(r, h)
  PROVE  EvidenceInv'
<1>1. /\ h \in requested /\ Passed(h, seen[r][h]) /\ boot[h] = seen[r][h]
      /\ effects[h][Submit] > 0
      /\ UNCHANGED <<seen, done, requested, inflight, effects>>
  BY DEF Attest, At, EvidenceInv, journal
<1>2. \A q \in Runs, g \in Hosts : pc'[q][g] = "attest" => pc[q][g] = "attest"
  BY DEF Attest, Go, TypeOK
<1>3. \A g \in Hosts : \/ native'[g] = native[g] /\ accepted'[g] = accepted[g]
                       \/ g = h /\ accepted'[g] = seen[r][h]
  BY <1>1 DEF Attest, TypeOK
<1> QED BY <1>1, <1>2, <1>3 DEF EvidenceInv, Passed

LEMMA NextEvidence == TypeOK /\ EvidenceInv /\ [Next]_vars => EvidenceInv'
<1> SUFFICES ASSUME TypeOK, EvidenceInv, [Next]_vars PROVE EvidenceInv' OBVIOUS
<1>1. CASE World BY <1>1, WorldIsUntouched, UntouchedKeepsEvidence
<1>2. ASSUME NEW r \in Runs, Drive(r) PROVE EvidenceInv'
  <2>1. CASE \/ StartRun(r) \/ Crash(r) \/ BeginWaves(r) \/ NextWave(r) \/ Report(r) \/ StopWave(r)
             \/ \E h \in Hosts : AdmitHost(r, h) \/ TornAdmission(r, h)
    BY <2>1, RunIsUntouched, UntouchedKeepsEvidence
  <2>2. ASSUME NEW h \in Hosts, Thread(r, h) \/ TornSave(r, h) \/ Fail(r, h)
        PROVE  EvidenceInv'
    <3>1. CASE SubmitReboot(r, h) BY <3>1, SubmitKeepsEvidence
    <3>2. CASE Evidence(r, h) BY <3>2, EvidenceKeepsEvidence
    <3>3. CASE Attest(r, h) BY <3>3, AttestKeepsEvidence
    <3>4. CASE ~ SubmitReboot(r, h) /\ ~ Evidence(r, h) /\ ~ Attest(r, h)
      BY <2>2, <3>4, ThreadIsUntouched, UntouchedKeepsEvidence
    <3> QED BY <3>1, <3>2, <3>3, <3>4
  <2> QED BY <1>2, <2>1, <2>2 DEF Drive
<1>3. CASE UNCHANGED vars
  BY <1>3 DEF vars, control, journal, machine, EvidenceInv, Passed
<1> QED BY <1>1, <1>2, <1>3 DEF Next

LEMMA InitEvidence == Init => EvidenceInv
<1> SUFFICES ASSUME Init PROVE EvidenceInv OBVIOUS
<1>1. \A r \in Runs, h \in Hosts : pc[r][h] # "attest" BY DEF Init
<1>2. \A h \in Hosts : native[h] \notin {"accepted", "finalized"} BY DEF Init
<1>3. requested = {} /\ inflight = {} BY DEF Init
<1> QED BY <1>1, <1>2, <1>3 DEF EvidenceInv

THEOREM EvidenceInvariant == Spec => []EvidenceInv
BY InitEvidence, NextEvidence, TypeCorrect, PTL DEF Spec

\* Native acceptance rests on passed results of the one boot it names.
THEOREM OneBoot == Spec => []AcceptedOnOneBoot
<1>1. EvidenceInv => AcceptedOnOneBoot BY DEF EvidenceInv, AcceptedOnOneBoot, Passed
<1> QED BY <1>1, EvidenceInvariant, PTL
------------------------------------------------------------------------------
(***************************************************************************)
(* The lifecycle implements RollingUpdate, and with it keeps conflicting   *)
(* hosts apart.                                                            *)
(***************************************************************************)
LEMMA LifeFacts ==
  ASSUME TypeOK, EvidenceInv
  PROVE  \A h \in Hosts :
           /\ Life(h) \in {"pending", "disrupted", "accepted", "finalized"}
           /\ Life(h) = "finalized" <=> native[h] = "finalized"
           /\ Life(h) = "accepted" <=> native[h] = "accepted"
           /\ Life(h) # "pending" <=> effects[h][Submit] > 0
BY StepFacts DEF TypeOK, EvidenceInv, Life

\* Two conflicting hosts are never out of service together.
THEOREM NeverOutTogether == Spec => []ConflictingHostsNeverOutTogether
<1>1. TypeOK /\ EvidenceInv /\ WaveInv => ConflictingHostsNeverOutTogether
  <2> SUFFICES ASSUME TypeOK, EvidenceInv, WaveInv,
                      NEW g \in Hosts, NEW h \in Hosts, g # h, <<g, h>> \in Conflicts,
                      Life(g) \in {"disrupted", "accepted"}, Life(h) \in {"disrupted", "accepted"}
               PROVE  FALSE
    BY DEF ConflictingHostsNeverOutTogether, Promise!ConflictingHostsNeverOutTogether, Promise!Out
  <2>1. effects[g][Submit] > 0 /\ effects[h][Submit] > 0 BY LifeFacts
  <2>2. native[g] # "finalized" /\ native[h] # "finalized" BY LifeFacts
  <2>3. Wave[g] # Wave[h] /\ Wave[g] \in Nat /\ Wave[h] \in Nat BY LifecycleAssumption
  <2>4. Wave[g] < Wave[h] \/ Wave[h] < Wave[g] BY <2>3
  <2> QED BY <2>1, <2>2, <2>4 DEF WaveInv
<1> QED BY <1>1, TypeCorrect, EvidenceInvariant, WaveInvariant, PTL

LEMMA InitRefines == Init => Promise!Init
<1> SUFFICES ASSUME Init PROVE [h \in Hosts |-> Life(h)] = [h \in Hosts |-> "pending"]
  BY DEF Promise!Init
<1>1. ASSUME NEW h \in Hosts PROVE Life(h) = "pending"
  <2>1. native[h] \in {"stopped", "prepared"} /\ effects[h][Submit] = 0 BY StepFacts DEF Init
  <2> QED BY <2>1 DEF Life
<1> QED BY <1>1

\* A step that leaves a host's submission and native state alone does not show.
LEMMA Stutters ==
  ASSUME UNCHANGED native, \A h \in Hosts : effects'[h][Submit] = effects[h][Submit]
  PROVE  UNCHANGED [h \in Hosts |-> Life(h)]
BY DEF Life

LEMMA SubmitRefines ==
  ASSUME TypeOK, OnceInv, WaveInv, EvidenceInv,
         NEW r \in Runs, NEW h \in Hosts, SubmitReboot(r, h)
  PROVE  Promise!Disrupt(h)
<1>1. effects[h][Submit] = 0 BY StepFacts DEF SubmitReboot, At, OnceInv, Holds
<1>2. Life(h) = "pending" BY <1>1, LifeFacts
<1>3. UNCHANGED native BY DEF SubmitReboot
<1>4. \A g \in Hosts :
        effects'[g][Submit] = IF g = h THEN effects[g][Submit] + 1 ELSE effects[g][Submit]
  BY StepFacts DEF SubmitReboot, Issue, TypeOK
<1>5. native[h] \in {"stopped", "prepared"}
  <2>1. ~ (effects[h][Submit] > 0) BY <1>1
  <2>2. native[h] \notin {"accepted", "finalized"} BY <2>1 DEF EvidenceInv
  <2> QED BY <2>2 DEF TypeOK
<1>6. Life(h)' = "disrupted" BY <1>1, <1>3, <1>4, <1>5 DEF Life
<1>7. \A g \in Hosts : g # h => Life(g)' = Life(g) BY <1>3, <1>4 DEF Life
<1>8. \A g \in Hosts : Wave[g] < Wave[h] => Life(g) = "finalized"
  BY LifeFacts DEF SubmitReboot, At, WaveInv
<1> QED BY <1>2, <1>6, <1>7, <1>8 DEF Promise!Disrupt, Promise!EarlierWavesFinalized

LEMMA AttestRefines ==
  ASSUME TypeOK, EvidenceInv, NEW r \in Runs, NEW h \in Hosts, Attest(r, h)
  PROVE  Promise!Accept(h) \/ UNCHANGED [g \in Hosts |-> Life(g)]
<1>1. UNCHANGED effects BY DEF Attest
<1>2. CASE UNCHANGED native BY <1>1, <1>2, Stutters
<1>3. CASE native[h] = "prepared" /\ native' = [native EXCEPT ![h] = "accepted"]
  <2>1. effects[h][Submit] > 0 BY DEF Attest, At, EvidenceInv
  <2>2. Life(h) = "disrupted" BY <1>3, <2>1 DEF Life
  <2>3. Life(h)' = "accepted" BY <1>3 DEF Life, TypeOK
  <2>4. \A g \in Hosts : g # h => Life(g)' = Life(g) BY <1>1, <1>3 DEF Life, TypeOK
  <2> QED BY <2>2, <2>3, <2>4 DEF Promise!Accept
<1> QED BY <1>2, <1>3 DEF Attest

LEMMA FinalizeRefines ==
  ASSUME TypeOK, NEW r \in Runs, NEW h \in Hosts, Finalize(r, h)
  PROVE  Promise!Finalize(h) \/ UNCHANGED [g \in Hosts |-> Life(g)]
<1>1. UNCHANGED effects /\ native' = [native EXCEPT ![h] = "finalized"] BY DEF Finalize
<1>2. CASE native[h] = "finalized"
  <2>1. native' = native BY <1>1, <1>2 DEF TypeOK
  <2> QED BY <1>1, <2>1, Stutters
<1>3. CASE native[h] = "accepted"
  <2>1. Life(h) = "accepted" BY <1>3 DEF Life
  <2>2. Life(h)' = "finalized" BY <1>1 DEF Life, TypeOK
  <2>3. \A g \in Hosts : g # h => Life(g)' = Life(g) BY <1>1 DEF Life, TypeOK
  <2> QED BY <2>1, <2>2, <2>3 DEF Promise!Finalize
<1> QED BY <1>2, <1>3 DEF Finalize

LEMMA RestStutters ==
  ASSUME TypeOK, NEW r \in Runs, NEW h \in Hosts,
         Thread(r, h) \/ TornSave(r, h) \/ Fail(r, h),
         ~ SubmitReboot(r, h), ~ Attest(r, h), ~ Finalize(r, h)
  PROVE  UNCHANGED [g \in Hosts |-> Life(g)]
<1>1. \A g \in Hosts : effects'[g][Submit] = effects[g][Submit]
  BY ThreadIsOrdinary DEF Ordinary
<1>2. UNCHANGED native
  BY DEF Thread, Observe, ReadPending, ReadAmbiguous, ReadComplete, Begin, Poll,
         StartAcceptance, ApplyCatalog, CollectHealth, RunCanary, Save, Evidence,
         AdmitFinalization, TornSave, Fail, machine
<1> QED BY <1>1, <1>2, Stutters

LEMMA NextRefines ==
  TypeOK /\ OnceInv /\ WaveInv /\ EvidenceInv /\ [Next]_vars
    => [Promise!Next]_([h \in Hosts |-> Life(h)])
<1> SUFFICES ASSUME TypeOK, OnceInv, WaveInv, EvidenceInv, [Next]_vars
             PROVE  Promise!Next \/ UNCHANGED [h \in Hosts |-> Life(h)]
  OBVIOUS
<1>1. CASE World
  BY <1>1, Stutters DEF World, Clock, HandleReboot, Reboot, Rollback, control, journal, machine
<1>2. ASSUME NEW r \in Runs, Drive(r)
      PROVE  Promise!Next \/ UNCHANGED [h \in Hosts |-> Life(h)]
  <2>1. CASE \/ StartRun(r) \/ Crash(r) \/ BeginWaves(r) \/ NextWave(r) \/ Report(r) \/ StopWave(r)
             \/ \E h \in Hosts : AdmitHost(r, h) \/ TornAdmission(r, h)
    BY <2>1, Stutters
       DEF StartRun, Crash, BeginWaves, NextWave, Advance, Report, StopWave, AdmitHost,
           TornAdmission, machine
  <2>2. ASSUME NEW h \in Hosts, Thread(r, h) \/ TornSave(r, h) \/ Fail(r, h)
        PROVE  Promise!Next \/ UNCHANGED [g \in Hosts |-> Life(g)]
    <3>1. CASE SubmitReboot(r, h) BY <3>1, SubmitRefines DEF Promise!Next
    <3>2. CASE Attest(r, h) BY <3>2, AttestRefines DEF Promise!Next
    <3>3. CASE Finalize(r, h) BY <3>3, FinalizeRefines DEF Promise!Next
    <3>4. CASE ~ SubmitReboot(r, h) /\ ~ Attest(r, h) /\ ~ Finalize(r, h)
      BY <2>2, <3>4, RestStutters
    <3> QED BY <3>1, <3>2, <3>3, <3>4
  <2> QED BY <1>2, <2>1, <2>2 DEF Drive
<1>3. CASE UNCHANGED vars BY <1>3, Stutters DEF vars, machine
<1> QED BY <1>1, <1>2, <1>3 DEF Next

\* The detailed lifecycle implements the abstract rolling update.
THEOREM Refinement == Spec => RefinesRollingUpdate
<1>1. Spec => []OnceInv BY InitOnce, NextOnce, TypeCorrect, PTL DEF Spec
<1> QED BY <1>1, InitRefines, NextRefines, TypeCorrect, WaveInvariant, EvidenceInvariant, PTL
        DEF Spec, RefinesRollingUpdate, Promise!Spec
==============================================================================
