------------------------------ MODULE MCFirefox ------------------------------
(* The two ways into Firefox, for TLC: the resident controller of windows    *)
(* and the accessibility bridge.  A Firefox is launched for one of them, so  *)
(* that they share no state: a behaviour is one of the two, while the other  *)
(* rests.                                                                    *)
EXTENDS MCFirefoxWindows, UiBridge

VARIABLE part

\* Windows: an input is journaled while the controller or Firefox was restarted at
\* most once.
WindowsBounded ==
  starts + gen > 3 => \A k \in Keys : mem.actions[k] = "none" /\ disk.actions[k] = "none"

\* Bridge: one shortcut in flight, one lapsed lease at a time and one abandoned tab
\* of a workflow; the key is used, and leases lapse, while two tabs have been opened.
BridgeBounded ==
  /\ Len(shortcuts) <= 1
  /\ Cardinality(lapsed) <= 1
  /\ \A w \in Workflows : Cardinality(file.abandoned[w]) <= 1
  /\ born > 2 => lapsed = {} /\ \A k \in ActionKeys : file.keys[k] = Unset

SuiteBounded == Bounded /\ WindowsBounded /\ BridgeBounded

SuiteInit ==
  /\ part \in {"windows", "bridge"}
  /\ Init /\ BridgeInit

SuiteNext ==
  \/ /\ part = "windows" /\ Next
     /\ UNCHANGED <<part, bridgeVars>>
  \/ /\ part = "bridge" /\ BridgeNext
     /\ UNCHANGED <<part, vars>>

SuiteSpec == SuiteInit /\ [][SuiteNext]_<<part, vars, bridgeVars>>
==============================================================================
