---------------------------- MODULE MCAnchorLoop ----------------------------
(***************************************************************************)
(* Small instances of AnchorLoop for TLC.                                  *)
(***************************************************************************)
EXTENDS AnchorLoop

CONSTANTS a1, a2

MCOneAccount  == <<a1>>
MCTwoAccounts == <<a1, a2>>

MCConfig(anchors, zone, grace, maxDeferral, catchUp, stagger) ==
  [enabled |-> TRUE, dryRun |-> FALSE, eligible |-> Accounts,
   anchors |-> [a \in Accounts |-> anchors], zone |-> zone, grace |-> grace,
   maxDeferral |-> maxDeferral, catchUp |-> catchUp, stagger |-> stagger]

\* Two slots closer together than a window, a catch-up that spans both.
MCBase == MCConfig({2, 4}, 0, 1, 2, 2, 1)
MCOneConfig == {MCBase}

\* The operator switches the plugin off and on.
MCOnOff == {MCBase, [MCBase EXCEPT !.enabled = FALSE]}

\* A slot missed before the start and soon too old, and one in time; the plugin
\* may run for both accounts or rehearse for the first only.
MCMissed == MCConfig({1, 4}, 0, 1, 2, 1, 1)
MCRehearsal == {MCMissed, [MCMissed EXCEPT !.dryRun = TRUE, !.eligible = {a1}]}

\* Time runs out at MaxTime in the model only: a state with nothing left to do
\* there is no deadlock of the program.
AtHorizon ==
  /\ clock = MaxTime
  /\ pc \in {"select", "exited"} \/ (pc = "stagger" /\ clock < pass.wakeAt)
  /\ UNCHANGED vars

MCAutoSpec   == Init /\ [][AutoNext \/ AtHorizon]_vars /\ Fairness
MCSpec       == Init /\ [][Next \/ AtHorizon]_vars
MCPromptSpec == Init /\ [][PromptNext \/ AtHorizon]_vars

\* The ways a request can end: done, done but the reply lost, failed, refused.
MCOk      == [served |-> TRUE,  status |-> "ok"]
MCLost    == [served |-> TRUE,  status |-> "error"]
MCError   == [served |-> FALSE, status |-> "error"]
MCRefused == [served |-> FALSE, status |-> "refused"]
MCOnlyOk     == {MCOk}
MCOkOrError  == {MCOk, MCError}
MCAnyOutcome == {MCOk, MCLost, MCError, MCRefused}

\* No window is open at the start, or the plugin starts into an open one.
MCNoWindow   == [a \in Accounts |-> 0]
MCOpenWindow == [a \in Accounts |-> IF a = a1 THEN 3 ELSE 0]
=============================================================================
