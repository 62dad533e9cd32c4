---------------------------- MODULE MCUsageSensor ----------------------------
(***************************************************************************)
(* A small instance of UsageSensor for TLC.                                *)
(***************************************************************************)
EXTENDS UsageSensor, TLC

\* Threads are interchangeable.
MCSymmetry == Permutations(Threads)

MCWindow(minutes, left, told) == [minutes |-> minutes, left |-> left, told |-> told]
MCAbsent == MCWindow(0, 0, {})

MCResponse(acct, provider, windows) ==
  [acct |-> acct, provider |-> provider,
   windows |-> [n \in Names |-> IF n \in DOMAIN windows THEN windows[n] ELSE MCAbsent]]

MCAt == {"minutes", "at"}
MCIn == {"minutes", "in"}

\* Anthropic's windows: both, the weekly one alone, the short one alone.
MCClaude ==
  {MCResponse("a", "claude", w) :
     w \in {[unified |-> MCWindow(300, 1, {"at"}), weekly |-> MCWindow(10080, 3, {"at"})],
            [weekly |-> MCWindow(10080, 3, {"at"})],
            [unified |-> MCWindow(300, 2, {"at"})]}}

\* Codex: the weekly limit called primary, a model's five hours told twice; two
\* models with equal lengths; lengths on the edge of the tolerance; the weekly
\* limit alone; windows told in part.
MCCodex ==
  {MCResponse("x", "codex", w) :
     w \in {[primary |-> MCWindow(10080, 2, MCAt), spark |-> MCWindow(300, 1, Fields)],
            [primary |-> MCWindow(300, 2, MCIn), spark |-> MCWindow(300, 1, MCIn)],
            [primary |-> MCWindow(240, 1, MCAt), spark |-> MCWindow(361, 0, MCIn),
             unified |-> MCWindow(359, 2, MCIn)],
            [primary |-> MCWindow(10080, 2, MCIn)],
            [primary |-> MCWindow(300, 1, {"minutes"}), spark |-> MCWindow(300, 2, {"at"})]}}

MCOther == {MCResponse("a", "gemini", [unified |-> MCWindow(300, 1, {"at"})])}

MCResponses == MCClaude \union MCCodex \union MCOther

\* The defaults, and an operator who anchors the weekly window.
MCConfigs == {[minutes |-> 0, tolerance |-> 0], [minutes |-> 10080, tolerance |-> 5]}

\* Reading and comparing touch nothing but the call's own locals, so what other
\* threads do meanwhile might as well be done before or after: one thread at a
\* time is there, and nothing else happens.
MCReading(t) == call[t].pc \in {"parse", "scan"}
MCNext ==
  \/ Next /\ \A t \in Threads : ~MCReading(t)
  \/ \E t \in Threads : MCReading(t) /\ HandleUsage(t)
MCSpec == Init /\ [][MCNext]_vars
=============================================================================
