---------------------------- MODULE MCLifecycle ----------------------------
(***************************************************************************)
(* Small instances of Lifecycle for TLC.                                   *)
(***************************************************************************)
EXTENDS Lifecycle, MCAnchorLoop

MCSettings(probe, saves, zero) ==
  [probeOnStart |-> probe, saves |-> saves, pollZero |-> zero]

\* With and without a state-file, with and without a probe, or a poll-interval
\* of "0s".
MCAnySettings ==
  {MCSettings(p, s, FALSE) : p \in BOOLEAN, s \in BOOLEAN}
    \union {MCSettings(FALSE, TRUE, TRUE)}

\* One slot, at 2, that may be caught up until the end of the model.
MCSlot == MCConfig({2}, 0, 1, 2, 4, 1)
MCOneSlot == {MCSlot}

\* All processes have come and gone.
NoMoreLives == pc = "none" /\ lives = MaxLives /\ UNCHANGED allVars

MCLifeSpec == LifeInit /\ [][LifeNext \/ NoMoreLives]_allVars
MCFairLifeSpec == MCLifeSpec /\ LifeFairness
=============================================================================
