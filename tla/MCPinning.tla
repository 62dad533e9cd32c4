----------------------------- MODULE MCPinning -----------------------------
(***************************************************************************)
(* Small instances of Pinning for TLC.                                     *)
(***************************************************************************)
EXTENDS Pinning, TLC

CONSTANTS a1, a2, lower, upper

\* Two spellings of one name.
MCFold == [n \in Names |-> lower]

MCConfig(mode, include, exclude, header) ==
  [mode |-> mode, include |-> include, exclude |-> exclude, header |-> header]

\* The operator edits the lists and the spelling of the header; the scheduler
\* is claimed all the time.
MCClaiming ==
  {MCConfig("auto", i, e, h) : i \in {{}, {a1, a2}}, e \in SUBSET {a1}, h \in Names}
  \union {MCConfig("always", {a1}, {}, lower)}

\* Both callers do the same.
MCSymmetry == Permutations(Callers)

\* The host offers the credentials that can serve just then.
MCCandidates == SUBSET Auths
=============================================================================
