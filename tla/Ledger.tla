------------------------------- MODULE Ledger -------------------------------
(***************************************************************************)
(* One account's entry in the state ledger (state.go) and the operations   *)
(* that change it.  Each runs whole under ledger.mu.  Only the fields that *)
(* scheduling reads are kept: a missing entry and an empty one give every  *)
(* reader the same answers, so an account always has an entry here.        *)
(***************************************************************************)
EXTENDS Schedule

CONSTANTS
  MaxRetries,    \* maxAnchorRetries (5 in the code)
  RetryBase      \* anchorRetryBase (30 s in the code)

ASSUME RetryAssumption ==
  /\ MaxRetries \in Nat \ {0}
  /\ RetryBase \in Nat \ {0}

Entry == [resetsAt    : Nat,      \* latest observed window reset, 0 if none
          lastKey     : Key,      \* slot key last anchored
          retryCount  : Nat,
          nextRetryAt : Nat,
          retrySlot   : Key]      \* slot in backoff, NoKey if none

EmptyEntry == [resetsAt |-> 0, lastKey |-> NoKey, retryCount |-> 0,
               nextRetryAt |-> 0, retrySlot |-> NoKey]

\* The wait after the n-th failure in a row: the base, doubled n-1 times.
Backoff(n) == RetryBase * 2^(n - 1)

\* The provers know nothing of "^"; TLC evaluates this for every instance.
ASSUME BackoffAssumption == \A n \in 1..MaxRetries : Backoff(n) \in Nat \ {0}

\* Mutant: the slot in backoff is not cleared with its count.
ObserveResetKeepsSlot(e, reset) ==
  [e EXCEPT !.resetsAt = reset, !.retryCount = 0, !.nextRetryAt = 0]

ObserveReset(e, reset) ==
  IF e.retryCount = 0
    THEN [e EXCEPT !.resetsAt = reset]
    ELSE [e EXCEPT !.resetsAt = reset, !.retryCount = 0,
                   !.nextRetryAt = 0, !.retrySlot = NoKey]

\* Mutant: the slot is not written down.
MarkAnchoredNoKey(e, key) ==
  [e EXCEPT !.retryCount = 0, !.nextRetryAt = 0, !.retrySlot = NoKey]

MarkAnchored(e, key) ==
  [e EXCEPT !.lastKey = key, !.retryCount = 0,
            !.nextRetryAt = 0, !.retrySlot = NoKey]

\* The last retry is "abandoned": the count and the slot are cleared, and
\* nothing is left that says which slot was given up.
LastRetry(e) == e.retryCount + 1 >= MaxRetries

RecordAnchorFailure(e, key, now) ==
  IF LastRetry(e)
    THEN [e EXCEPT !.retryCount = 0, !.retrySlot = NoKey]
    ELSE [e EXCEPT !.retryCount = e.retryCount + 1, !.retrySlot = key,
                   !.nextRetryAt = now + Backoff(e.retryCount + 1)]

\* A 401 or a 403.
SetAnchorTerminalFailure(e) ==
  [e EXCEPT !.retryCount = 0, !.nextRetryAt = 0, !.retrySlot = NoKey]
=============================================================================
