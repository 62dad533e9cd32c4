------------------------ MODULE AnchorBackoff_proofs ------------------------
(***************************************************************************)
(* The retry fields of the ledger: they agree with one another, and no     *)
(* request leaves for a slot that they say is in backoff.                  *)
(***************************************************************************)
EXTENDS AnchorLoop_proofs

\* No caller of anchorAccount ever fails under the empty key.
LEMMA TaskHasKey ==
  ASSUME TypeOK, ChoiceInv, NEW c \in Callers, task[c] # NoTask
  PROVE  task[c].key # NoKey
<1>1. CASE c = Loop
  BY <1>1 DEF ChoiceInv, TaskInv, ChosenInv, WindowKeyFor, NoKey
<1>2. CASE c \in Managers
  BY <1>2 DEF ChoiceInv, TaskInv, ManualKey, NoKey
<1> QED
  BY <1>1, <1>2 DEF Callers

\* BackoffConsistent, of one entry.
EntryConsistent(e, now) ==
  /\ e.retryCount = 0 <=> e.retrySlot = NoKey
  /\ e.retryCount < MaxRetries
  /\ e.retryCount > 0 => e.nextRetryAt <= now + Backoff(e.retryCount)

\* Every operation of the ledger keeps the retry fields in agreement (state.go).
LEMMA LedgerKeepsConsistent ==
  ASSUME NEW e \in Entry, NEW key \in Key, NEW now \in Nat, NEW t \in Nat,
         EntryConsistent(e, now), key # NoKey
  PROVE  /\ EntryConsistent(ObserveReset(e, t), now)
         /\ EntryConsistent(MarkAnchored(e, key), now)
         /\ EntryConsistent(RecordAnchorFailure(e, key, now), now)
         /\ EntryConsistent(SetAnchorTerminalFailure(e), now)
<1> USE RetryAssumption DEF EntryConsistent
<1>1. EntryConsistent(ObserveReset(e, t), now)
  BY DEF ObserveReset, Entry
<1>2. EntryConsistent(MarkAnchored(e, key), now)
  BY DEF MarkAnchored, Entry
<1>3. EntryConsistent(SetAnchorTerminalFailure(e), now)
  BY DEF SetAnchorTerminalFailure, Entry
<1>4. EntryConsistent(RecordAnchorFailure(e, key, now), now)
  <2>1. CASE LastRetry(e)
    BY <2>1 DEF RecordAnchorFailure, Entry
  <2>2. CASE ~LastRetry(e)
    <3> DEFINE n == e.retryCount + 1
               at == now + Backoff(n)
    <3>1. n \in 1..MaxRetries /\ n < MaxRetries
      BY <2>2 DEF LastRetry, Entry
    <3>2. n \in Nat /\ n > 0 /\ at \in Nat
      BY <3>1, BackoffAssumption
    <3>3. RecordAnchorFailure(e, key, now) =
            [e EXCEPT !.retryCount = n, !.retrySlot = key, !.nextRetryAt = at]
      BY <2>2 DEF RecordAnchorFailure
    <3>4. /\ RecordAnchorFailure(e, key, now).retryCount = n
          /\ RecordAnchorFailure(e, key, now).retrySlot = key
          /\ RecordAnchorFailure(e, key, now).nextRetryAt = now + Backoff(n)
      BY <3>3 DEF Entry
    <3> HIDE DEF n
    <3> QED
      BY <3>1, <3>2, <3>4
  <2> QED
    BY <2>1, <2>2
<1> QED
  BY <1>1, <1>2, <1>3, <1>4

\* What a step may do to an entry of the ledger.
LEMMA LedgerSteps ==
  ASSUME TypeOK, [Next]_vars, NEW a \in Accounts
  PROVE  \/ ledger'[a] = ledger[a]
         \/ clock' = clock /\ \E t \in Nat : ledger'[a] = ObserveReset(ledger[a], t)
         \/ /\ clock' = clock
            /\ \E c \in Callers :
                 /\ task[c] # NoTask /\ task[c].acct = a
                 /\ \/ ledger'[a] = MarkAnchored(ledger[a], task[c].key)
                    \/ ledger'[a] = SetAnchorTerminalFailure(ledger[a])
                    \/ /\ task[c].pc = "replied"
                       /\ ledger'[a] =
                            RecordAnchorFailure(ledger[a], task[c].key, clock)
<1> USE DEF envVars, SetEntry
<1>1. CASE LoopStep
  BY <1>1 DEF LoopStep, Wake, Consider, CheckBackoff, CheckLedger, CheckNext,
     CallAnchor, AnchorReturned
<1>2. CASE LoopDone \/ StaggerCancelled \/ Cancel \/ Reconfigure
  BY <1>2 DEF LoopDone, StaggerCancelled, Cancel, Reconfigure
<1>3. CASE HandleUsage
  <2>1. PICK u \in usage : SetEntry(u.acct, ObserveReset(ledger[u.acct], u.reset))
    BY <1>3 DEF HandleUsage
  <2>2. u.acct \in Accounts /\ u.reset \in Nat
    BY DEF TypeOK, ValuesOK, Usage
  <2> QED
    BY <1>3, <2>1, <2>2 DEF HandleUsage, TypeOK, ValuesOK
<1>4. ASSUME NEW b \in Accounts, Organic(b) PROVE ledger' = ledger
  BY <1>4 DEF Organic
<1>5. ASSUME NEW d \in Steps, Advance(d) PROVE ledger' = ledger
  BY <1>5 DEF Advance
<1>6. ASSUME NEW m \in Managers, ManagerStep(m) PROVE ledger' = ledger
  BY <1>6 DEF ManagerStep, ManualStart, ManualAnchor
<1>7. ASSUME NEW c \in Callers, AbortAnchor(c) \/ SendAnchor(c) \/ Serve(c)
      PROVE  ledger' = ledger
  BY <1>7 DEF AbortAnchor, SendAnchor, Serve
<1>8. ASSUME NEW c \in Callers,
             \/ DryRunAnchor(c) \/ AnchorSucceeded(c)
             \/ AnchorRefused(c) \/ AnchorFailed(c)
      PROVE  /\ clock' = clock /\ task[c] # NoTask /\ task[c].acct \in Accounts
             /\ \/ SetEntry(task[c].acct,
                      MarkAnchored(ledger[task[c].acct], task[c].key))
                \/ SetEntry(task[c].acct,
                      SetAnchorTerminalFailure(ledger[task[c].acct]))
                \/ /\ task[c].pc = "replied"
                   /\ SetEntry(task[c].acct,
                        RecordAnchorFailure(ledger[task[c].acct], task[c].key, clock))
  <2>1. task[c] # NoTask /\ task[c] \in Task /\ clock' = clock
    BY <1>8 DEF DryRunAnchor, MayFire, AnchorSucceeded, AnchorRefused,
       AnchorFailed, TypeOK, ValuesOK, NoTask, Task
  <2> QED
    BY <1>8, <2>1 DEF DryRunAnchor, MarkTask, AnchorSucceeded, AnchorRefused,
       AnchorFailed, Task
<1>9. ASSUME NEW c \in Callers, AnchorStep(c) PROVE
             \/ AbortAnchor(c) \/ SendAnchor(c)
             \/ DryRunAnchor(c) \/ AnchorSucceeded(c)
             \/ AnchorRefused(c) \/ AnchorFailed(c)
  BY <1>9 DEF AnchorStep
<1>10. ASSUME NEW c \in Callers, AnchorStep(c) \/ Serve(c)
       PROVE  \/ ledger'[a] = ledger[a]
              \/ /\ clock' = clock /\ task[c] # NoTask
                 /\ task[c].acct = a
                 /\ \/ ledger'[a] = MarkAnchored(ledger[a], task[c].key)
                    \/ ledger'[a] = SetAnchorTerminalFailure(ledger[a])
                    \/ /\ task[c].pc = "replied"
                       /\ ledger'[a] =
                            RecordAnchorFailure(ledger[a], task[c].key, clock)
  <2>1. CASE AbortAnchor(c) \/ SendAnchor(c) \/ Serve(c)
    BY <1>7, <2>1
  <2>2. CASE ~(AbortAnchor(c) \/ SendAnchor(c) \/ Serve(c))
    <3> DEFINE b == task[c].acct
    <3>1. /\ clock' = clock /\ task[c] # NoTask /\ b \in Accounts
          /\ \/ SetEntry(b, MarkAnchored(ledger[b], task[c].key))
             \/ SetEntry(b, SetAnchorTerminalFailure(ledger[b]))
             \/ /\ task[c].pc = "replied"
                /\ SetEntry(b, RecordAnchorFailure(ledger[b], task[c].key, clock))
      BY <1>8, <1>9, <1>10, <2>2
    <3> HIDE DEF b
    <3>2. CASE a # b
      BY <3>1, <3>2 DEF TypeOK, ValuesOK
    <3>3. CASE a = b
      BY <3>1, <3>3 DEF TypeOK, ValuesOK, b
    <3> QED
      BY <3>2, <3>3
  <2> QED
    BY <2>1, <2>2
<1>11. CASE UNCHANGED vars
  BY <1>11 DEF vars
<1> QED
  BY <1>1, <1>2, <1>3, <1>4, <1>5, <1>6, <1>10, <1>11 DEF Next, AutoNext, Callers

\* The retry fields of an entry agree with one another at all times.
THEOREM BackoffConsistentCorrect == Spec => []BackoffConsistent
<1>1. BackoffConsistent <=> \A a \in Accounts : EntryConsistent(ledger[a], clock)
  BY DEF BackoffConsistent, EntryConsistent
<1>2. Init => BackoffConsistent
  <2>1. EntryConsistent(EmptyEntry, 1)
    BY RetryAssumption DEF EmptyEntry, EntryConsistent
  <2> QED
    BY <1>1, <2>1 DEF Init
<1>3. TypeOK /\ ChoiceInv /\ BackoffConsistent /\ [Next]_vars => BackoffConsistent'
  <2> SUFFICES ASSUME TypeOK, ChoiceInv, BackoffConsistent, [Next]_vars,
                      NEW a \in Accounts
               PROVE  EntryConsistent(ledger'[a], clock')
    BY DEF BackoffConsistent, EntryConsistent
  <2>1. ledger[a] \in Entry /\ EntryConsistent(ledger[a], clock) /\ clock \in Nat
    BY <1>1 DEF TypeOK, ValuesOK
  <2>2. clock' \in Nat /\ clock' >= clock
    <3>1. ASSUME NEW d \in Steps, Advance(d) PROVE clock' >= clock
      <4>1. d \in Nat /\ clock' = clock + d
        BY <3>1, ConstantsAssumption DEF Advance
      <4> QED
        BY <2>1, <4>1
    <3>2. ASSUME LoopStep \/ LoopDone \/ StaggerCancelled PROVE clock' = clock
      BY <3>2 DEF LoopStep, LoopDone, StaggerCancelled, Wake, Consider,
         CheckBackoff, CheckLedger, CheckNext, CallAnchor, AnchorReturned, envVars
    <3>3. clock' \in Nat
      BY NextTypeOK DEF TypeOK, ValuesOK
    <3> QED
      BY <2>1, <3>1, <3>2, <3>3, OthersKeepLoop
  <2>3. CASE ledger'[a] = ledger[a]
    <3>1. ledger[a].retryCount > 0 => Backoff(ledger[a].retryCount) \in Nat
      BY <2>1, BackoffAssumption, RetryAssumption DEF EntryConsistent, Entry
    <3>2. ledger[a].retryCount \in Nat /\ ledger[a].nextRetryAt \in Nat
      BY <2>1 DEF Entry
    <3>3. ledger[a].retryCount > 0 =>
            ledger[a].nextRetryAt <= clock' + Backoff(ledger[a].retryCount)
      BY <2>1, <2>2, <3>1, <3>2 DEF EntryConsistent
    <3> QED
      BY <2>1, <2>3, <3>3 DEF EntryConsistent
  <2>4. CASE ledger'[a] # ledger[a]
    <3>1. \A c \in Callers : task[c] # NoTask => task[c].key \in Key \ {NoKey}
      BY TaskHasKey DEF TypeOK, ValuesOK, Task
    <3>2. ManualKey \in Key /\ ManualKey # NoKey
      BY DEF ManualKey, NoKey, Key
    <3> QED
      BY <2>1, <2>4, <3>1, <3>2, LedgerSteps, LedgerKeepsConsistent
  <2> QED
    BY <2>3, <2>4
<1> QED
  BY <1>2, <1>3, ChoiceInvariant, PTL DEF Spec

----------------------------------------------------------------------------
(* Between the backoff check and the request nobody but the loop itself     *)
(* fails under the key of a slot: a manual trigger fails under its own.     *)

BackoffInv ==
  /\ pc \in {"ledger", "next"} =>
       ~PreviousInBackoff(ledger[CurrentAccount], CurrentAnchors,
                          pass.cfg.zone, pass.tick)
  /\ pc = "stagger" \/ (task[Loop] # NoTask /\ task[Loop].pc = "begin") =>
       ~SlotInBackoff(ledger[CurrentAccount], pass.slot.key, pass.tick)

\* No step of another caller puts a slot in backoff.
LEMMA OthersKeepSlotFree ==
  ASSUME TypeOK, ChoiceInv, [Next]_vars, NEW a \in Accounts,
         task[Loop] # NoTask => task[Loop].pc = "begin",
         NEW k, k.kind = "slot", NEW t, ~SlotInBackoff(ledger[a], k, t)
  PROVE  ~SlotInBackoff(ledger'[a], k, t)
<1> DEFINE e == ledger[a]
<1>1. e \in Entry /\ k # NoKey /\ k # ManualKey
  BY DEF TypeOK, ValuesOK, NoKey, ManualKey
<1>2. \A j : ~SlotInBackoff(MarkAnchored(e, j), k, t)
  BY <1>1 DEF SlotInBackoff, MarkAnchored, Entry
<1>3. ~SlotInBackoff(SetAnchorTerminalFailure(e), k, t)
  BY <1>1 DEF SlotInBackoff, SetAnchorTerminalFailure, Entry
<1>4. \A r : ~SlotInBackoff(ObserveReset(e, r), k, t)
  BY <1>1 DEF SlotInBackoff, ObserveReset, Entry
<1>5. ~SlotInBackoff(RecordAnchorFailure(e, ManualKey, clock), k, t)
  BY <1>1 DEF SlotInBackoff, RecordAnchorFailure, Entry
<1>6. ASSUME NEW c \in Callers, task[c] # NoTask, task[c].pc = "replied"
      PROVE  task[c].key = ManualKey
  BY <1>6 DEF ChoiceInv, TaskInv, Callers
<1> QED
  BY <1>2, <1>3, <1>4, <1>5, <1>6, LedgerSteps

\* Every step keeps the slot that the loop is about to request out of backoff.
LEMMA NextBackoffInv ==
  ASSUME TypeOK, ChoiceInv, BackoffInv, [Next]_vars
  PROVE  BackoffInv'
<1> USE DEF envVars, loopVars, managerVars, worldVars, history
<1>1. TaskInv'
  BY NextChoiceInv DEF ChoiceInv
<1>2. ASSUME pc' \notin {"ledger", "next", "stagger", "anchor"} PROVE BackoffInv'
  BY <1>1, <1>2 DEF BackoffInv, TaskInv
<1>3. ASSUME UNCHANGED loopVars,
             task'[Loop] # NoTask /\ task'[Loop].pc = "begin" =>
               task[Loop] # NoTask /\ task[Loop].pc = "begin"
      PROVE  BackoffInv'
  <2>1. CASE pc \in {"ledger", "next"}
    <3>1. task[Loop] = NoTask /\ CurrentAccount \in Accounts /\ task'[Loop] = NoTask
      BY <1>1, <1>3, <2>1, CurrentTypes DEF ChoiceInv, TaskInv
    <3>2. ASSUME NEW p \in PreviousAnchors(CurrentAnchors, pass.tick)
          PROVE  ~SlotInBackoff(ledger'[CurrentAccount],
                                WindowKeyFor(p, pass.cfg.zone), pass.tick)
      <4> DEFINE k == WindowKeyFor(p, pass.cfg.zone)
      <4>1. k.kind = "slot" /\ ~SlotInBackoff(ledger[CurrentAccount], k, pass.tick)
        BY <2>1 DEF BackoffInv, PreviousInBackoff, WindowKeyFor
      <4> QED
        BY <3>1, <4>1, OthersKeepSlotFree
    <3> QED
      BY <1>3, <2>1, <3>1, <3>2
         DEF BackoffInv, PreviousInBackoff, CurrentAccount, CurrentAnchors
  <2>2. CASE pc = "stagger" \/ (task[Loop] # NoTask /\ task[Loop].pc = "begin")
    <3>1. /\ pc \in {"stagger", "anchor"} /\ CurrentAccount \in Accounts
          /\ task[Loop] # NoTask => task[Loop].pc = "begin"
      BY <2>2, CurrentTypes DEF ChoiceInv, TaskInv
    <3>2. pass.slot.key.kind = "slot"
      BY <3>1 DEF ChoiceInv, ChosenInv, WindowKeyFor
    <3>3. ~SlotInBackoff(ledger'[CurrentAccount], pass.slot.key, pass.tick)
      BY <2>2, <3>1, <3>2, OthersKeepSlotFree DEF BackoffInv
    <3> QED
      BY <1>3, <3>1, <3>3 DEF BackoffInv, CurrentAccount
  <2>3. CASE pc \notin {"ledger", "next", "stagger"}
             /\ ~(task[Loop] # NoTask /\ task[Loop].pc = "begin")
    BY <1>3, <2>3 DEF BackoffInv
  <2> QED
    BY <2>1, <2>2, <2>3
<1>4. CASE CheckBackoff
  <2>1. CASE NextAccount
    BY <1>2, <2>1 DEF NextAccount
  <2>2. CASE ~NextAccount
    <3>1. /\ ~PreviousInBackoff(ledger[CurrentAccount], CurrentAnchors,
                                pass.cfg.zone, pass.tick)
          /\ UNCHANGED <<pass, ledger, task>> /\ pc' = "ledger" /\ pc = "backoff"
      BY <1>4, <2>2 DEF CheckBackoff
    <3>2. task'[Loop] = NoTask
      BY <3>1 DEF ChoiceInv, TaskInv
    <3> QED
      BY <3>1, <3>2 DEF BackoffInv, CurrentAccount, CurrentAnchors
  <2> QED
    BY <2>1, <2>2
<1>5. CASE CheckLedger \/ CheckNext
  <2>1. /\ pc \in {"ledger", "next"} /\ UNCHANGED <<ledger, task>>
        /\ task[Loop] = NoTask
    BY <1>5, DueSlotSteps, TypeValues DEF ChoiceInv, TaskInv
  <2>2. CASE SlotChosen
    <3>1. ~SlotInBackoff(ledger[CurrentAccount], pass'.slot.key, pass.tick)
      BY <2>1, <2>2 DEF SlotChosen, BackoffInv, PreviousInBackoff
    <3> QED
      BY <2>1, <2>2, <3>1 DEF SlotChosen, BackoffInv, CurrentAccount
  <2>3. CASE pc' = "next" /\ pass' = pass
    BY <2>1, <2>3 DEF BackoffInv, CurrentAccount, CurrentAnchors
  <2>4. CASE NextAccount
    BY <1>2, <2>4 DEF NextAccount
  <2> QED
    BY <1>5, <2>2, <2>3, <2>4, DueSlotSteps, TypeValues
<1>6. CASE CallAnchor
  BY <1>6 DEF CallAnchor, BackoffInv, CurrentAccount
<1>7. CASE Wake
  BY <1>2, <1>7 DEF Wake
<1>8. CASE Consider
  BY <1>2, <1>8 DEF Consider, NextAccount
<1>9. CASE AnchorReturned
  BY <1>2, <1>9 DEF AnchorReturned, NextAccount
<1>10. CASE LoopDone \/ StaggerCancelled
  BY <1>2, <1>10 DEF LoopDone, StaggerCancelled
<1>11. CASE AnchorStep(Loop) \/ Serve(Loop)
  <2>1. UNCHANGED loopVars
    BY <1>11 DEF AnchorStep, AbortAnchor, DryRunAnchor, SendAnchor,
       AnchorSucceeded, AnchorRefused, AnchorFailed, Serve
  <2>2. task'[Loop] = NoTask \/ task'[Loop].pc # "begin"
    BY <1>11 DEF AnchorStep, AbortAnchor, DryRunAnchor, MayFire, SendAnchor,
       AnchorSucceeded, AnchorRefused, AnchorFailed, Serve, Finish,
       TypeOK, ValuesOK, NoTask, Task, Callers
  <2> QED
    BY <1>3, <2>1, <2>2
<1>12. ASSUME NEW m \in Managers, ManagerStep(m) \/ AnchorStep(m) \/ Serve(m)
       PROVE  BackoffInv'
  <2>1. UNCHANGED loopVars /\ task'[Loop] = task[Loop]
    BY <1>12, ConstantsAssumption
       DEF ManagerStep, ManualStart, ManualAnchor, AnchorStep, AbortAnchor,
       DryRunAnchor, SendAnchor, AnchorSucceeded, AnchorRefused, AnchorFailed,
       Serve, Finish, TypeOK, ValuesOK, Callers
  <2> QED
    BY <1>3, <2>1
<1>13. CASE HandleUsage \/ Reconfigure \/ Cancel
  BY <1>3, <1>13 DEF HandleUsage, Reconfigure, Cancel
<1>14. ASSUME NEW a \in Accounts, Organic(a) PROVE BackoffInv'
  BY <1>3, <1>14 DEF Organic
<1>15. ASSUME NEW d \in Steps, Advance(d) PROVE BackoffInv'
  BY <1>3, <1>15 DEF Advance
<1>16. CASE UNCHANGED vars
  BY <1>3, <1>16 DEF vars
<1> QED
  BY <1>4, <1>5, <1>6, <1>7, <1>8, <1>9, <1>10, <1>11, <1>12, <1>13, <1>14,
     <1>15, <1>16 DEF Next, AutoNext, LoopStep

\* No request leaves for a slot in backoff, whatever fails between the loop's
\* decision and its request.
THEOREM NoRequestInBackoffCorrect == Spec => NoRequestInBackoff
<1>1. Init => BackoffInv
  BY DEF Init, BackoffInv, Callers
<1>2. TypeOK /\ ChoiceInv /\ BackoffInv /\ [Next]_vars => BackoffInv'
  BY NextBackoffInv
<1>3. TypeOK /\ ChoiceInv /\ BackoffInv /\ SendAnchor(Loop)
        => ~SlotInBackoff(ledger[task[Loop].acct], task[Loop].key, clock)
  <2> SUFFICES ASSUME TypeOK, ChoiceInv, BackoffInv, SendAnchor(Loop)
               PROVE  ~SlotInBackoff(ledger[task[Loop].acct], task[Loop].key, clock)
    OBVIOUS
  <2>1. task[Loop] # NoTask /\ task[Loop].pc = "begin"
    BY DEF SendAnchor, MayFire, NoTask
  <2>2. /\ pc = "anchor" /\ task[Loop].acct = CurrentAccount
        /\ task[Loop].key = pass.slot.key
    BY <2>1 DEF ChoiceInv, TaskInv
  <2>3. ~SlotInBackoff(ledger[CurrentAccount], pass.slot.key, pass.tick)
    BY <2>1 DEF BackoffInv
  <2>4. /\ ledger[CurrentAccount].nextRetryAt \in Nat
        /\ pass.tick \in Nat /\ clock \in Nat /\ pass.tick <= clock
    BY <2>2, CurrentTypes DEF Entry, TypeOK, ValuesOK, PassType, ChoiceInv, TimeInv
  <2> QED
    BY <2>2, <2>3, <2>4 DEF SlotInBackoff
<1>4. TypeOK /\ ChoiceInv /\ BackoffInv /\ [Next]_vars
        => [SendAnchor(Loop) =>
              ~SlotInBackoff(ledger[task[Loop].acct], task[Loop].key, clock)]_vars
  BY <1>3
<1> QED
  BY <1>1, <1>2, <1>4, ChoiceInvariant, PTL DEF Spec, NoRequestInBackoff
=============================================================================
