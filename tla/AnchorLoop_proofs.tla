------------------------- MODULE AnchorLoop_proofs --------------------------
(***************************************************************************)
(* Theorems about the anchor loop, for every value of its constants.       *)
(***************************************************************************)
EXTENDS AnchorLoop, SequenceTheorems, TLAPS

----------------------------------------------------------------------------
(* Types *)

\* Every operation of the ledger returns an entry (state.go).
LEMMA LedgerTypes ==
  ASSUME NEW e \in Entry, NEW key \in Key, NEW t \in Nat
  PROVE  /\ ObserveReset(e, t) \in Entry
         /\ MarkAnchored(e, key) \in Entry
         /\ RecordAnchorFailure(e, key, t) \in Entry
         /\ SetAnchorTerminalFailure(e) \in Entry
<1>1. NoKey \in Key
  BY DEF NoKey, Key
<1>2. ObserveReset(e, t) \in Entry
  BY <1>1 DEF ObserveReset, Entry
<1>3. MarkAnchored(e, key) \in Entry
  BY <1>1 DEF MarkAnchored, Entry
<1>4. RecordAnchorFailure(e, key, t) \in Entry
  <2>1. CASE LastRetry(e)
    BY <1>1, <2>1 DEF RecordAnchorFailure, Entry
  <2>2. CASE ~LastRetry(e)
    <3>1. e.retryCount + 1 \in 1..MaxRetries
      BY <2>2, RetryAssumption DEF LastRetry, Entry
    <3>2. Backoff(e.retryCount + 1) \in Nat
      BY <3>1, BackoffAssumption
    <3>3. t + Backoff(e.retryCount + 1) \in Nat
      BY <3>2
    <3> DEFINE n == e.retryCount + 1
                 at == t + Backoff(n)
    <3>4. n \in Nat /\ at \in Nat
      BY <3>1, <3>3 DEF Entry
    <3>5. RecordAnchorFailure(e, key, t) =
            [e EXCEPT !.retryCount = n, !.retrySlot = key, !.nextRetryAt = at]
      BY <2>2 DEF RecordAnchorFailure
    <3> HIDE DEF n, at
    <3> QED
      BY <3>4, <3>5 DEF Entry
  <2> QED
    BY <2>1, <2>2
<1>5. SetAnchorTerminalFailure(e) \in Entry
  BY <1>1 DEF SetAnchorTerminalFailure, Entry
<1> QED
  BY <1>2, <1>3, <1>4, <1>5

\* Whatever the entry is when dueSlot reads it for the next anchor (loop.go:127-152),
\* a slot returned there is one that the catch-up branch (loop.go:113-125) would
\* return for that entry: whatever fires, fires as a catch-up.
THEOREM EverySlotIsCatchUp ==
  ASSUME NEW c \in Config, NEW anchors \in SUBSET Nat, NEW e \in Entry,
         NEW known \in Nat, NEW now \in Nat
  PROVE  NextSlots(c, anchors, e, known, now)
           \subseteq CatchUpSlots(c, anchors, e, known, now)
<1> DEFINE Result(n) == EvaluateSlot(n, known, c.grace, c.maxDeferral)
<1> SUFFICES ASSUME NEW n \in NextAnchors(anchors, now),
                    e.lastKey # WindowKeyFor(n, c.zone),
                    Result(n).decision = "anchor",
                    Result(n).fireAt <= now
             PROVE  [key |-> WindowKeyFor(n, c.zone), fireAt |-> Result(n).fireAt]
                      \in CatchUpSlots(c, anchors, e, known, now)
  BY DEF NextSlots
<1>1. n \in anchors /\ n \in Nat /\ n >= now
  BY DEF NextAnchors
<1>2. c.grace \in Nat /\ c.catchUp \in Nat
  BY DEF Config
<1>3. Result(n).fireAt = FireAt(n, known, c.grace)
  BY DEF EvaluateSlot
<1>4. n = now /\ known <= now /\ Result(n).fireAt = now
  BY <1>1, <1>2, <1>3 DEF FireAt
<1>5. n \in PreviousAnchors(anchors, now)
  BY <1>1, <1>4 DEF PreviousAnchors
<1>6. CatchUpDue(now, n, c.catchUp, known)
  BY <1>1, <1>2, <1>4 DEF CatchUpDue
<1> HIDE DEF Result
<1> QED
  BY <1>4, <1>5, <1>6 DEF CatchUpSlots

\* What dueSlot returns is the previous anchor's slot, recent, not the one that
\* is marked, and past the known window; it fires at the tick.
LEMMA ChosenByDueSlot ==
  ASSUME NEW c \in Config, NEW anchors \in SUBSET Nat, NEW e \in Entry,
         NEW known \in Nat, NEW now \in Nat,
         NEW s \in CatchUpSlots(c, anchors, e, known, now)
  PROVE  /\ s \in [key : Key, fireAt : Nat]
         /\ s.key.at \in PreviousAnchors(anchors, now)
         /\ s.key = WindowKeyFor(s.key.at, c.zone)
         /\ s.fireAt = now /\ now - s.key.at <= c.catchUp
         /\ e.lastKey # s.key /\ known <= now
<1>1. PICK p \in PreviousAnchors(anchors, now) :
        /\ e.lastKey # WindowKeyFor(p, c.zone)
        /\ CatchUpDue(now, p, c.catchUp, known)
        /\ s = [key |-> WindowKeyFor(p, c.zone), fireAt |-> now]
  BY DEF CatchUpSlots
<1>2. s.key.at = p
  BY <1>1 DEF WindowKeyFor
<1>3. p \in Nat /\ c.zone \in Nat
  BY DEF PreviousAnchors, Config
<1>4. WindowKeyFor(p, c.zone) \in Key
  BY <1>3 DEF WindowKeyFor, Key
<1> QED
  BY <1>1, <1>2, <1>4 DEF CatchUpDue

\* A call of anchorAccount starts well typed (anchor.go:40).
LEMMA TaskTypes ==
  ASSUME NEW a \in Accounts, NEW s \in [key : Key, fireAt : Nat],
         NEW d \in BOOLEAN
  PROVE  NewTask(a, s, d) \in Task
<1>1. NoReply \in Reply
  BY DEF NoReply, Reply
<1> QED
  BY <1>1 DEF NewTask, Task

\* So does the evaluation of the next account (loop.go:67).
LEMMA PassTypes ==
  ASSUME NEW t \in Nat, NEW c \in Configs, NEW i \in 0..(Len(AccountSeq) + 1)
  PROVE  NewPass(t, c, i) \in PassType
<1>1. NoSlot \in [key : Key, fireAt : Nat]
  BY DEF NoSlot, NoKey, Key
<1> QED
  BY <1>1 DEF NewPass, PassType

\* The types hold before the loop has seen a tick.
LEMMA InitTypeOK == Init => TypeOK
<1> SUFFICES ASSUME Init PROVE TypeOK
  OBVIOUS
<1> USE ConstantsAssumption DEF Init
<1>1. 0 \in 0..(Len(AccountSeq) + 1)
  BY LenProperties
<1>2. pass \in PassType
  BY <1>1, PassTypes
<1>3. EmptyEntry \in Entry
  BY DEF EmptyEntry, Entry, NoKey, Key
<1>4. NoJob \in Job
  BY DEF NoJob, Job
<1>5. /\ ledger \in [Accounts -> Entry] /\ job \in [Managers -> Job]
      /\ task \in [Callers -> Task \union {NoTask}]
      /\ window \in [Accounts -> Nat] /\ usage \subseteq Usage
  BY <1>3, <1>4
<1>6. /\ anchored \in [Accounts -> Seq(Nat)]
      /\ refused \in [Accounts -> SUBSET Nat] /\ gaveUp \in [Accounts -> SUBSET Nat]
  OBVIOUS
<1>7. /\ clock \in Nat /\ tickBuf \in Nat /\ ctxDone \in BOOLEAN
      /\ cfg \in Configs /\ pc = "select"
      /\ manualLeft \in Nat /\ organicLeft \in Nat
  OBVIOUS
<1> QED
  BY <1>2, <1>5, <1>6, <1>7 DEF TypeOK, ValuesOK, InPass

\* The type invariant is the types and one of the places of AnchorLoop.
LEMMA TypeValues == TypeOK <=> ValuesOK /\ pc \in InPass \union {"select", "exited"}
BY DEF TypeOK

\* While a pass runs, the current account and its anchors are well typed.
LEMMA CurrentValues ==
  ASSUME ValuesOK, pc \in InPass
  PROVE  /\ CurrentAccount \in Accounts
         /\ CurrentAnchors \in SUBSET Nat
         /\ pass.cfg \in Config
         /\ pass.idx \in 1..Len(AccountSeq)
         /\ ledger[CurrentAccount] \in Entry
<1>1. pass.idx \in 1..Len(AccountSeq) /\ pass.cfg \in Config
  BY ConstantsAssumption DEF ValuesOK, PassType
<1>2. CurrentAccount \in Accounts
  BY <1>1, ConstantsAssumption, ElementOfSeq DEF CurrentAccount
<1> QED
  BY <1>1, <1>2 DEF ValuesOK, PassType, CurrentAnchors, Config

\* The same under the type invariant.
LEMMA CurrentTypes ==
  ASSUME TypeOK, pc \notin {"select", "exited"}
  PROVE  /\ CurrentAccount \in Accounts
         /\ CurrentAnchors \in SUBSET Nat
         /\ pass.cfg \in Config
         /\ pass.idx \in 1..Len(AccountSeq)
         /\ ledger[CurrentAccount] \in Entry
BY TypeValues, CurrentValues

\* Going on to the next account, or ending the pass, keeps the types.
LEMMA NextAccountTypes ==
  ASSUME ValuesOK, pc \in InPass, NextAccount
  PROVE  /\ pass' \in PassType
         /\ pc' \in {"select", "consider"}
         /\ pc' = "consider" => pass'.idx \in 1..Len(AccountSeq)
<1>1. pass.idx \in 1..Len(AccountSeq) /\ Len(AccountSeq) \in Nat
  BY CurrentValues, ConstantsAssumption, LenProperties
<1>2. pass.tick \in Nat /\ pass.cfg \in Configs
  BY DEF ValuesOK, PassType
<1>3. pass' = NewPass(pass.tick, pass.cfg, pass.idx + 1)
  BY DEF NextAccount
<1>4. pass' \in PassType
  BY <1>1, <1>2, <1>3, PassTypes
<1>5. pass'.idx = pass.idx + 1
  BY <1>3 DEF NewPass
<1> QED
  BY <1>1, <1>4, <1>5 DEF NextAccount

\* dueSlot has returned a slot (loop.go:86).
SlotChosen ==
  LET s == pass'.slot IN
  /\ pc' = "stagger" /\ pass' \in PassType
  /\ pass'.tick = pass.tick /\ pass'.cfg = pass.cfg
  /\ pass'.idx = pass.idx /\ pass'.reset = pass.reset
  /\ s.key.at \in PreviousAnchors(CurrentAnchors, pass.tick)
  /\ s.key = WindowKeyFor(s.key.at, pass.cfg.zone)
  /\ s.fireAt = pass.tick /\ pass.tick - s.key.at <= pass.cfg.catchUp
  /\ ledger[CurrentAccount].lastKey # s.key /\ pass.reset <= pass.tick

\* Either read of the last key chooses a slot by the same rule, or goes on to the
\* next read, or account.
LEMMA DueSlotSteps ==
  ASSUME ValuesOK, CheckLedger \/ CheckNext
  PROVE  /\ pc \in {"ledger", "next"}
         /\ UNCHANGED <<envVars, task, managerVars, ledger, worldVars, history>>
         /\ \/ SlotChosen
            \/ pc = "ledger" /\ pc' = "next" /\ pass' = pass
            \/ pc = "next" /\ NextAccount
<1> DEFINE due == CatchUpSlots(pass.cfg, CurrentAnchors, ledger[CurrentAccount],
                               pass.reset, pass.tick)
<1>1. pc \in {"ledger", "next"}
  BY DEF CheckLedger, CheckNext
<1>2. /\ CurrentAnchors \in SUBSET Nat /\ pass.cfg \in Config
      /\ ledger[CurrentAccount] \in Entry
      /\ pass.reset \in Nat /\ pass.tick \in Nat /\ pass \in PassType
      /\ pass.idx \in Nat /\ clock \in Nat
  BY <1>1, CurrentValues DEF ValuesOK, PassType, InPass
<1>3. ASSUME NEW s \in due, ChooseSlot(s) PROVE SlotChosen
  <2> DEFINE wake == clock + (IF pass.idx > 1 THEN pass.cfg.stagger ELSE 0)
  <2>1. pass.cfg.stagger \in Nat
    BY <1>2 DEF Config
  <2>2. wake \in Nat
    BY <1>2, <2>1
  <2>3. pass' = [pass EXCEPT !.slot = s, !.wakeAt = wake] /\ pc' = "stagger"
    BY <1>3 DEF ChooseSlot
  <2>4. /\ s \in [key : Key, fireAt : Nat]
        /\ s.key.at \in PreviousAnchors(CurrentAnchors, pass.tick)
        /\ s.key = WindowKeyFor(s.key.at, pass.cfg.zone)
        /\ s.fireAt = pass.tick /\ pass.tick - s.key.at <= pass.cfg.catchUp
        /\ ledger[CurrentAccount].lastKey # s.key /\ pass.reset <= pass.tick
    BY <1>2, <1>3, ChosenByDueSlot
  <2> HIDE DEF wake
  <2>5. /\ pass' \in PassType /\ pass'.slot = s
        /\ pass'.tick = pass.tick /\ pass'.cfg = pass.cfg
        /\ pass'.idx = pass.idx /\ pass'.reset = pass.reset
    BY <1>2, <2>2, <2>3, <2>4 DEF PassType
  <2> QED
    BY <2>3, <2>4, <2>5 DEF SlotChosen
<1>4. CASE CheckLedger
  BY <1>3, <1>4 DEF CheckLedger
<1>5. CASE CheckNext
  <2>1. NextSlots(pass.cfg, CurrentAnchors, ledger[CurrentAccount], pass.reset,
                  pass.tick) \subseteq due
    BY <1>2, EverySlotIsCatchUp
  <2> QED
    BY <1>3, <1>5, <2>1 DEF CheckNext
<1> QED
  BY <1>1, <1>4, <1>5

\* The steps of the loop keep the types.
LEMMA LoopValues ==
  ASSUME ValuesOK, LoopStep \/ LoopDone \/ StaggerCancelled
  PROVE  ValuesOK'
<1> USE DEF envVars, loopVars, managerVars, worldVars, history, InPass, PassType
<1>1. CASE Wake
  <2>1. PICK listed \in ListOutcomes :
          LET runs == cfg.enabled /\ listed /\ AccountSeq # <<>> IN
          /\ pc' = IF runs THEN "consider" ELSE "select"
          /\ pass' = NewPass(tickBuf, cfg, IF runs THEN 1 ELSE 0)
    BY <1>1 DEF Wake
  <2> DEFINE runs == cfg.enabled /\ listed /\ AccountSeq # <<>>
             i == IF runs THEN 1 ELSE 0
  <2>2. Len(AccountSeq) \in Nat /\ (AccountSeq # <<>> => Len(AccountSeq) >= 1)
    BY ConstantsAssumption, LenProperties, EmptySeq
  <2>3. i \in 0..(Len(AccountSeq) + 1) /\ (runs => i \in 1..Len(AccountSeq))
    BY <2>2
  <2>4. pass' \in PassType
    BY <2>1, <2>3, PassTypes DEF ValuesOK
  <2>5. pass'.idx = i
    BY <2>1 DEF NewPass
  <2>6. pc' \in {"select", "consider"} /\ (pc' = "consider" => runs)
    BY <2>1
  <2> QED
    BY <1>1, <2>3, <2>4, <2>5, <2>6 DEF Wake, ValuesOK, PassType
<1>2. CASE Consider
  <2>1. CASE NextAccount
    BY <1>2, <2>1, NextAccountTypes DEF Consider, ValuesOK, PassType
  <2>2. CASE ~NextAccount
    <3>1. /\ pass' = [pass EXCEPT !.reset = ledger[CurrentAccount].resetsAt]
          /\ pc' = "backoff"
      BY <1>2, <2>2 DEF Consider
    <3>2. ledger[CurrentAccount].resetsAt \in Nat
      BY <1>2, CurrentValues DEF Consider, Entry
    <3>3. pass' \in PassType /\ pass'.idx = pass.idx
      BY <3>1, <3>2 DEF ValuesOK, PassType
    <3> QED
      BY <1>2, <3>1, <3>3 DEF Consider, ValuesOK, PassType
  <2> QED
    BY <2>1, <2>2
<1>3. CASE CheckBackoff
  <2>1. CASE NextAccount
    BY <1>3, <2>1, NextAccountTypes DEF CheckBackoff, ValuesOK, PassType
  <2>2. CASE ~NextAccount
    BY <1>3, <2>2 DEF CheckBackoff, ValuesOK
  <2> QED
    BY <2>1, <2>2
<1>4. CASE CheckLedger \/ CheckNext
  BY <1>4, DueSlotSteps, NextAccountTypes DEF SlotChosen, ValuesOK, PassType
<1>5. CASE CallAnchor
  <2>1. NewTask(CurrentAccount, pass.slot, pass.cfg.dryRun) \in Task
    BY <1>5, CurrentValues, TaskTypes DEF CallAnchor, ValuesOK, Config
  <2>2. task' = [task EXCEPT ![Loop] =
                   NewTask(CurrentAccount, pass.slot, pass.cfg.dryRun)]
    BY <1>5 DEF CallAnchor
  <2>3. task' \in [Callers -> Task \union {NoTask}]
    BY <2>1, <2>2 DEF ValuesOK
  <2> QED
    BY <1>5, <2>3 DEF CallAnchor, ValuesOK
<1>6. CASE AnchorReturned
  BY <1>6, NextAccountTypes DEF AnchorReturned, ValuesOK, PassType
<1>7. CASE LoopDone
  BY <1>7 DEF LoopDone, ValuesOK
<1>8. CASE StaggerCancelled
  BY <1>8 DEF StaggerCancelled, ValuesOK
<1> QED
  BY <1>1, <1>2, <1>3, <1>4, <1>5, <1>6, <1>7, <1>8 DEF LoopStep

\* The provider's step keeps the types of what it changes.
LEMMA ServeTypes ==
  ASSUME ValuesOK, NEW a \in Accounts, ServeRequest(a)
  PROVE  window' \in [Accounts -> Nat] /\ usage' \subseteq Usage
<1> DEFINE end == IF window[a] <= clock THEN clock + WindowLen ELSE window[a]
<1>1. end \in Nat /\ clock \in Nat
  BY ConstantsAssumption DEF ValuesOK
<1>2. [acct |-> a, reset |-> end, at |-> clock] \in Usage
  BY <1>1 DEF Usage
<1> QED
  BY <1>1, <1>2 DEF ServeRequest, ValuesOK

\* The steps of anchorAccount keep the types, whoever called it.
LEMMA AnchorValues ==
  ASSUME ValuesOK, NEW c \in Callers, AnchorStep(c) \/ Serve(c)
  PROVE  ValuesOK'
<1> USE DEF envVars, loopVars, managerVars, worldVars, history
<1> DEFINE t == task[c]
<1>1. t # NoTask /\ t \in Task
  BY DEF ValuesOK, AnchorStep, Serve, AbortAnchor, DryRunAnchor, MayFire,
         SendAnchor, AnchorSucceeded, AnchorRefused, AnchorFailed, NoTask, Task
<1>2. t.acct \in Accounts /\ t.key \in Key /\ ledger[t.acct] \in Entry
  BY <1>1 DEF Task, ValuesOK
<1>3. t.key.at \in Nat
  BY <1>2 DEF Key
<1>4. ASSUME Finish(c) PROVE task' \in [Callers -> Task \union {NoTask}]
  BY <1>4 DEF Finish, ValuesOK
<1>5. ASSUME MarkTask(t)
      PROVE  /\ ledger' \in [Accounts -> Entry]
             /\ anchored' \in [Accounts -> Seq(Nat)]
             /\ UNCHANGED <<refused, gaveUp>>
  <2>1. ledger' \in [Accounts -> Entry]
    BY <1>2, <1>5, LedgerTypes DEF MarkTask, SetEntry, ValuesOK
  <2>2. Append(anchored[t.acct], t.key.at) \in Seq(Nat)
    BY <1>2, <1>3, AppendProperties DEF ValuesOK
  <2> QED
    BY <1>5, <2>1, <2>2 DEF MarkTask, ValuesOK
<1>6. ASSUME NEW h \in [Accounts -> SUBSET Nat]
      PROVE  Remember(h, t.acct, t.key) \in [Accounts -> SUBSET Nat]
  BY <1>2, <1>3 DEF Remember
<1>7. CASE AbortAnchor(c)
  BY <1>4, <1>7 DEF AbortAnchor, ValuesOK
<1>8. CASE DryRunAnchor(c)
  BY <1>4, <1>5, <1>8 DEF DryRunAnchor, ValuesOK
<1>9. CASE SendAnchor(c)
  <2>1. [t EXCEPT !.pc = "sent"] \in Task
    BY <1>1 DEF Task
  <2> QED
    BY <1>9, <2>1 DEF SendAnchor, ValuesOK
<1>10. CASE AnchorSucceeded(c)
  BY <1>4, <1>5, <1>10 DEF AnchorSucceeded, ValuesOK
<1>11. CASE AnchorRefused(c)
  <2>1. ledger' \in [Accounts -> Entry]
    BY <1>2, <1>11, LedgerTypes DEF AnchorRefused, SetEntry, ValuesOK
  <2>2. refused' \in [Accounts -> SUBSET Nat]
    BY <1>6, <1>11 DEF AnchorRefused, ValuesOK
  <2> QED
    BY <1>4, <1>11, <2>1, <2>2 DEF AnchorRefused, ValuesOK
<1>12. CASE AnchorFailed(c)
  <2>1. ledger' \in [Accounts -> Entry]
    BY <1>2, <1>12, LedgerTypes DEF AnchorFailed, SetEntry, ValuesOK
  <2>2. gaveUp' \in [Accounts -> SUBSET Nat]
    BY <1>6, <1>12 DEF AnchorFailed, ValuesOK
  <2> QED
    BY <1>4, <1>12, <2>1, <2>2 DEF AnchorFailed, ValuesOK
<1>13. CASE Serve(c)
  <2>1. PICK r \in Outcomes :
          /\ task' = [task EXCEPT ![c].pc = "replied", ![c].reply = r]
          /\ IF r.served THEN ServeRequest(t.acct)
                         ELSE UNCHANGED <<window, usage>>
    BY <1>13 DEF Serve
  <2>2. [t EXCEPT !.pc = "replied", !.reply = r] \in Task
    BY <1>1, ConstantsAssumption DEF Task
  <2>3. task' \in [Callers -> Task \union {NoTask}]
    BY <2>1, <2>2 DEF ValuesOK
  <2>4. window' \in [Accounts -> Nat] /\ usage' \subseteq Usage
    BY <1>2, <2>1, ServeTypes DEF ValuesOK
  <2> QED
    BY <1>13, <2>3, <2>4 DEF Serve, ValuesOK
<1> QED
  BY <1>7, <1>8, <1>9, <1>10, <1>11, <1>12, <1>13 DEF AnchorStep

\* The manual trigger keeps the types.
LEMMA ManagerValues ==
  ASSUME ValuesOK, NEW m \in Managers, ManagerStep(m)
  PROVE  ValuesOK'
<1> USE DEF envVars, loopVars, worldVars, history
<1>1. CASE ManualStart(m)
  <2>1. PICK f \in {Accounts} \union {{a} : a \in Accounts} :
          job' = [job EXCEPT ![m] = [next |-> 1, wanted |-> f \intersect cfg.eligible,
                                     dryRun |-> cfg.dryRun]]
    BY <1>1 DEF ManualStart
  <2>2. f \intersect cfg.eligible \in SUBSET Accounts
    OBVIOUS
  <2>3. cfg.dryRun \in BOOLEAN
    BY ConstantsAssumption DEF ValuesOK, Config
  <2>4. [next |-> 1, wanted |-> f \intersect cfg.eligible, dryRun |-> cfg.dryRun]
          \in Job
    BY <2>2, <2>3 DEF Job
  <2>5. job' \in [Managers -> Job]
    BY <2>1, <2>4 DEF ValuesOK
  <2>6. manualLeft' \in Nat
    BY <1>1 DEF ManualStart, ValuesOK
  <2> QED
    BY <1>1, <2>5, <2>6 DEF ManualStart, ValuesOK
<1>2. CASE ManualAnchor(m)
  <2>1. PICK i \in Remaining(m) :
          /\ job' = [job EXCEPT ![m].next = i + 1]
          /\ task' = [task EXCEPT ![m] =
               NewTask(AccountSeq[i], [key |-> ManualKey, fireAt |-> clock],
                       job[m].dryRun)]
    BY <1>2 DEF ManualAnchor
  <2>2. job[m] \in Job
    BY DEF ValuesOK
  <2>3. i \in Nat \ {0} /\ AccountSeq[i] \in Accounts
    BY <2>2 DEF Remaining, Job
  <2>4. [key |-> ManualKey, fireAt |-> clock] \in [key : Key, fireAt : Nat]
    BY DEF ManualKey, Key, ValuesOK
  <2>5. NewTask(AccountSeq[i], [key |-> ManualKey, fireAt |-> clock], job[m].dryRun)
          \in Task
    BY <2>2, <2>3, <2>4, TaskTypes DEF Job
  <2>6. task' \in [Callers -> Task \union {NoTask}]
    BY <2>1, <2>5 DEF ValuesOK
  <2>7. [job[m] EXCEPT !.next = i + 1] \in Job
    BY <2>2, <2>3 DEF Job
  <2>8. job' \in [Managers -> Job]
    BY <2>1, <2>7 DEF ValuesOK
  <2> QED
    BY <1>2, <2>6, <2>8 DEF ManualAnchor, ValuesOK
<1> QED
  BY <1>1, <1>2 DEF ManagerStep

\* So do the sensor, the configuration, cancellation and the world.
LEMMA OtherValues ==
  ASSUME ValuesOK,
         \/ HandleUsage \/ Reconfigure \/ Cancel
         \/ \E a \in Accounts : Organic(a)
         \/ \E d \in Steps : Advance(d)
  PROVE  ValuesOK'
<1> USE DEF envVars, loopVars, managerVars, worldVars, history
<1>1. CASE HandleUsage
  <2>1. PICK u \in usage :
          /\ usage' = usage \ {u}
          /\ SetEntry(u.acct, ObserveReset(ledger[u.acct], u.reset))
    BY <1>1 DEF HandleUsage
  <2>2. u.acct \in Accounts /\ u.reset \in Nat /\ ledger[u.acct] \in Entry
    BY DEF ValuesOK, Usage
  <2>3. NoKey \in Key
    BY DEF NoKey, Key
  <2>4. ledger' \in [Accounts -> Entry]
    BY <2>1, <2>2, <2>3, LedgerTypes DEF SetEntry, ValuesOK
  <2> QED
    BY <1>1, <2>1, <2>4 DEF HandleUsage, ValuesOK
<1>2. CASE Reconfigure
  BY <1>2 DEF Reconfigure, ValuesOK
<1>3. CASE Cancel
  BY <1>3 DEF Cancel, ValuesOK
<1>4. ASSUME NEW a \in Accounts, Organic(a) PROVE ValuesOK'
  <2>1. window' \in [Accounts -> Nat] /\ usage' \subseteq Usage
    BY <1>4, ServeTypes DEF Organic
  <2>2. organicLeft' \in Nat
    BY <1>4 DEF Organic, ValuesOK
  <2> QED
    BY <1>4, <2>1, <2>2 DEF Organic, ValuesOK
<1>5. ASSUME NEW d \in Steps, Advance(d) PROVE ValuesOK'
  <2>1. d \in Nat /\ clock' \in Nat
    BY <1>5, ConstantsAssumption DEF Advance, ValuesOK
  <2>2. tickBuf' \in {tickBuf} \union (clock + 1)..(clock + d)
    BY <1>5 DEF Advance
  <2>3. tickBuf' \in Nat
    BY <2>1, <2>2 DEF ValuesOK
  <2> QED
    BY <1>5, <2>1, <2>3 DEF Advance, ValuesOK
<1> QED
  BY <1>1, <1>2, <1>3, <1>4, <1>5

\* Every step keeps the types.
LEMMA NextValues ==
  ASSUME ValuesOK, [Next]_vars
  PROVE  ValuesOK'
<1>1. CASE UNCHANGED vars
  BY <1>1 DEF ValuesOK, vars, envVars, loopVars, managerVars, worldVars, history
<1>2. CASE Next
  BY <1>2, LoopValues, AnchorValues, ManagerValues, OtherValues
     DEF Next, AutoNext, Callers
<1> QED
  BY <1>1, <1>2

\* Only the loop moves the loop, and only a step of the clock or of the loop
\* touches the ticker.
LEMMA OthersKeepLoop ==
  ASSUME [Next]_vars
  PROVE  \/ LoopStep \/ LoopDone \/ StaggerCancelled
         \/ /\ UNCHANGED loopVars
            /\ (\E d \in Steps : Advance(d)) \/ UNCHANGED <<clock, tickBuf>>
<1> USE DEF envVars
<1>1. ASSUME NEW c \in Callers, AnchorStep(c) \/ Serve(c)
      PROVE  UNCHANGED <<loopVars, clock, tickBuf>>
  BY <1>1 DEF AnchorStep, AbortAnchor, DryRunAnchor, SendAnchor,
     AnchorSucceeded, AnchorRefused, AnchorFailed, Serve
<1>2. ASSUME HandleUsage \/ Reconfigure \/ Cancel
      PROVE  UNCHANGED <<loopVars, clock, tickBuf>>
  BY <1>2 DEF HandleUsage, Reconfigure, Cancel
<1>3. ASSUME NEW a \in Accounts, Organic(a)
      PROVE  UNCHANGED <<loopVars, clock, tickBuf>>
  BY <1>3 DEF Organic
<1>4. ASSUME NEW m \in Managers, ManagerStep(m)
      PROVE  UNCHANGED <<loopVars, clock, tickBuf>>
  BY <1>4 DEF ManagerStep, ManualStart, ManualAnchor
<1>5. ASSUME NEW d \in Steps, Advance(d) PROVE UNCHANGED loopVars
  BY <1>5 DEF Advance
<1>6. CASE UNCHANGED vars
  BY <1>6 DEF vars
<1> QED
  BY <1>1, <1>2, <1>3, <1>4, <1>5, <1>6 DEF Next, AutoNext, Callers

\* The loop goes from place to place within the pass and out of it.
LEMMA NextPlaces ==
  ASSUME [Next]_vars
  PROVE  UNCHANGED loopVars \/ pc' \in InPass \union {"select", "exited"}
<1> USE DEF InPass
<1>1. ASSUME LoopStep PROVE pc' \in InPass \union {"select"}
  BY <1>1 DEF LoopStep, Wake, Consider, CheckBackoff, CheckLedger, CheckNext,
     ChooseSlot, CallAnchor, AnchorReturned, NextAccount
<1>2. ASSUME LoopDone \/ StaggerCancelled PROVE pc' \in {"select", "exited"}
  BY <1>2 DEF LoopDone, StaggerCancelled
<1> QED
  BY <1>1, <1>2, OthersKeepLoop

\* Every step keeps the type invariant.
LEMMA NextTypeOK ==
  ASSUME TypeOK, [Next]_vars
  PROVE  TypeOK'
<1>1. ValuesOK' /\ pc' \in InPass \union {"select", "exited"}
  BY TypeValues, NextValues, NextPlaces DEF loopVars
<1> QED
  BY <1>1 DEF TypeOK

\* The type invariant, whatever the configuration, the replies and the order of
\* events.
THEOREM TypeCorrect == Spec => []TypeOK
<1> QED
  BY InitTypeOK, NextTypeOK, PTL DEF Spec

\* The plugin left to itself takes steps of the whole specification only.
LEMMA AutoImpliesSpec == AutoSpec => Spec
<1>1. [AutoNext]_vars => [Next]_vars
  BY DEF Next
<1> QED
  BY <1>1, PTL DEF AutoSpec, Spec

----------------------------------------------------------------------------
(* The slot that the loop has chosen.  The inductive invariant says what    *)
(* stays true of the choice while the loop waits, sends and is answered:    *)
(* that is what the properties below need at the moment of the request.     *)

\* Ticks are never ahead of the clock, and never go back.
TimeInv ==
  /\ pass.tick <= clock /\ tickBuf <= clock
  /\ tickBuf # 0 => pass.tick <= tickBuf

\* The chosen slot is the previous anchor as of the tick, within the catch-up.
ChosenInv ==
  pc \in {"stagger", "anchor"} =>
    /\ pass.slot.key.at \in PreviousAnchors(CurrentAnchors, pass.tick)
    /\ pass.slot.key = WindowKeyFor(pass.slot.key.at, pass.cfg.zone)
    /\ pass.slot.fireAt = pass.tick
    /\ pass.tick - pass.slot.key.at <= pass.cfg.catchUp

\* The loop's call of anchorAccount is for that slot, a manager's for none.
TaskInv ==
  /\ task[Loop] # NoTask =>
       /\ pc = "anchor" /\ task[Loop].acct = CurrentAccount
       /\ task[Loop].key = pass.slot.key /\ task[Loop].fireAt = pass.slot.fireAt
  /\ \A m \in Managers : task[m] # NoTask => task[m].key = ManualKey

ChoiceInv == TimeInv /\ ChosenInv /\ TaskInv

\* No slot is chosen and no time has passed at the start.
LEMMA InitChoiceInv == Init => ChoiceInv
  BY DEF Init, ChoiceInv, TimeInv, ChosenInv, TaskInv, NewPass, Callers, NoTask

\* Every step keeps the order of the clock, the tick in the buffer and the tick
\* of the pass.
LEMMA NextTimeInv ==
  ASSUME ValuesOK, TimeInv, [Next]_vars
  PROVE  TimeInv'
<1> USE DEF envVars, loopVars, managerVars, worldVars, history, PassType
<1>1. CASE Wake
  <2>1. pass'.tick = tickBuf
    BY <1>1 DEF Wake, NewPass
  <2> QED
    BY <1>1, <2>1 DEF Wake, TimeInv, ValuesOK
<1>2. ASSUME NEW d \in Steps, Advance(d) PROVE TimeInv'
  <2>1. d \in Nat \ {0} /\ clock' = clock + d /\ pass' = pass
    BY <1>2, ConstantsAssumption DEF Advance
  <2>2. tickBuf' = tickBuf \/ tickBuf' \in (clock + 1)..(clock + d)
    BY <1>2 DEF Advance
  <2> QED
    BY <2>1, <2>2 DEF TimeInv, ValuesOK
<1>3. ASSUME pass'.tick = pass.tick, clock' = clock, tickBuf' \in {0, tickBuf}
      PROVE  TimeInv'
  BY <1>3 DEF TimeInv, ValuesOK
<1>4. ASSUME NextAccount PROVE pass'.tick = pass.tick
  BY <1>4 DEF NextAccount, NewPass
<1>5. CASE Consider
  BY <1>3, <1>4, <1>5 DEF Consider, ValuesOK
<1>6. CASE CheckBackoff
  BY <1>3, <1>4, <1>6 DEF CheckBackoff
<1>7. CASE CheckLedger \/ CheckNext
  BY <1>3, <1>4, <1>7, DueSlotSteps DEF SlotChosen
<1>8. CASE CallAnchor \/ LoopDone \/ StaggerCancelled
  BY <1>3, <1>8 DEF CallAnchor, LoopDone, StaggerCancelled
<1>9. CASE AnchorReturned
  BY <1>3, <1>4, <1>9 DEF AnchorReturned
<1> QED
  BY <1>1, <1>2, <1>3, <1>5, <1>6, <1>7, <1>8, <1>9, OthersKeepLoop
     DEF LoopStep

\* Every step keeps what is known of the chosen slot.
LEMMA NextChosenInv ==
  ASSUME ValuesOK, ChosenInv, [Next]_vars
  PROVE  ChosenInv'
<1> USE DEF envVars, loopVars, managerVars, worldVars, history, PassType, InPass
<1>1. CASE CheckLedger \/ CheckNext
  BY <1>1, DueSlotSteps
     DEF SlotChosen, NextAccount, ChosenInv, CurrentAnchors, CurrentAccount
<1>2. CASE CallAnchor
  BY <1>2 DEF CallAnchor, ChosenInv, CurrentAnchors, CurrentAccount
<1>3. ASSUME pc' \notin {"stagger", "anchor"} PROVE ChosenInv'
  BY <1>3 DEF ChosenInv
<1>4. ASSUME UNCHANGED <<pc, pass>> PROVE ChosenInv'
  BY <1>4 DEF ChosenInv, CurrentAnchors, CurrentAccount
<1>5. ASSUME NextAccount PROVE ChosenInv'
  BY <1>5 DEF NextAccount, ChosenInv
<1>6. CASE Wake
  BY <1>3, <1>6 DEF Wake
<1>7. CASE Consider
  BY <1>3, <1>5, <1>7 DEF Consider
<1>8. CASE CheckBackoff
  BY <1>3, <1>5, <1>8 DEF CheckBackoff
<1>9. CASE AnchorReturned
  BY <1>5, <1>9 DEF AnchorReturned
<1>10. CASE LoopDone \/ StaggerCancelled
  BY <1>3, <1>10 DEF LoopDone, StaggerCancelled
<1> QED
  BY <1>1, <1>2, <1>4, <1>6, <1>7, <1>8, <1>9, <1>10, OthersKeepLoop
     DEF LoopStep

\* Every step keeps the calls of anchorAccount in line with their callers.
LEMMA NextTaskInv ==
  ASSUME ValuesOK, TaskInv, [Next]_vars
  PROVE  TaskInv'
<1> USE DEF envVars, loopVars, managerVars, worldVars, history
<1>1. Loop \in Callers /\ Managers \subseteq Callers /\ Loop \notin Managers
  BY ConstantsAssumption DEF Callers
<1>2. ASSUME UNCHANGED <<loopVars, task>> PROVE TaskInv'
  BY <1>2 DEF TaskInv, CurrentAccount
\* A step of the loop outside a call of anchorAccount.
<1>3. ASSUME task[Loop] = NoTask, UNCHANGED task PROVE TaskInv'
  BY <1>3 DEF TaskInv
<1>4. ASSUME pc # "anchor" PROVE task[Loop] = NoTask
  BY <1>4 DEF TaskInv
<1>5. CASE Wake
  BY <1>3, <1>4, <1>5 DEF Wake
<1>6. CASE Consider
  BY <1>3, <1>4, <1>6 DEF Consider
<1>7. CASE CheckBackoff
  BY <1>3, <1>4, <1>7 DEF CheckBackoff
<1>8. CASE CheckLedger \/ CheckNext
  BY <1>3, <1>4, <1>8 DEF CheckLedger, CheckNext
<1>9. CASE CallAnchor
  <2>1. /\ UNCHANGED pass /\ pc' = "anchor"
        /\ task' = [task EXCEPT ![Loop] =
                       NewTask(CurrentAccount, pass.slot, pass.cfg.dryRun)]
    BY <1>9 DEF CallAnchor
  <2>2. task'[Loop] = NewTask(CurrentAccount, pass.slot, pass.cfg.dryRun)
    BY <1>1, <2>1 DEF ValuesOK
  <2>3. \A m \in Managers : task'[m] = task[m]
    BY <1>1, <2>1 DEF ValuesOK
  <2> QED
    BY <2>1, <2>2, <2>3 DEF TaskInv, NewTask, CurrentAccount
<1>10. CASE AnchorReturned
  BY <1>3, <1>10 DEF AnchorReturned
<1>11. CASE LoopDone \/ StaggerCancelled
  BY <1>3, <1>4, <1>11 DEF LoopDone, StaggerCancelled
<1>12. ASSUME NEW c \in Callers, AnchorStep(c) \/ Serve(c) PROVE TaskInv'
  <2>1. /\ UNCHANGED loopVars
        /\ \A b \in Callers \ {c} : task'[b] = task[b]
        /\ task'[c] # NoTask => /\ task[c] # NoTask
                               /\ task'[c].acct = task[c].acct
                               /\ task'[c].key = task[c].key
                               /\ task'[c].fireAt = task[c].fireAt
    BY <1>12 DEF AnchorStep, AbortAnchor, DryRunAnchor, SendAnchor, MayFire, Finish,
       AnchorSucceeded, AnchorRefused, AnchorFailed, Serve, ValuesOK, NoTask, Task
  <2> QED
    BY <1>1, <2>1 DEF TaskInv, CurrentAccount
<1>13. ASSUME NEW m \in Managers, ManagerStep(m) PROVE TaskInv'
  <2>1. CASE ManualStart(m)
    BY <1>2, <2>1 DEF ManualStart
  <2>2. CASE ManualAnchor(m)
    <3>1. PICK i \in Remaining(m) :
            task' = [task EXCEPT ![m] =
              NewTask(AccountSeq[i], [key |-> ManualKey, fireAt |-> clock],
                      job[m].dryRun)]
      BY <2>2 DEF ManualAnchor
    <3>2. /\ UNCHANGED loopVars /\ task'[m].key = ManualKey
          /\ \A c \in Callers \ {m} : task'[c] = task[c]
      BY <1>1, <2>2, <3>1 DEF ManualAnchor, NewTask, ValuesOK
    <3> QED
      BY <1>1, <3>2 DEF TaskInv, CurrentAccount
  <2> QED
    BY <1>13, <2>1, <2>2 DEF ManagerStep
<1>14. CASE HandleUsage \/ Reconfigure \/ Cancel
  BY <1>2, <1>14 DEF HandleUsage, Reconfigure, Cancel
<1>15. ASSUME NEW a \in Accounts, Organic(a) PROVE TaskInv'
  BY <1>2, <1>15 DEF Organic
<1>16. ASSUME NEW d \in Steps, Advance(d) PROVE TaskInv'
  BY <1>2, <1>16 DEF Advance
<1>17. CASE UNCHANGED vars
  BY <1>2, <1>17 DEF vars
<1> QED
  BY <1>5, <1>6, <1>7, <1>8, <1>9, <1>10, <1>11, <1>12, <1>13, <1>14, <1>15,
     <1>16, <1>17 DEF Next, AutoNext, LoopStep, Callers

\* Every step keeps the invariant of the choice.
LEMMA NextChoiceInv ==
  ASSUME TypeOK, ChoiceInv, [Next]_vars
  PROVE  ChoiceInv'
BY TypeValues, NextTimeInv, NextChosenInv, NextTaskInv DEF ChoiceInv

\* The invariant of the choice holds in every reachable state.
LEMMA ChoiceInvariant == Spec => [](TypeOK /\ ChoiceInv)
<1>1. Init => TypeOK /\ ChoiceInv
  BY InitTypeOK, InitChoiceInv
<1>2. TypeOK /\ ChoiceInv /\ [Next]_vars => (TypeOK /\ ChoiceInv)'
  BY NextTypeOK, NextChoiceInv
<1> QED
  BY <1>1, <1>2, PTL DEF Spec

\* A step either marks the loop's slot, and the loop stands still, or leaves the
\* marks and the last keys alone.
LEMMA MarkOrKeep ==
  ASSUME ValuesOK, [AutoNext]_vars
  PROVE  \/ /\ task[Loop] # NoTask /\ MarkTask(task[Loop]) /\ Finish(Loop)
            /\ UNCHANGED <<envVars, loopVars>>
         \/ /\ UNCHANGED <<cfg, anchored>>
            /\ \A a \in Accounts : ledger'[a].lastKey = ledger[a].lastKey
<1> USE DEF envVars, history
<1>1. CASE LoopStep
  BY <1>1 DEF LoopStep, Wake, Consider, CheckBackoff, CheckLedger, CheckNext,
     CallAnchor, AnchorReturned
<1>2. CASE LoopDone \/ StaggerCancelled \/ Cancel
  BY <1>2 DEF LoopDone, StaggerCancelled, Cancel
<1>3. CASE DryRunAnchor(Loop) \/ AnchorSucceeded(Loop)
  BY <1>3 DEF DryRunAnchor, MayFire, AnchorSucceeded, NoTask
<1>4. CASE AbortAnchor(Loop) \/ SendAnchor(Loop) \/ Serve(Loop)
  BY <1>4 DEF AbortAnchor, SendAnchor, Serve
<1>5. CASE AnchorRefused(Loop) \/ AnchorFailed(Loop)
  <2> DEFINE a == task[Loop].acct
  <2>1. /\ UNCHANGED <<cfg, anchored>>
        /\ \E e \in {SetAnchorTerminalFailure(ledger[a]),
                     RecordAnchorFailure(ledger[a], task[Loop].key, clock)} :
             ledger' = [ledger EXCEPT ![a] = e]
    BY <1>5 DEF AnchorRefused, AnchorFailed, SetEntry
  <2>2. \A e \in Entry : /\ SetAnchorTerminalFailure(e).lastKey = e.lastKey
                         /\ \A k, t : RecordAnchorFailure(e, k, t).lastKey = e.lastKey
    BY DEF SetAnchorTerminalFailure, RecordAnchorFailure, Entry
  <2> QED
    BY <2>1, <2>2 DEF ValuesOK
<1>6. CASE HandleUsage
  <2>1. PICK u \in usage :
          ledger' = [ledger EXCEPT ![u.acct] = ObserveReset(ledger[u.acct], u.reset)]
    BY <1>6 DEF HandleUsage, SetEntry
  <2>2. \A e \in Entry : \A t : ObserveReset(e, t).lastKey = e.lastKey
    BY DEF ObserveReset, Entry
  <2> QED
    BY <1>6, <2>1, <2>2 DEF HandleUsage, ValuesOK
<1>7. ASSUME NEW a \in Accounts, Organic(a)
      PROVE  UNCHANGED <<cfg, anchored, ledger>>
  BY <1>7 DEF Organic
<1>8. ASSUME NEW d \in Steps, Advance(d) PROVE UNCHANGED <<cfg, anchored, ledger>>
  BY <1>8 DEF Advance
<1>9. CASE UNCHANGED vars
  BY <1>9 DEF vars
<1> QED
  BY <1>1, <1>2, <1>3, <1>4, <1>5, <1>6, <1>7, <1>8, <1>9 DEF AutoNext, AnchorStep

\* The slot being anchored is not the one the ledger remembers.
FreshInv ==
  pc = "stagger" \/ (pc = "anchor" /\ task[Loop] # NoTask) =>
    ledger[CurrentAccount].lastKey # pass.slot.key

\* A step that leaves the last keys alone keeps the chosen slot fresh.
LEMMA FreshKept ==
  ASSUME ValuesOK, FreshInv, [AutoNext]_vars,
         \A a \in Accounts : ledger'[a].lastKey = ledger[a].lastKey
  PROVE  FreshInv'
<1> USE DEF envVars, loopVars, managerVars, worldVars, history, InPass
<1>2. ASSUME pc' \notin {"stagger", "anchor"} PROVE FreshInv'
  BY <1>2 DEF FreshInv
<1>3. ASSUME UNCHANGED loopVars, task'[Loop] # NoTask => task[Loop] # NoTask
      PROVE  FreshInv'
  <2> SUFFICES ASSUME pc = "stagger" \/ (pc = "anchor" /\ task[Loop] # NoTask)
               PROVE  ledger'[CurrentAccount].lastKey # pass.slot.key
    BY <1>3 DEF FreshInv, CurrentAccount
  <2>2. CurrentAccount \in Accounts
    BY CurrentValues
  <2> QED
    BY <2>2 DEF FreshInv
<1>4. CASE CheckLedger \/ CheckNext
  BY <1>2, <1>4, DueSlotSteps DEF SlotChosen, NextAccount, FreshInv, CurrentAccount
<1>5. CASE CallAnchor
  <2>1. /\ pass' = pass /\ pc = "stagger"
    BY <1>5 DEF CallAnchor
  <2>2. CurrentAccount \in Accounts
    BY <2>1, CurrentValues
  <2> QED
    BY <2>1, <2>2 DEF FreshInv, CurrentAccount
<1>6. CASE Wake
  BY <1>2, <1>6 DEF Wake
<1>7. CASE Consider
  BY <1>2, <1>7 DEF Consider, NextAccount
<1>8. CASE CheckBackoff
  BY <1>2, <1>8 DEF CheckBackoff, NextAccount
<1>9. CASE AnchorReturned
  BY <1>2, <1>9 DEF AnchorReturned, NextAccount
<1>10. CASE LoopDone \/ StaggerCancelled
  BY <1>2, <1>10 DEF LoopDone, StaggerCancelled
<1>11. CASE AnchorStep(Loop) \/ Serve(Loop)
  <2>1. UNCHANGED loopVars /\ task[Loop] # NoTask
    BY <1>11 DEF AnchorStep, AbortAnchor, DryRunAnchor, MayFire, SendAnchor,
       AnchorSucceeded, AnchorRefused, AnchorFailed, Serve, NoTask
  <2> QED
    BY <1>3, <2>1
<1>12. CASE HandleUsage \/ Cancel
  BY <1>3, <1>12 DEF HandleUsage, Cancel
<1>13. ASSUME NEW a \in Accounts, Organic(a) PROVE FreshInv'
  BY <1>3, <1>13 DEF Organic
<1>14. ASSUME NEW d \in Steps, Advance(d) PROVE FreshInv'
  BY <1>3, <1>14 DEF Advance
<1>15. CASE UNCHANGED vars
  BY <1>3, <1>15 DEF vars
<1> QED
  BY <1>4, <1>5, <1>6, <1>7, <1>8, <1>9, <1>10, <1>11, <1>12, <1>13, <1>14, <1>15
     DEF AutoNext, LoopStep

\* Whatever the operator, the manual triggers and the host do meanwhile, a slot
\* the loop has chosen has begun, was within the catch-up window at the tick
\* that chose it, and is due.
THEOREM SlotFiresInCatchUpCorrect == Spec => []SlotFiresInCatchUp
<1>1. TypeOK /\ ChoiceInv => SlotFiresInCatchUp
  <2> SUFFICES ASSUME TypeOK, ChoiceInv,
                      NEW s \in (IF pc = "stagger" THEN {pass.slot} ELSE {})
                        \union (IF task[Loop] # NoTask THEN {task[Loop]} ELSE {})
               PROVE  /\ s.key.kind = "slot"
                      /\ s.key.at <= s.fireAt /\ s.fireAt <= clock
                      /\ s.fireAt - s.key.at <= pass.cfg.catchUp
    BY DEF SlotFiresInCatchUp
  <2>1. /\ pc \in {"stagger", "anchor"}
        /\ s.key = pass.slot.key /\ s.fireAt = pass.slot.fireAt
    BY DEF ChoiceInv, TaskInv
  <2> QED
    BY <2>1 DEF ChoiceInv, ChosenInv, TimeInv, PreviousAnchors, WindowKeyFor
<1> QED
  BY <1>1, ChoiceInvariant, PTL
=============================================================================
