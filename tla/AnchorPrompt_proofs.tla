------------------------- MODULE AnchorPrompt_proofs ------------------------
(***************************************************************************)
(* The best case, PromptSpec: an awake and fast machine on which the       *)
(* sensor delivers before the loop reads.  There no request of the loop is *)
(* wasted on an open window, and a pass leaves no slot behind.             *)
(***************************************************************************)
EXTENDS AnchorOrder_proofs

----------------------------------------------------------------------------
(* The inductive invariant *)

\* The loop is between its read of ResetsAt and the reply to its request.
Asking == \/ pc \in {"backoff", "ledger", "next", "stagger"}
          \/ pc = "anchor" /\ task[Loop].pc \in {"begin", "sent"}

\* A usage record is on its way only while the loop asks for nothing, and tells
\* of the window that is open now.
UsageInv ==
  \A u \in usage :
    /\ pc = "select" \/ (pc = "anchor" /\ task[Loop].pc \in {"idle", "replied"})
    /\ u.reset = window[u.acct] /\ u.reset > clock

\* What the ledger knows of a window is right, unless a record is on its way.
ResetInv ==
  \A a \in Accounts :
    \/ ledger[a].resetsAt \in {0, window[a]}
    \/ \E u \in usage : u.acct = a

\* The reset that dueSlot has read stays the ledger's until the provider answers,
\* and the window had closed when a slot was chosen.
AskingInv ==
  /\ Asking => ledger[CurrentAccount].resetsAt = pass.reset
  /\ Asking /\ pc \in {"stagger", "anchor"} => pass.reset <= pass.tick

\* The slot that the ledger remembers as anchored was anchored.
KeyMarkedInv ==
  \A a \in Accounts : ledger[a].lastKey.kind = "slot" =>
    \E i \in DOMAIN anchored[a] : anchored[a][i] = ledger[a].lastKey.at

\* What PassLeavesNoSlot says of one account.
Handled(a) ==
  a \in pass.cfg.eligible =>
    \A p \in PreviousAnchors(pass.cfg.anchors[a], pass.tick) :
      pass.tick - p <= pass.cfg.catchUp =>
        \/ \E i \in DOMAIN anchored[a] : anchored[a][i] = p
        \/ ledger[a].resetsAt > pass.tick
        \/ SlotInBackoff(ledger[a], WindowKeyFor(p, pass.cfg.zone), pass.tick)
        \/ p \in refused[a] \union gaveUp[a]

\* The pass has handled the accounts it has gone past, and the current one once
\* anchorAccount has returned or there was nothing to catch up on.
HandledInv ==
  /\ \A i \in 1..Len(AccountSeq) : i < pass.idx => Handled(AccountSeq[i])
  /\ pc = "next" \/ (pc = "anchor" /\ task[Loop] = NoTask) => Handled(CurrentAccount)

PromptInv ==
  /\ ctxDone = FALSE
  /\ UsageInv /\ ResetInv /\ AskingInv /\ KeyMarkedInv /\ HandledInv

\* Nothing is known and nothing on its way at the start.
LEMMA InitPromptInv == Init => PromptInv
<1> SUFFICES ASSUME Init PROVE PromptInv
  OBVIOUS
<1>1. /\ ctxDone = FALSE /\ usage = {} /\ pc = "select" /\ pass.idx = 0
      /\ ledger = [a \in Accounts |-> EmptyEntry]
  BY DEF Init, NewPass
<1>2. UsageInv /\ AskingInv
  BY <1>1 DEF UsageInv, AskingInv, Asking
<1>3. ResetInv /\ KeyMarkedInv
  BY <1>1 DEF ResetInv, KeyMarkedInv, EmptyEntry, NoKey
<1>4. HandledInv
  BY <1>1 DEF HandledInv
<1> QED
  BY <1>1, <1>2, <1>3, <1>4 DEF PromptInv

\* The best case is one of the plugin left to itself.
LEMMA PromptImpliesAuto == PromptNext => AutoNext
  BY ConstantsAssumption DEF PromptNext, AutoNext

\* An account stays handled while the pass and what is kept of it stay as they are.
LEMMA HandledKept ==
  ASSUME NEW a, Handled(a), pass'.tick = pass.tick, pass'.cfg = pass.cfg,
         ledger'[a] = ledger[a], anchored'[a] = anchored[a],
         refused'[a] = refused[a], gaveUp'[a] = gaveUp[a]
  PROVE  Handled(a)'
BY DEF Handled

----------------------------------------------------------------------------
(* The steps of the loop *)

\* The loop changes nothing but its own locals.
LEMMA LoopStepKeeps ==
  ASSUME LoopStep
  PROVE  UNCHANGED <<clock, cfg, ctxDone, ledger, worldVars, history>>
BY DEF LoopStep, Wake, Consider, CheckBackoff, CheckLedger, CheckNext, CallAnchor,
   AnchorReturned, envVars, worldVars, history

\* Going on to the next account is right once the current one is handled.
LEMMA GoingOn ==
  ASSUME ValuesOK, PromptInv, pc \in InPass, NextAccount,
         Handled(CurrentAccount), UNCHANGED <<ledger, history>>
  PROVE  AskingInv' /\ HandledInv'
<1>1. /\ pass'.tick = pass.tick /\ pass'.cfg = pass.cfg
      /\ pass'.idx = pass.idx + 1 /\ pc' \in {"consider", "select"}
  BY DEF NextAccount, NewPass
<1>2. pass.idx \in 1..Len(AccountSeq) /\ Len(AccountSeq) \in Nat
  BY CurrentValues, ConstantsAssumption, LenProperties
<1>3. ASSUME NEW i \in 1..Len(AccountSeq), i < pass'.idx
      PROVE  Handled(AccountSeq[i])'
  <2>1. i < pass.idx \/ i = pass.idx
    BY <1>1, <1>2, <1>3
  <2>2. Handled(AccountSeq[i])
    BY <2>1 DEF PromptInv, HandledInv, CurrentAccount
  <2> QED
    BY <1>1, <2>2, HandledKept DEF history
<1> QED
  BY <1>1, <1>3 DEF AskingInv, Asking, HandledInv

\* The previous anchor is one.
LEMMA OnePrevious ==
  ASSUME NEW anchors \in SUBSET Nat, NEW now \in Nat,
         NEW p \in PreviousAnchors(anchors, now),
         NEW q \in PreviousAnchors(anchors, now)
  PROVE  p = q
BY DEF PreviousAnchors

\* An account without anchors, or one that is not eligible, is handled.
LEMMA FilteredHandled ==
  ASSUME ~(CurrentAccount \in pass.cfg.eligible /\ CurrentAnchors # {})
  PROVE  Handled(CurrentAccount)
BY DEF Handled, CurrentAnchors, PreviousAnchors

\* So is one whose slot is in backoff.
LEMMA BackoffHandled ==
  ASSUME ValuesOK, pc \in InPass,
         PreviousInBackoff(ledger[CurrentAccount], CurrentAnchors,
                           pass.cfg.zone, pass.tick)
  PROVE  Handled(CurrentAccount)
<1>1. CurrentAnchors \in SUBSET Nat /\ pass.tick \in Nat
  BY CurrentValues DEF ValuesOK, PassType
<1>2. PICK p \in PreviousAnchors(CurrentAnchors, pass.tick) :
        SlotInBackoff(ledger[CurrentAccount],
                      WindowKeyFor(p, pass.cfg.zone), pass.tick)
  BY DEF PreviousInBackoff
<1>3. \A q \in PreviousAnchors(CurrentAnchors, pass.tick) : q = p
  BY <1>1, OnePrevious
<1> QED
  BY <1>2, <1>3 DEF Handled, CurrentAnchors

\* So is one whose previous anchor is not due: its slot is too old, was anchored,
\* or waits for its window to close.
LEMMA NothingDueHandled ==
  ASSUME ValuesOK, PromptInv, pc = "ledger",
         CatchUpSlots(pass.cfg, CurrentAnchors, ledger[CurrentAccount],
                      pass.reset, pass.tick) = {}
  PROVE  Handled(CurrentAccount)
<1> DEFINE a == CurrentAccount
           e == ledger[a]
<1>1. /\ a \in Accounts /\ e \in Entry
      /\ CurrentAnchors \in SUBSET Nat /\ pass.cfg \in Config
      /\ pass.tick \in Nat /\ pass.reset \in Nat
  BY CurrentValues DEF ValuesOK, PassType, InPass
<1>2. e.resetsAt = pass.reset
  BY DEF PromptInv, AskingInv, Asking
<1>3. SUFFICES ASSUME NEW p \in PreviousAnchors(CurrentAnchors, pass.tick),
                      pass.tick - p <= pass.cfg.catchUp
               PROVE  \/ \E i \in DOMAIN anchored[a] : anchored[a][i] = p
                      \/ e.resetsAt > pass.tick
  BY DEF Handled, CurrentAnchors
<1>4. CASE e.lastKey = WindowKeyFor(p, pass.cfg.zone)
  BY <1>1, <1>4 DEF PromptInv, KeyMarkedInv, WindowKeyFor
<1>5. CASE e.lastKey # WindowKeyFor(p, pass.cfg.zone)
  <2>1. ~CatchUpDue(pass.tick, p, pass.cfg.catchUp, pass.reset)
    BY <1>3, <1>5 DEF CatchUpSlots
  <2> QED
    BY <1>1, <1>2, <1>3, <2>1 DEF CatchUpDue
<1> QED
  BY <1>4, <1>5

\* The steps of the loop keep the invariant, with every record delivered.
LEMMA LoopPromptInv ==
  ASSUME ValuesOK, PromptInv, LoopStep, usage = {}
  PROVE  PromptInv'
<1> USE DEF envVars, InPass
<1>1. UNCHANGED <<clock, cfg, ctxDone, ledger, worldVars, history>>
  BY LoopStepKeeps
<1>2. ctxDone' = FALSE /\ UsageInv' /\ ResetInv' /\ KeyMarkedInv'
  BY <1>1 DEF PromptInv, UsageInv, ResetInv, KeyMarkedInv, worldVars, history
<1>3. ASSUME NEW a, Handled(a), pass'.tick = pass.tick, pass'.cfg = pass.cfg
      PROVE  Handled(a)'
  BY <1>1, <1>3, HandledKept DEF history
<1>4. ASSUME pass'.tick = pass.tick, pass'.cfg = pass.cfg, pass'.idx = pass.idx,
             pc' # "next", pc' = "anchor" => task'[Loop] # NoTask
      PROVE  HandledInv'
  BY <1>3, <1>4 DEF PromptInv, HandledInv
<1>5. AskingInv' /\ HandledInv'
  <2>1. CASE Wake
    <3>1. pc' \in {"consider", "select"} /\ pass'.idx \in {0, 1}
      BY <2>1 DEF Wake, NewPass
    <3>2. \A i \in 1..Len(AccountSeq) : ~(i < pass'.idx)
      BY <3>1
    <3> QED
      BY <3>1, <3>2 DEF AskingInv, Asking, HandledInv
  <2>2. CASE Consider
    <3>1. CASE CurrentAccount \in pass.cfg.eligible /\ CurrentAnchors # {}
      <4>1. /\ pass' = [pass EXCEPT !.reset = ledger[CurrentAccount].resetsAt]
            /\ pc' = "backoff"
        BY <2>2, <3>1 DEF Consider
      <4>2. /\ pass'.tick = pass.tick /\ pass'.cfg = pass.cfg /\ pass'.idx = pass.idx
            /\ pass'.reset = ledger[CurrentAccount].resetsAt
        BY <4>1 DEF ValuesOK, PassType
      <4> QED
        BY <1>1, <1>4, <4>1, <4>2 DEF AskingInv, Asking, CurrentAccount
    <3>2. CASE ~(CurrentAccount \in pass.cfg.eligible /\ CurrentAnchors # {})
      <4>1. NextAccount /\ pc = "consider"
        BY <2>2, <3>2 DEF Consider
      <4> QED
        BY <1>1, <3>2, <4>1, FilteredHandled, GoingOn DEF history
    <3> QED
      BY <3>1, <3>2
  <2>3. CASE CheckBackoff
    <3> DEFINE waits == PreviousInBackoff(ledger[CurrentAccount], CurrentAnchors,
                                          pass.cfg.zone, pass.tick)
    <3>1. CASE waits
      <4>1. NextAccount /\ pc = "backoff"
        BY <2>3, <3>1 DEF CheckBackoff
      <4> QED
        BY <1>1, <3>1, <4>1, BackoffHandled, GoingOn DEF history
    <3>2. CASE ~waits
      <4>1. pc' = "ledger" /\ pc = "backoff" /\ pass' = pass
        BY <2>3, <3>2 DEF CheckBackoff
      <4> QED
        BY <1>1, <1>4, <4>1 DEF PromptInv, AskingInv, Asking, CurrentAccount
    <3> QED
      BY <3>1, <3>2
  <2>4. CASE CheckLedger \/ CheckNext
    <3>1. CASE SlotChosen
      <4>1. /\ pc' = "stagger" /\ pass'.reset = pass.reset /\ pass'.idx = pass.idx
            /\ pass'.tick = pass.tick /\ pass'.cfg = pass.cfg
            /\ pass.reset <= pass.tick
        BY <3>1 DEF SlotChosen
      <4>2. ledger[CurrentAccount].resetsAt = pass.reset
        BY <2>4 DEF CheckLedger, CheckNext, PromptInv, AskingInv, Asking
      <4> QED
        BY <1>1, <1>4, <4>1, <4>2 DEF AskingInv, Asking, CurrentAccount
    <3>2. CASE pc = "ledger" /\ pc' = "next" /\ pass' = pass
      <4>1. CatchUpSlots(pass.cfg, CurrentAnchors, ledger[CurrentAccount],
                         pass.reset, pass.tick) = {}
        BY <2>4, <3>2 DEF CheckLedger, CheckNext, ChooseSlot
      <4>2. Handled(CurrentAccount)
        BY <3>2, <4>1, NothingDueHandled
      <4>3. Handled(CurrentAccount)' /\ \A i \in 1..Len(AccountSeq) :
              i < pass.idx => Handled(AccountSeq[i])'
        BY <1>3, <3>2, <4>2 DEF PromptInv, HandledInv, CurrentAccount
      <4> QED
        BY <1>1, <3>2, <4>3 DEF PromptInv, AskingInv, Asking, HandledInv, CurrentAccount
    <3>3. CASE pc = "next" /\ NextAccount
      <4>1. Handled(CurrentAccount)
        BY <3>3 DEF PromptInv, HandledInv
      <4> QED
        BY <1>1, <3>3, <4>1, GoingOn DEF history
    <3> QED
      BY <2>4, <3>1, <3>2, <3>3, DueSlotSteps
  <2>5. CASE CallAnchor
    <3>1. pass' = pass /\ pc = "stagger" /\ pc' = "anchor"
      BY <2>5 DEF CallAnchor
    <3>2. task'[Loop] = NewTask(CurrentAccount, pass.slot, pass.cfg.dryRun)
      BY <2>5 DEF CallAnchor, ValuesOK, Callers
    <3>3. task'[Loop] # NoTask
      BY <3>2 DEF NewTask, NoTask
    <3> QED
      BY <1>1, <1>4, <3>1, <3>3 DEF PromptInv, AskingInv, Asking, CurrentAccount
  <2>6. CASE AnchorReturned
    <3>1. NextAccount /\ pc = "anchor" /\ task[Loop] = NoTask
      BY <2>6 DEF AnchorReturned
    <3>2. Handled(CurrentAccount)
      BY <3>1 DEF PromptInv, HandledInv
    <3> QED
      BY <1>1, <3>1, <3>2, GoingOn DEF history
  <2> QED
    BY <2>1, <2>2, <2>3, <2>4, <2>5, <2>6 DEF LoopStep
<1> QED
  BY <1>2, <1>5 DEF PromptInv

----------------------------------------------------------------------------
(* The steps of anchorAccount *)

\* Writing a request's outcome down changes one account's entry, and of that
\* neither the reset nor, unless the slot is marked, the key.
LEMMA OutcomeEntry ==
  ASSUME NEW e \in Entry, NEW key \in Key, NEW t \in Nat
  PROVE  /\ MarkAnchored(e, key).resetsAt = e.resetsAt
         /\ MarkAnchored(e, key).lastKey = key
         /\ RecordAnchorFailure(e, key, t).resetsAt = e.resetsAt
         /\ RecordAnchorFailure(e, key, t).lastKey = e.lastKey
         /\ SetAnchorTerminalFailure(e).resetsAt = e.resetsAt
         /\ SetAnchorTerminalFailure(e).lastKey = e.lastKey
BY DEF MarkAnchored, RecordAnchorFailure, SetAnchorTerminalFailure, Entry

\* A failure that is not the last puts the slot off beyond now.
LEMMA FailureBacksOff ==
  ASSUME NEW e \in Entry, NEW key \in Key, NEW t \in Nat, NEW now \in Nat,
         now <= t, ~LastRetry(e)
  PROVE  SlotInBackoff(RecordAnchorFailure(e, key, t), key, now)
<1> DEFINE n == e.retryCount + 1
           at == t + Backoff(n)
<1>1. n \in 1..MaxRetries
  BY RetryAssumption DEF LastRetry, Entry
<1>2. Backoff(n) \in Nat \ {0}
  BY <1>1, BackoffAssumption
<1>3. at > now
  BY <1>2
<1>4. RecordAnchorFailure(e, key, t) =
        [e EXCEPT !.retryCount = n, !.retrySlot = key, !.nextRetryAt = at]
  BY DEF RecordAnchorFailure
<1> HIDE DEF n, at
<1> QED
  BY <1>3, <1>4 DEF SlotInBackoff, Entry

\* The loop's running call of anchorAccount is for the only slot of its account
\* that a pass could leave behind.
LEMMA TaskSlot ==
  ASSUME TypeOK, ChoiceInv, task[Loop] # NoTask
  PROVE  LET t == task[Loop] IN
         /\ pc = "anchor" /\ t.acct = CurrentAccount /\ t \in Task
         /\ t.acct \in Accounts /\ t.key \in Key
         /\ ledger[t.acct] \in Entry /\ anchored[t.acct] \in Seq(Nat)
         /\ t.key.at \in Nat /\ t.key = WindowKeyFor(t.key.at, pass.cfg.zone)
         /\ \A p \in PreviousAnchors(pass.cfg.anchors[t.acct], pass.tick) :
              p = t.key.at
<1> DEFINE t == task[Loop]
<1>1. pc = "anchor" /\ t.acct = CurrentAccount /\ t.key = pass.slot.key
  BY DEF ChoiceInv, TaskInv
<1>2. t \in Task
  BY DEF TypeOK, ValuesOK, Callers
<1>3. /\ t.acct \in Accounts /\ CurrentAnchors \in SUBSET Nat
      /\ ledger[t.acct] \in Entry /\ pass.tick \in Nat
  BY <1>1, CurrentTypes DEF TypeOK, ValuesOK, PassType
<1>4. t.key \in Key /\ t.key.at \in Nat /\ anchored[t.acct] \in Seq(Nat)
  BY <1>2, <1>3 DEF Task, Key, TypeOK, ValuesOK
<1>5. /\ t.key.at \in PreviousAnchors(CurrentAnchors, pass.tick)
      /\ t.key = WindowKeyFor(t.key.at, pass.cfg.zone)
  BY <1>1 DEF ChoiceInv, ChosenInv
<1>6. \A p \in PreviousAnchors(CurrentAnchors, pass.tick) : p = t.key.at
  BY <1>3, <1>5, OnePrevious
<1> QED
  BY <1>1, <1>2, <1>3, <1>4, <1>5, <1>6 DEF CurrentAnchors

\* The loop's call of anchorAccount ends, and has handled its account.
Returns ==
  /\ Finish(Loop) /\ task[Loop] # NoTask
  /\ UNCHANGED <<envVars, loopVars, worldVars>>
  /\ \E a \in Accounts :
       /\ a = task[Loop].acct
       /\ \A b \in Accounts \ {a} :
            /\ ledger'[b] = ledger[b] /\ anchored'[b] = anchored[b]
            /\ refused'[b] = refused[b] /\ gaveUp'[b] = gaveUp[b]
       /\ ledger'[a].resetsAt = ledger[a].resetsAt
       /\ ledger'[a].lastKey.kind = "slot" =>
            \E i \in DOMAIN anchored'[a] : anchored'[a][i] = ledger'[a].lastKey.at
       /\ Handled(a)'

\* A call that returns keeps the invariant.
LEMMA ReturnsPromptInv ==
  ASSUME TypeOK, ChoiceInv, PromptInv, Returns
  PROVE  PromptInv'
<1> USE DEF envVars, loopVars, worldVars
<1>0. PICK a \in Accounts :
        /\ a = task[Loop].acct
        /\ \A b \in Accounts \ {a} :
             /\ ledger'[b] = ledger[b] /\ anchored'[b] = anchored[b]
             /\ refused'[b] = refused[b] /\ gaveUp'[b] = gaveUp[b]
        /\ ledger'[a].resetsAt = ledger[a].resetsAt
        /\ ledger'[a].lastKey.kind = "slot" =>
             \E i \in DOMAIN anchored'[a] : anchored'[a][i] = ledger'[a].lastKey.at
        /\ Handled(a)'
  BY DEF Returns
<1>1. /\ pc = "anchor" /\ a = CurrentAccount
      /\ pass' = pass /\ pc' = pc /\ clock' = clock /\ ctxDone' = ctxDone
      /\ usage' = usage /\ window' = window
  BY <1>0, TaskSlot DEF Returns
<1>2. task'[Loop] = NoTask /\ task'[Loop].pc = "idle"
  BY DEF Returns, Finish, TypeOK, ValuesOK, Callers, NoTask
<1>3. UsageInv'
  BY <1>1, <1>2 DEF PromptInv, UsageInv
<1>4. ResetInv'
  <2>1. ASSUME NEW b \in Accounts PROVE ledger'[b].resetsAt = ledger[b].resetsAt
    BY <1>0
  <2> QED
    BY <1>1, <2>1 DEF PromptInv, ResetInv
<1>5. AskingInv'
  BY <1>1, <1>2 DEF AskingInv, Asking
<1>6. KeyMarkedInv'
  BY <1>0 DEF PromptInv, KeyMarkedInv
<1>7. ASSUME NEW b \in Accounts, b = a \/ Handled(b) PROVE Handled(b)'
  <2>1. CASE b = a
    BY <1>0, <2>1
  <2>2. CASE b # a
    BY <1>0, <1>1, <1>7, <2>2, HandledKept
  <2> QED
    BY <2>1, <2>2
<1>8. \A i \in 1..Len(AccountSeq) : AccountSeq[i] \in Accounts
  BY ConstantsAssumption, ElementOfSeq
<1>9. HandledInv'
  BY <1>1, <1>7, <1>8 DEF PromptInv, HandledInv, CurrentAccount
<1> QED
  BY <1>1, <1>3, <1>4, <1>5, <1>6, <1>9 DEF PromptInv

\* A call that ends with the slot marked returns.
LEMMA MarkReturns ==
  ASSUME TypeOK, ChoiceInv, PromptInv, task[Loop] # NoTask,
         MarkTask(task[Loop]), Finish(Loop),
         UNCHANGED <<envVars, loopVars, worldVars>>
  PROVE  Returns
<1>0. PICK t \in Task, a \in Accounts, s \in Nat :
        t = task[Loop] /\ a = t.acct /\ s = t.key.at
  BY TaskSlot
<1>1. /\ t.key \in Key /\ ledger[a] \in Entry
      /\ anchored[a] \in Seq(Nat)
      /\ t.key = WindowKeyFor(s, pass.cfg.zone)
      /\ \A p \in PreviousAnchors(pass.cfg.anchors[a], pass.tick) : p = s
  BY <1>0, TaskSlot
<1>2. /\ ledger' = [ledger EXCEPT ![a] = MarkAnchored(ledger[a], t.key)]
      /\ anchored' = [anchored EXCEPT ![a] = Append(@, s)]
      /\ UNCHANGED <<refused, gaveUp>>
  BY <1>0, <1>1 DEF MarkTask, SetEntry, WindowKeyFor
<1>3. /\ ledger'[a] = MarkAnchored(ledger[a], t.key)
      /\ anchored'[a] = Append(anchored[a], s)
      /\ \A b \in Accounts \ {a} : ledger'[b] = ledger[b] /\ anchored'[b] = anchored[b]
  BY <1>1, <1>2 DEF TypeOK, ValuesOK
<1>4. \E i \in DOMAIN anchored'[a] : anchored'[a][i] = s
  <2>1. /\ Len(anchored[a]) + 1 \in DOMAIN anchored'[a]
        /\ anchored'[a][Len(anchored[a]) + 1] = s
    BY <1>1, <1>3, AppendProperties, LenProperties
  <2> QED
    BY <2>1
<1>5. /\ ledger'[a].resetsAt = ledger[a].resetsAt
      /\ ledger'[a].lastKey = t.key
  BY <1>1, <1>3 DEF MarkAnchored, Entry
<1>6. Handled(a)'
  BY <1>1, <1>4 DEF Handled, loopVars
<1>7. \A b \in Accounts \ {a} : refused'[b] = refused[b] /\ gaveUp'[b] = gaveUp[b]
  BY <1>2
<1>8. \E i \in DOMAIN anchored'[a] : anchored'[a][i] = ledger'[a].lastKey.at
  BY <1>0, <1>4, <1>5
<1> QED
  BY <1>0, <1>3, <1>5, <1>6, <1>7, <1>8 DEF Returns

\* So does one that ends with a failure, and the slot is refused, given up or in
\* backoff.
LEMMA FailureReturns ==
  ASSUME TypeOK, ChoiceInv, PromptInv, AnchorRefused(Loop) \/ AnchorFailed(Loop)
  PROVE  Returns
<1>1. task[Loop] # NoTask
  BY DEF AnchorRefused, AnchorFailed, NoTask
<1>0. PICK t \in Task, a \in Accounts, s \in Nat, e \in Entry :
        t = task[Loop] /\ a = t.acct /\ s = t.key.at /\ e = ledger[a]
  BY <1>1, TaskSlot
<1>2. /\ t.key \in Key
      /\ t.key = WindowKeyFor(s, pass.cfg.zone) /\ t.key.kind = "slot"
      /\ \A p \in PreviousAnchors(pass.cfg.anchors[a], pass.tick) : p = s
  BY <1>0, <1>1, TaskSlot DEF WindowKeyFor
<1>3. clock \in Nat /\ pass.tick \in Nat /\ pass.tick <= clock
  BY DEF TypeOK, ValuesOK, PassType, ChoiceInv, TimeInv
<1>4. Finish(Loop) /\ UNCHANGED <<envVars, loopVars, worldVars, anchored>>
  BY DEF AnchorRefused, AnchorFailed
<1>5. PICK new \in {SetAnchorTerminalFailure(e),
                    RecordAnchorFailure(e, t.key, clock)} :
        ledger' = [ledger EXCEPT ![a] = new]
  BY <1>0 DEF AnchorRefused, AnchorFailed, SetEntry
<1>6. new.resetsAt = e.resetsAt /\ new.lastKey = e.lastKey
  BY <1>2, <1>3, <1>5, OutcomeEntry
<1>7. ledger'[a] = new /\ \A b \in Accounts \ {a} : ledger'[b] = ledger[b]
  BY <1>5 DEF TypeOK, ValuesOK
<1>8. \A b \in Accounts \ {a} : refused'[b] = refused[b] /\ gaveUp'[b] = gaveUp[b]
  BY <1>0 DEF AnchorRefused, AnchorFailed, Remember, TypeOK, ValuesOK
<1>9. \/ s \in refused'[a] \union gaveUp'[a]
      \/ SlotInBackoff(ledger'[a], t.key, pass.tick)
  <2>1. CASE AnchorRefused(Loop)
    BY <1>0, <1>2, <2>1 DEF AnchorRefused, Remember, TypeOK, ValuesOK
  <2>2. CASE AnchorFailed(Loop) /\ LastRetry(e)
    BY <1>0, <1>2, <2>2 DEF AnchorFailed, Remember, TypeOK, ValuesOK
  <2>3. CASE AnchorFailed(Loop) /\ ~LastRetry(e)
    <3>1. ledger'[a] = RecordAnchorFailure(e, t.key, clock)
      BY <1>0, <1>2, <2>3 DEF AnchorFailed, SetEntry, TypeOK, ValuesOK
    <3> QED
      BY <1>2, <1>3, <2>3, <3>1, FailureBacksOff
  <2> QED
    BY <2>1, <2>2, <2>3
<1>10. Handled(a)'
  BY <1>2, <1>4, <1>9 DEF Handled, loopVars
<1>11. e.lastKey.kind = "slot" =>
         \E i \in DOMAIN anchored[a] : anchored[a][i] = e.lastKey.at
  BY <1>0 DEF PromptInv, KeyMarkedInv
<1> QED
  BY <1>0, <1>1, <1>4, <1>6, <1>7, <1>8, <1>10, <1>11 DEF Returns

\* A request on its way touches nothing that the invariant tells of the account.
LEMMA SendPromptInv ==
  ASSUME TypeOK, ChoiceInv, PromptInv, SendAnchor(Loop)
  PROVE  PromptInv'
<1> USE DEF envVars, loopVars, worldVars, history
<1>1. /\ pc = "anchor" /\ pass' = pass /\ pc' = pc /\ clock' = clock
      /\ ctxDone' = ctxDone
      /\ UNCHANGED <<ledger, window, usage, anchored, refused, gaveUp>>
  BY TaskSlot DEF SendAnchor, MayFire, NoTask
<1>2. task[Loop].pc = "begin" /\ task'[Loop].pc = "sent" /\ task'[Loop] # NoTask
  BY TaskSlot DEF SendAnchor, MayFire, NoTask, TypeOK, ValuesOK, Callers, Task
<1>3. usage = {}
  BY <1>1, <1>2 DEF PromptInv, UsageInv
<1>4. UsageInv' /\ ResetInv' /\ KeyMarkedInv'
  BY <1>1, <1>3 DEF PromptInv, UsageInv, ResetInv, KeyMarkedInv
<1>5. AskingInv'
  BY <1>1, <1>2 DEF PromptInv, AskingInv, Asking, CurrentAccount
<1>6. \A a : Handled(a) => Handled(a)'
  BY <1>1, HandledKept
<1>7. HandledInv'
  BY <1>1, <1>2, <1>6 DEF PromptInv, HandledInv
<1> QED
  BY <1>1, <1>4, <1>5, <1>7 DEF PromptInv

\* A request that the provider serves leaves a record of the window it found or
\* opened.
LEMMA ServeRequestPromptInv ==
  ASSUME TypeOK, PromptInv, NEW a \in Accounts, ServeRequest(a),
         UNCHANGED <<clock, pc, ledger>>,
         pc = "select" \/ (pc = "anchor" /\ task'[Loop].pc = "replied")
  PROVE  UsageInv' /\ ResetInv'
<1>1. PICK end \in Nat : /\ end > clock
                         /\ window[a] > clock => end = window[a]
                         /\ window' = [window EXCEPT ![a] = end]
                         /\ usage' = usage \union {[acct |-> a, reset |-> end,
                                                    at |-> clock]}
  <2> DEFINE end == IF window[a] <= clock THEN clock + WindowLen ELSE window[a]
  <2>1. end \in Nat /\ end > clock /\ (window[a] > clock => end = window[a])
    BY ConstantsAssumption DEF TypeOK, ValuesOK
  <2> QED
    BY <2>1 DEF ServeRequest
<1>2. /\ window'[a] = end
      /\ \A b \in Accounts \ {a} : window'[b] = window[b]
  BY <1>1 DEF TypeOK, ValuesOK
<1>3. ASSUME NEW u \in usage'
      PROVE  u.reset = window'[u.acct] /\ u.reset > clock
  <2>1. CASE u \in usage
    <3>1. u.acct \in Accounts /\ u.reset = window[u.acct] /\ u.reset > clock
      BY <2>1 DEF TypeOK, ValuesOK, Usage, PromptInv, UsageInv
    <3>2. window'[u.acct] = window[u.acct]
      BY <1>1, <1>2, <3>1
    <3> QED
      BY <3>1, <3>2
  <2>2. CASE u \notin usage
    BY <1>1, <1>2, <2>2
  <2> QED
    BY <2>1, <2>2
<1>4. ResetInv'
  <2> SUFFICES ASSUME NEW b \in Accounts
               PROVE  \/ ledger[b].resetsAt \in {0, window'[b]}
                      \/ \E u \in usage' : u.acct = b
    BY DEF ResetInv
  <2>1. CASE b = a
    <3> DEFINE v == [acct |-> a, reset |-> end, at |-> clock]
    <3>1. v \in usage' /\ v.acct = a
      BY <1>1
    <3> QED
      BY <2>1, <3>1
  <2>2. CASE b # a
    BY <1>1, <1>2, <2>2 DEF PromptInv, ResetInv
  <2> QED
    BY <2>1, <2>2
<1> QED
  BY <1>3, <1>4 DEF UsageInv

\* The provider's reply keeps the invariant.
LEMMA ServePromptInv ==
  ASSUME TypeOK, ChoiceInv, PromptInv, Serve(Loop)
  PROVE  PromptInv'
<1> USE DEF envVars, loopVars, worldVars, history
<1>1. task[Loop].pc = "sent" /\ task[Loop] # NoTask
  BY DEF Serve, NoTask
<1>2. /\ pc = "anchor" /\ pass' = pass /\ pc' = pc /\ clock' = clock
      /\ ctxDone' = ctxDone
      /\ UNCHANGED <<ledger, anchored, refused, gaveUp>>
  BY <1>1, TaskSlot DEF Serve
<1>3. PICK r \in Outcomes :
        /\ task' = [task EXCEPT ![Loop].pc = "replied", ![Loop].reply = r]
        /\ IF r.served THEN ServeRequest(task[Loop].acct)
                       ELSE UNCHANGED <<window, usage>>
  BY DEF Serve
<1>4. task'[Loop].pc = "replied" /\ task'[Loop] # NoTask
  BY <1>1, <1>3, TaskSlot DEF NoTask, TypeOK, ValuesOK, Callers, Task
<1>5. UsageInv' /\ ResetInv'
  <2>1. CASE r.served
    BY <1>1, <1>2, <1>3, <1>4, <2>1, ServeRequestPromptInv, TaskSlot
  <2>2. CASE ~r.served
    BY <1>2, <1>3, <1>4, <2>2 DEF PromptInv, UsageInv, ResetInv
  <2> QED
    BY <2>1, <2>2
<1>6. AskingInv' /\ KeyMarkedInv'
  BY <1>2, <1>4 DEF PromptInv, AskingInv, Asking, KeyMarkedInv
<1>7. \A a : Handled(a) => Handled(a)'
  BY <1>2, HandledKept
<1>8. HandledInv'
  BY <1>2, <1>4, <1>7 DEF PromptInv, HandledInv
<1> QED
  BY <1>2, <1>5, <1>6, <1>8 DEF PromptInv

\* Every step of anchorAccount keeps the invariant; none is cut short, as the
\* context is not cancelled.
LEMMA AnchorPromptInv ==
  ASSUME TypeOK, ChoiceInv, PromptInv, AnchorStep(Loop)
  PROVE  PromptInv'
<1>1. ~AbortAnchor(Loop)
  BY DEF AbortAnchor, Cancelled, PromptInv
<1>2. CASE DryRunAnchor(Loop) \/ AnchorSucceeded(Loop)
  BY <1>2, MarkReturns, ReturnsPromptInv
     DEF DryRunAnchor, MayFire, AnchorSucceeded, NoTask
<1>3. CASE AnchorRefused(Loop) \/ AnchorFailed(Loop)
  BY <1>3, FailureReturns, ReturnsPromptInv
<1>4. CASE SendAnchor(Loop)
  BY <1>4, SendPromptInv
<1> QED
  BY <1>1, <1>2, <1>3, <1>4 DEF AnchorStep

----------------------------------------------------------------------------
(* The sensor and the world *)

\* The sensor corrects what the ledger knows, between passes or between two
\* accounts, and a window that is open now is one that the pass need not open.
LEMMA UsagePromptInv ==
  ASSUME TypeOK, ChoiceInv, PromptInv, HandleUsage
  PROVE  PromptInv'
<1> USE DEF envVars, loopVars, history
<1>1. PICK u \in usage :
        /\ usage' = usage \ {u}
        /\ ledger' = [ledger EXCEPT ![u.acct] = ObserveReset(ledger[u.acct], u.reset)]
        /\ UNCHANGED <<envVars, loopVars, task, window, history>>
  BY DEF HandleUsage, SetEntry
<1>2. PICK a \in Accounts : a = u.acct
  BY DEF TypeOK, ValuesOK, Usage
<1>3. /\ pc = "select" \/ (pc = "anchor" /\ task[Loop].pc \in {"idle", "replied"})
      /\ u.reset = window[a] /\ u.reset > clock
  BY <1>2 DEF PromptInv, UsageInv
<1>4. ledger'[a] = ObserveReset(ledger[a], u.reset) /\ ledger[a] \in Entry
  BY <1>1, <1>2 DEF TypeOK, ValuesOK
<1>5. /\ ledger'[a].resetsAt = u.reset
      /\ ledger'[a].lastKey = ledger[a].lastKey
  BY <1>4 DEF ObserveReset, Entry
<1>6. \A b \in Accounts \ {a} : ledger'[b] = ledger[b]
  BY <1>1, <1>2 DEF TypeOK, ValuesOK
<1>7. UsageInv'
  BY <1>1 DEF PromptInv, UsageInv
<1>8. ResetInv'
  <2> SUFFICES ASSUME NEW b \in Accounts
               PROVE  \/ ledger'[b].resetsAt \in {0, window[b]}
                      \/ \E v \in usage' : v.acct = b
    BY <1>1 DEF ResetInv
  <2>1. CASE b = a
    BY <1>3, <1>5, <2>1
  <2>2. CASE b # a
    BY <1>1, <1>2, <1>6, <2>2 DEF PromptInv, ResetInv
  <2> QED
    BY <2>1, <2>2
<1>9. AskingInv'
  BY <1>1, <1>3 DEF AskingInv, Asking
<1>10. KeyMarkedInv'
  BY <1>1, <1>5, <1>6 DEF PromptInv, KeyMarkedInv
<1>11. ledger'[a].resetsAt > pass.tick
  BY <1>1, <1>3, <1>5 DEF TypeOK, ValuesOK, PassType, Usage, ChoiceInv, TimeInv
<1>12. ASSUME NEW b \in Accounts, Handled(b) PROVE Handled(b)'
  <2>1. CASE b = a
    BY <1>1, <1>11, <2>1 DEF Handled
  <2>2. CASE b # a
    BY <1>1, <1>6, <1>12, <2>2, HandledKept
  <2> QED
    BY <2>1, <2>2
<1>13. HandledInv'
  <2>1. \A i \in 1..Len(AccountSeq) : AccountSeq[i] \in Accounts
    BY ConstantsAssumption, ElementOfSeq
  <2>2. pc = "anchor" => CurrentAccount \in Accounts
    BY CurrentTypes
  <2> QED
    BY <1>1, <1>3, <1>12, <2>1, <2>2 DEF PromptInv, HandledInv, CurrentAccount
<1> QED
  BY <1>1, <1>7, <1>8, <1>9, <1>10, <1>13 DEF PromptInv

\* The user's traffic between two passes keeps the invariant.
LEMMA OrganicPromptInv ==
  ASSUME TypeOK, PromptInv, Settled, NEW a \in Accounts, Organic(a)
  PROVE  PromptInv'
<1> USE DEF envVars, loopVars, history
<1>1. /\ pc = "select"
      /\ UNCHANGED <<clock, ctxDone, pc, pass, task, ledger, anchored, refused, gaveUp>>
  BY DEF Settled, Organic
<1>2. UsageInv' /\ ResetInv'
  BY <1>1, ServeRequestPromptInv DEF Organic
<1>3. AskingInv' /\ KeyMarkedInv'
  BY <1>1 DEF PromptInv, AskingInv, Asking, KeyMarkedInv
<1>4. \A b : Handled(b) => Handled(b)'
  BY <1>1, HandledKept
<1>5. HandledInv'
  BY <1>1, <1>4 DEF PromptInv, HandledInv
<1> QED
  BY <1>1, <1>2, <1>3, <1>5 DEF PromptInv

\* Time passes with every record delivered.
LEMMA AdvancePromptInv ==
  ASSUME PromptInv, usage = {}, Advance(1)
  PROVE  PromptInv'
<1> USE DEF envVars, loopVars, worldVars, history
<1>1. UNCHANGED <<ctxDone, pc, pass, task, ledger, window, usage, anchored,
                  refused, gaveUp>>
  BY DEF Advance
<1>2. UsageInv' /\ ResetInv' /\ AskingInv' /\ KeyMarkedInv'
  BY <1>1 DEF PromptInv, UsageInv, ResetInv, AskingInv, Asking, KeyMarkedInv,
     CurrentAccount
<1>3. \A b : Handled(b) => Handled(b)'
  BY <1>1, HandledKept
<1>4. HandledInv'
  BY <1>1, <1>3 DEF PromptInv, HandledInv, CurrentAccount
<1> QED
  BY <1>1, <1>2, <1>4 DEF PromptInv

----------------------------------------------------------------------------
(* The theorems *)

\* Every step of the best case keeps the invariant.
LEMMA NextPromptInv ==
  ASSUME TypeOK, ChoiceInv, PromptInv, [PromptNext]_vars
  PROVE  PromptInv'
<1>1. ValuesOK
  BY TypeValues
<1>2. CASE usage = {} /\ LoopStep
  BY <1>1, <1>2, LoopPromptInv
<1>3. CASE AnchorStep(Loop)
  BY <1>3, AnchorPromptInv
<1>4. CASE Serve(Loop)
  BY <1>4, ServePromptInv
<1>5. CASE HandleUsage
  BY <1>5, UsagePromptInv
<1>6. ASSUME NEW a \in Accounts, Settled, Organic(a) PROVE PromptInv'
  BY <1>6, OrganicPromptInv
<1>7. CASE usage = {} /\ Advance(1)
  BY <1>7, AdvancePromptInv
<1>8. CASE UNCHANGED vars
  <2>1. UNCHANGED <<clock, ctxDone, pc, pass, task, ledger, window, usage, anchored,
                    refused, gaveUp>>
    BY <1>8 DEF vars, envVars, loopVars, worldVars, history
  <2>2. \A b : Handled(b) => Handled(b)'
    BY <2>1, HandledKept
  <2>3. HandledInv'
    BY <2>1, <2>2 DEF PromptInv, HandledInv, CurrentAccount
  <2>4. UsageInv' /\ ResetInv' /\ AskingInv' /\ KeyMarkedInv'
    BY <2>1 DEF PromptInv, UsageInv, ResetInv, AskingInv, Asking, KeyMarkedInv,
       CurrentAccount
  <2> QED
    BY <2>1, <2>3, <2>4 DEF PromptInv
<1> QED
  BY <1>2, <1>3, <1>4, <1>5, <1>6, <1>7, <1>8 DEF PromptNext

\* The invariant holds in every state of the best case.
LEMMA PromptInvariant == PromptSpec => [](TypeOK /\ ChoiceInv /\ PromptInv)
<1>1. PromptSpec => AutoSpec
  <2>1. [PromptNext]_vars => [AutoNext]_vars
    BY PromptImpliesAuto
  <2> QED
    BY <2>1, PTL DEF PromptSpec, AutoSpec
<1>2. AutoSpec => [](TypeOK /\ ChoiceInv)
  BY AutoImpliesSpec, ChoiceInvariant, PTL
<1>3. Init => PromptInv
  BY InitPromptInv
<1>4. TypeOK /\ ChoiceInv /\ PromptInv /\ [PromptNext]_vars => PromptInv'
  BY NextPromptInv
<1> QED
  BY <1>1, <1>2, <1>3, <1>4, PTL DEF PromptSpec

\* On an awake machine whose sensor delivers before the loop reads, no request of
\* the loop is spent on a window that the plugin could know to be open: also the
\* retry of a request whose response was lost waits for the window to close.
THEOREM AnchorOpensWindowCorrect == PromptSpec => AnchorOpensWindow
<1>1. TypeOK /\ ChoiceInv /\ PromptInv =>
        (Serve(Loop) /\ task'[Loop].reply.served =>
           LET a == task[Loop].acct IN
           ledger[a].resetsAt # 0 => window[a] <= clock)
  <2> SUFFICES ASSUME TypeOK, ChoiceInv, PromptInv, Serve(Loop),
                      ledger[task[Loop].acct].resetsAt # 0
               PROVE  window[task[Loop].acct] <= clock
    OBVIOUS
  <2> DEFINE a == task[Loop].acct
  <2>1. task[Loop].pc = "sent" /\ task[Loop] # NoTask
    BY DEF Serve, NoTask
  <2>2. pc = "anchor" /\ a = CurrentAccount /\ a \in Accounts
    BY <2>1, TaskSlot
  <2>3. usage = {}
    BY <2>1, <2>2 DEF PromptInv, UsageInv
  <2>4. ledger[a].resetsAt = window[a]
    BY <2>2, <2>3 DEF PromptInv, ResetInv
  <2>5. ledger[a].resetsAt = pass.reset /\ pass.reset <= pass.tick
    BY <2>1, <2>2 DEF PromptInv, AskingInv, Asking
  <2> QED
    BY <2>2, <2>4, <2>5 DEF TypeOK, ValuesOK, PassType, ChoiceInv, TimeInv
<1>2. TypeOK /\ ChoiceInv /\ PromptInv /\ [PromptNext]_vars =>
        [Serve(Loop) /\ task'[Loop].reply.served =>
           LET a == task[Loop].acct IN
           ledger[a].resetsAt # 0 => window[a] <= clock]_vars
  BY <1>1
<1> QED
  BY <1>2, PromptInvariant, PTL DEF PromptSpec, AnchorOpensWindow

\* evaluate ranges over the accounts that the host lists and filters them, so an
\* account is eligible only if it is listed.
AllListed ==
  \A c \in Configs : c.eligible \subseteq {AccountSeq[i] : i \in 1..Len(AccountSeq)}

\* On such a machine no slot is dropped silently: a pass that is over has brought
\* every eligible account's current slot to one of the ends the code knows.
THEOREM PassLeavesNoSlotCorrect ==
  ASSUME AllListed
  PROVE  PromptSpec => []PassLeavesNoSlot
<1>1. ASSUME TypeOK, PromptInv PROVE PassLeavesNoSlot
  <2> SUFFICES ASSUME pass.idx > Len(AccountSeq), NEW a \in pass.cfg.eligible
               PROVE  Handled(a)
    BY DEF PassLeavesNoSlot, Handled
  <2>1. PICK i \in 1..Len(AccountSeq) : a = AccountSeq[i]
    BY <1>1 DEF TypeOK, ValuesOK, PassType, AllListed
  <2>2. Len(AccountSeq) \in Nat /\ pass.idx \in Nat
    BY <1>1, ConstantsAssumption, LenProperties DEF TypeOK, ValuesOK, PassType
  <2>3. i < pass.idx
    BY <2>1, <2>2
  <2> QED
    BY <1>1, <2>1, <2>3 DEF PromptInv, HandledInv
<1>2. TypeOK /\ ChoiceInv /\ PromptInv => PassLeavesNoSlot
  BY <1>1
<1> QED
  BY <1>2, PromptInvariant, PTL
=============================================================================
