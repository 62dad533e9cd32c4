----------------------------- MODULE AnchorLoop -----------------------------
(***************************************************************************)
(* The plugin while its background loop runs: the loop (loop.go), the      *)
(* anchor requests it and the manual trigger send (anchor.go,              *)
(* management.go), the sensor that learns window resets from the host's    *)
(* usage records (sensor_usage.go), reconfiguration and cancellation, and  *)
(* the host and the provider around them.                                  *)
(*                                                                         *)
(* Every goroutine of the program is a process here, and one of its steps  *)
(* is what it does between two points where another can get in: a channel  *)
(* operation, a wait, a host call, a lock, or a read of the entry that     *)
(* accountByID hands out unlocked.                                         *)
(***************************************************************************)
EXTENDS Ledger, Sequences

CONSTANTS
  Accounts,        \* account IDs of supported providers
  AccountSeq,      \* the order host.auth.list names them in
  Loop,            \* the background goroutine, as a caller of anchorAccount
  Managers,        \* goroutines serving POST /anchor-now
  Configs,         \* configurations the operator may store
  ListOutcomes,    \* whether host.auth.list succeeds: a subset of BOOLEAN
  Outcomes,        \* what a model request may come to
  WindowLen,       \* length of a quota window
  InitialWindow,   \* end of each account's quota window at the start
  Poll,            \* poll-interval, read once when the loop starts
  Steps,           \* by how much time may pass at once (a suspend is a big one)
  MaxTime,         \* bound: the last instant
  MaxOrganic,      \* bound: organic requests
  MaxManual        \* bound: manual triggers

Callers == {Loop} \union Managers

\* What normalize leaves of a configuration, restricted to what the loop reads:
\* eligible is providerEnabled and appliesTo, anchors is anchorsForAccount.
Config ==
  [enabled : BOOLEAN, dryRun : BOOLEAN, eligible : SUBSET Accounts,
   anchors : [Accounts -> SUBSET (Nat \ {0})], zone : Nat, grace : Nat,
   maxDeferral : Nat, catchUp : Nat, stagger : Nat]

\* served: the provider did the request.  status: what anchorAccount is told.
Reply == [served : BOOLEAN, status : {"none", "ok", "error", "refused"}]
NoReply == [served |-> FALSE, status |-> "none"]

\* A call of anchorAccount.
Task == [pc : {"begin", "sent", "replied"}, acct : Accounts, key : Key,
         fireAt : Nat, dryRun : BOOLEAN, reply : Reply]
NoTask == [pc |-> "idle"]

\* A manual trigger: its place in AccountSeq and the accounts it is for.
Job == [next : Nat \ {0}, wanted : SUBSET Accounts, dryRun : BOOLEAN]
NoJob == [next |-> 1, wanted |-> {}, dryRun |-> FALSE]

\* A usage record on its way to usage.handle; at is when it was served.
Usage == [acct : Accounts, reset : Nat, at : Nat]

ASSUME ConstantsAssumption ==
  /\ AccountSeq \in Seq(Accounts)
  /\ Loop \notin Managers
  /\ Configs \subseteq Config /\ Configs # {}
  /\ ListOutcomes \subseteq BOOLEAN
  /\ Outcomes \subseteq Reply
  /\ InitialWindow \in [Accounts -> Nat]
  /\ WindowLen \in Nat \ {0} /\ Poll \in Nat \ {0}
  /\ Steps \subseteq Nat \ {0} /\ 1 \in Steps
  /\ MaxTime \in Nat /\ MaxOrganic \in Nat /\ MaxManual \in Nat

VARIABLES
  clock,           \* time.Now()
  tickBuf,         \* the ticker's channel: a tick's time, or 0 when empty
  cfg,             \* configStore
  ctxDone,         \* the loop's context is cancelled
  pc,              \* where the loop is
  pass,            \* the locals of evaluate and dueSlot
  task,            \* per caller, its running call of anchorAccount
  job,             \* per manager, what is left of its trigger
  ledger,          \* the state ledger
  window,          \* provider: end of the account's latest quota window
  usage,           \* host: usage records not yet handed to the plugin
  organicLeft, manualLeft,         \* bounds not yet used up
  anchored,        \* history: slots marked anchored, per account, in order
  refused,         \* history: slots the provider refused (401 or 403)
  gaveUp           \* history: slots whose last retry failed

loopVars    == <<pc, pass>>
managerVars == <<job, manualLeft>>
worldVars   == <<window, usage, organicLeft>>
history     == <<anchored, refused, gaveUp>>
envVars     == <<clock, tickBuf, cfg, ctxDone>>
vars == <<envVars, loopVars, task, managerVars, ledger, worldVars, history>>

\* tick: the tick being evaluated.  cfg: the configuration evaluate loaded.
\* idx: the position in AccountSeq, beyond its end once the pass is complete.
\* reset: knownReset.  slot: what dueSlot returned.  wakeAt: end of the stagger.
NoSlot == [key |-> NoKey, fireAt |-> 0]
NewPass(t, c, i) == [tick |-> t, cfg |-> c, idx |-> i, reset |-> 0,
                     slot |-> NoSlot, wakeAt |-> 0]

Init ==
  /\ clock = 1 /\ tickBuf = 0 /\ ctxDone = FALSE
  /\ cfg \in Configs
  /\ pc = "select" /\ pass = NewPass(0, cfg, 0)
  /\ task = [c \in Callers |-> NoTask]
  /\ job = [m \in Managers |-> NoJob]
  /\ ledger = [a \in Accounts |-> EmptyEntry]
  /\ window = InitialWindow /\ usage = {}
  /\ organicLeft = MaxOrganic /\ manualLeft = MaxManual
  /\ anchored = [a \in Accounts |-> <<>>]
  /\ refused = [a \in Accounts |-> {}] /\ gaveUp = [a \in Accounts |-> {}]

----------------------------------------------------------------------------
(* The background loop *)

CurrentAccount == AccountSeq[pass.idx]
CurrentAnchors == pass.cfg.anchors[CurrentAccount]

\* Mutant: one account too far.
NextAccountPastEnd ==
  /\ pass' = NewPass(pass.tick, pass.cfg, pass.idx + 1)
  /\ pc' = IF pass.idx <= Len(AccountSeq) THEN "consider" ELSE "select"

NextAccount ==
  /\ pass' = NewPass(pass.tick, pass.cfg, pass.idx + 1)
  /\ pc' = IF pass.idx < Len(AccountSeq) THEN "consider" ELSE "select"

\* Mutant: break where return is meant, which leaves the select and not the loop.
LoopDoneBreaks ==
  /\ pc = "select" /\ ctxDone
  /\ UNCHANGED vars

\* select { case <-ctx.Done(): return }; the ticker is stopped on the way out.
LoopDone ==
  /\ pc = "select" /\ ctxDone
  /\ pc' = "exited" /\ tickBuf' = 0
  /\ UNCHANGED <<clock, cfg, ctxDone, pass, task, managerVars, ledger,
                 worldVars, history>>

\* select { case now := <-ticker.C: evaluate(ctx, now) }, up to its range loop.
\* Go picks either case when both are ready, so a cancelled loop may come here.
Wake ==
  /\ pc = "select" /\ tickBuf # 0
  /\ tickBuf' = 0
  /\ \E listed \in ListOutcomes :
       LET runs == cfg.enabled /\ listed /\ AccountSeq # <<>> IN
       /\ pc' = IF runs THEN "consider" ELSE "select"
       /\ pass' = NewPass(tickBuf, cfg, IF runs THEN 1 ELSE 0)
  /\ UNCHANGED <<clock, cfg, ctxDone, task, managerVars, ledger, worldVars,
                 history>>

\* The filters of the range loop, and dueSlot's read of ResetsAt.
Consider ==
  /\ pc = "consider"
  /\ IF CurrentAccount \in pass.cfg.eligible /\ CurrentAnchors # {}
       THEN /\ pass' = [pass EXCEPT !.reset = ledger[CurrentAccount].resetsAt]
            /\ pc' = "backoff"
       ELSE NextAccount
  /\ UNCHANGED <<envVars, task, managerVars, ledger, worldVars, history>>

\* dueSlot's reads of RetrySlot and NextRetryAt for the previous anchor.
CheckBackoff ==
  /\ pc = "backoff"
  /\ IF PreviousInBackoff(ledger[CurrentAccount], CurrentAnchors,
                          pass.cfg.zone, pass.tick)
       THEN NextAccount
       ELSE pc' = "ledger" /\ UNCHANGED pass
  /\ UNCHANGED <<envVars, task, managerVars, ledger, worldVars, history>>

\* dueSlot returns s.  The first account of the list is anchored at once, the
\* others after the stagger.
ChooseSlot(s) ==
  LET wait == IF pass.idx > 1 THEN pass.cfg.stagger ELSE 0 IN
  /\ pass' = [pass EXCEPT !.slot = s, !.wakeAt = clock + wait]
  /\ pc' = "stagger"

\* dueSlot's first read of LastAnchoredWindowKey, for the previous anchor.
CheckLedger ==
  /\ pc = "ledger"
  /\ LET due == CatchUpSlots(pass.cfg, CurrentAnchors, ledger[CurrentAccount],
                             pass.reset, pass.tick)
     IN IF due = {} THEN pc' = "next" /\ UNCHANGED pass
                    ELSE \E s \in due : ChooseSlot(s)
  /\ UNCHANGED <<envVars, task, managerVars, ledger, worldVars, history>>

\* The second read, for the next anchor, and that of its backoff.  The two are one
\* step: only the loop stores slot keys, so what differs from the key at the first
\* differs at the second.
CheckNext ==
  /\ pc = "next"
  /\ LET due == NextSlots(pass.cfg, CurrentAnchors, ledger[CurrentAccount],
                          pass.reset, pass.tick)
     IN IF due = {} THEN NextAccount ELSE \E s \in due : ChooseSlot(s)
  /\ UNCHANGED <<envVars, task, managerVars, ledger, worldVars, history>>

NewTask(a, s, dryRun) ==
  [pc |-> "begin", acct |-> a, key |-> s.key, fireAt |-> s.fireAt,
   dryRun |-> dryRun, reply |-> NoReply]

\* case <-time.After(cfg.staggerDuration), then the call of anchorAccount.
CallAnchor ==
  /\ pc = "stagger" /\ clock >= pass.wakeAt
  /\ pc' = "anchor"
  /\ task' = [task EXCEPT ![Loop] =
                 NewTask(CurrentAccount, pass.slot, pass.cfg.dryRun)]
  /\ UNCHANGED <<envVars, pass, managerVars, ledger, worldVars, history>>

\* case <-ctx.Done(): return, which only the staggered accounts have.
StaggerCancelled ==
  /\ pc = "stagger" /\ pass.idx > 1 /\ ctxDone
  /\ pc' = "select"
  /\ UNCHANGED <<envVars, pass, task, managerVars, ledger, worldVars, history>>

AnchorReturned ==
  /\ pc = "anchor" /\ task[Loop] = NoTask
  /\ NextAccount
  /\ UNCHANGED <<envVars, task, managerVars, ledger, worldVars, history>>

----------------------------------------------------------------------------
(* anchorAccount, for any caller.  A manual trigger passes a background    *)
(* context, which is never cancelled.                                      *)

Cancelled(c) == c = Loop /\ ctxDone

Finish(c) == task' = [task EXCEPT ![c] = NoTask]

SetEntry(a, e) == ledger' = [ledger EXCEPT ![a] = e]

\* A slot is remembered by its instant; a manual anchor belongs to no slot.
Remember(hist, a, key) ==
  IF key.kind = "slot" THEN [hist EXCEPT ![a] = @ \union {key.at}] ELSE hist

MarkTask(t) ==
  /\ SetEntry(t.acct, MarkAnchored(ledger[t.acct], t.key))
  /\ anchored' = IF t.key.kind = "slot"
                   THEN [anchored EXCEPT ![t.acct] = Append(@, t.key.at)]
                   ELSE anchored
  /\ UNCHANGED <<refused, gaveUp>>

\* if ctx.Err() != nil { return }
AbortAnchor(c) ==
  /\ task[c].pc = "begin" /\ Cancelled(c)
  /\ Finish(c)
  /\ UNCHANGED <<envVars, loopVars, managerVars, ledger, worldVars, history>>

\* sleepCtx has returned: the time to fire has come.
MayFire(c) == task[c].pc = "begin" /\ ~Cancelled(c) /\ task[c].fireAt <= clock

DryRunAnchor(c) ==
  /\ MayFire(c) /\ task[c].dryRun
  /\ MarkTask(task[c]) /\ Finish(c)
  /\ UNCHANGED <<envVars, loopVars, managerVars, worldVars>>

\* callHost(host.model.execute) leaves the plugin.
SendAnchor(c) ==
  /\ MayFire(c) /\ ~task[c].dryRun
  /\ task' = [task EXCEPT ![c].pc = "sent"]
  /\ UNCHANGED <<envVars, loopVars, managerVars, ledger, worldVars, history>>

AnchorSucceeded(c) ==
  /\ task[c].pc = "replied" /\ task[c].reply.status = "ok"
  /\ MarkTask(task[c]) /\ Finish(c)
  /\ UNCHANGED <<envVars, loopVars, managerVars, worldVars>>

AnchorRefused(c) ==
  /\ task[c].pc = "replied" /\ task[c].reply.status = "refused"
  /\ LET t == task[c] IN
       /\ SetEntry(t.acct, SetAnchorTerminalFailure(ledger[t.acct]))
       /\ refused' = Remember(refused, t.acct, t.key)
  /\ Finish(c)
  /\ UNCHANGED <<envVars, loopVars, managerVars, worldVars, anchored, gaveUp>>

AnchorFailed(c) ==
  /\ task[c].pc = "replied" /\ task[c].reply.status = "error"
  /\ LET t == task[c] IN
       /\ SetEntry(t.acct, RecordAnchorFailure(ledger[t.acct], t.key, clock))
       /\ gaveUp' = IF LastRetry(ledger[t.acct])
                      THEN Remember(gaveUp, t.acct, t.key) ELSE gaveUp
  /\ Finish(c)
  /\ UNCHANGED <<envVars, loopVars, managerVars, worldVars, anchored, refused>>

----------------------------------------------------------------------------
(* POST /anchor-now: the eligible accounts one after the other, whatever   *)
(* the schedule, cfg.Enabled or the context say.                           *)

Remaining(m) ==
  {i \in job[m].next..Len(AccountSeq) : AccountSeq[i] \in job[m].wanted}

\* The configuration is loaded once; the query names an account, a provider (an
\* account of each suffices here) or nothing.
ManualStart(m) ==
  /\ Remaining(m) = {} /\ task[m] = NoTask /\ manualLeft > 0
  /\ manualLeft' = manualLeft - 1
  /\ \E filter \in {Accounts} \union {{a} : a \in Accounts} :
       job' = [job EXCEPT ![m] = [next |-> 1, wanted |-> filter \intersect cfg.eligible,
                                  dryRun |-> cfg.dryRun]]
  /\ UNCHANGED <<envVars, loopVars, task, ledger, worldVars, history>>

ManualAnchor(m) ==
  /\ task[m] = NoTask
  /\ \E i \in Remaining(m) :
       /\ \A j \in Remaining(m) : i <= j
       /\ job' = [job EXCEPT ![m].next = i + 1]
       /\ task' = [task EXCEPT ![m] =
            NewTask(AccountSeq[i], [key |-> ManualKey, fireAt |-> clock],
                    job[m].dryRun)]
  /\ UNCHANGED <<envVars, loopVars, manualLeft, ledger, worldVars, history>>

----------------------------------------------------------------------------
(* The sensor and the configuration *)

\* usage.handle: the host runs it on goroutines of its own, so records may
\* arrive in any order; one that never arrives was lost.
HandleUsage ==
  \E u \in usage :
    /\ usage' = usage \ {u}
    /\ SetEntry(u.acct, ObserveReset(ledger[u.acct], u.reset))
    /\ UNCHANGED <<envVars, loopVars, task, managerVars, window, organicLeft,
                   history>>

\* plugin.reconfigure; the running evaluation keeps the pointer it loaded.
Reconfigure ==
  /\ cfg' \in Configs \ {cfg}
  /\ UNCHANGED <<clock, tickBuf, ctxDone, loopVars, task, managerVars, ledger,
                 worldVars, history>>

\* backgroundCancel, from plugin shutdown.
Cancel ==
  /\ ~ctxDone /\ ctxDone' = TRUE
  /\ UNCHANGED <<clock, tickBuf, cfg, loopVars, task, managerVars, ledger,
                 worldVars, history>>

----------------------------------------------------------------------------
(* The world around the plugin: the provider, other clients and time *)

\* A request that the provider serves opens a window if none is open, and the
\* host makes a usage record of the response.
ServeRequest(a) ==
  LET end == IF window[a] <= clock THEN clock + WindowLen ELSE window[a] IN
  /\ window' = [window EXCEPT ![a] = end]
  /\ usage' = usage \union {[acct |-> a, reset |-> end, at |-> clock]}

\* host.model.execute runs; the reply may be an error though the provider
\* did serve the request.
Serve(c) ==
  /\ task[c].pc = "sent"
  /\ \E r \in Outcomes :
       /\ task' = [task EXCEPT ![c].pc = "replied", ![c].reply = r]
       /\ IF r.served THEN ServeRequest(task[c].acct)
                      ELSE UNCHANGED <<window, usage>>
  /\ UNCHANGED <<envVars, loopVars, managerVars, ledger, organicLeft, history>>

\* The user's own traffic, which the plugin only learns of from the sensor.
Organic(a) ==
  /\ organicLeft > 0 /\ organicLeft' = organicLeft - 1
  /\ ServeRequest(a)
  /\ UNCHANGED <<envVars, loopVars, task, managerVars, ledger, history>>

\* The ticker keeps one undelivered tick and drops the later ones.  After a
\* stall the tick carries the time it was due, after a suspend a later one.
Advance(d) ==
  LET ticks == {t \in (clock + 1)..(clock + d) : t % Poll = 0} IN
  /\ clock + d <= MaxTime
  /\ clock' = clock + d
  /\ tickBuf' \in IF tickBuf # 0 \/ pc = "exited" \/ ticks = {}
                    THEN {tickBuf} ELSE ticks
  /\ UNCHANGED <<cfg, ctxDone, loopVars, task, managerVars, ledger, worldVars,
                 history>>

----------------------------------------------------------------------------
(* Specifications *)

LoopStep == \/ Wake \/ Consider \/ CheckBackoff \/ CheckLedger \/ CheckNext
            \/ CallAnchor \/ AnchorReturned

AnchorStep(c) == \/ AbortAnchor(c) \/ DryRunAnchor(c) \/ SendAnchor(c)
                 \/ AnchorSucceeded(c) \/ AnchorRefused(c) \/ AnchorFailed(c)

ManagerStep(m) == ManualStart(m) \/ ManualAnchor(m)

\* The plugin left to itself: nobody triggers or reconfigures it.
AutoNext ==
  \/ LoopStep \/ LoopDone \/ StaggerCancelled \/ Cancel
  \/ AnchorStep(Loop) \/ Serve(Loop)
  \/ HandleUsage
  \/ \E a \in Accounts : Organic(a)
  \/ \E d \in Steps : Advance(d)

Next ==
  \/ AutoNext
  \/ Reconfigure
  \/ \E m \in Managers : ManagerStep(m) \/ AnchorStep(m) \/ Serve(m)

\* The loop is between two passes and nothing is on its way to it.
Settled == pc = "select" /\ tickBuf = 0 /\ usage = {}

\* The best case: the machine is awake and fast, the sensor delivers before the
\* loop reads, and the user's traffic stays out of a running pass.
PromptNext ==
  \/ usage = {} /\ LoopStep
  \/ AnchorStep(Loop) \/ Serve(Loop)
  \/ HandleUsage
  \/ Settled /\ \E a \in Accounts : Organic(a)
  \/ usage = {} /\ (Settled \/ pc = "stagger") /\ Advance(1)

AutoSpec == Init /\ [][AutoNext]_vars
Spec == Init /\ [][Next]_vars
PromptSpec == Init /\ [][PromptNext]_vars

\* The runtime schedules a runnable goroutine, select eventually picks a case
\* that is ready again and again, and the host answers every call.
Fairness == /\ WF_vars(LoopStep) /\ WF_vars(StaggerCancelled)
            /\ SF_vars(LoopDone)
            /\ WF_vars(AnchorStep(Loop)) /\ WF_vars(Serve(Loop))

FairSpec == AutoSpec /\ Fairness

----------------------------------------------------------------------------
(* Properties *)

PassType == [tick : Nat, cfg : Configs, idx : 0..(Len(AccountSeq) + 1),
             reset : Nat, slot : [key : Key, fireAt : Nat], wakeAt : Nat]

\* The places of the loop within a pass.
InPass == {"consider", "backoff", "ledger", "next", "stagger", "anchor"}

\* Every variable but pc has the values the code can store in it, and a pass is at
\* an account of the list.  Lifecycle has more places for the loop than this module.
ValuesOK ==
  /\ clock \in Nat /\ tickBuf \in Nat /\ cfg \in Configs /\ ctxDone \in BOOLEAN
  /\ pass \in PassType
  /\ pc \in InPass => pass.idx \in 1..Len(AccountSeq)
  /\ task \in [Callers -> Task \union {NoTask}]
  /\ job \in [Managers -> Job]
  /\ manualLeft \in Nat /\ organicLeft \in Nat
  /\ ledger \in [Accounts -> Entry]
  /\ window \in [Accounts -> Nat] /\ usage \subseteq Usage
  /\ anchored \in [Accounts -> Seq(Nat)]
  /\ refused \in [Accounts -> SUBSET Nat] /\ gaveUp \in [Accounts -> SUBSET Nat]

\* Every variable has the values the code can store in it.
TypeOK == ValuesOK /\ pc \in InPass \union {"select", "exited"}

\* The ledger marks the slots of an account in order and none of them twice,
\* however ticks go stale, usage records are late or requests fail
\* (LastAnchoredWindowKey, loop.go:120; "re-fires at most once", README.md:66).
SlotsInOrder ==
  \A a \in Accounts : \A i, j \in DOMAIN anchored[a] :
    i < j => anchored[a][i] < anchored[a][j]

\* A request the loop has decided on is for a slot that has begun and was not
\* older than the catch-up window at the tick that decided, and it never has to
\* wait for its time (loop.go:120-123, schedule.go:142-154, anchor.go:46-52).
SlotFiresInCatchUp ==
  \A s \in (IF pc = "stagger" THEN {pass.slot} ELSE {})
           \union (IF task[Loop] # NoTask THEN {task[Loop]} ELSE {}) :
    /\ s.key.kind = "slot"
    /\ s.key.at <= s.fireAt /\ s.fireAt <= clock
    /\ s.fireAt - s.key.at <= pass.cfg.catchUp

\* The retry fields agree: a slot is in backoff exactly while failures are
\* counted (observeReset clears the slot only if the count is not zero,
\* state.go:121), the count stays below the limit, and nothing is put off
\* further than the longest backoff (state.go:170-182).
BackoffConsistent ==
  \A a \in Accounts : LET e == ledger[a] IN
    /\ e.retryCount = 0 <=> e.retrySlot = NoKey
    /\ e.retryCount < MaxRetries
    /\ e.retryCount > 0 => e.nextRetryAt <= clock + Backoff(e.retryCount)

\* No request leaves for a slot that is in backoff by then, not even when a
\* manual trigger fails between the decision and the request ("must never be
\* re-fired, not even by catch-up", loop.go:116).
NoRequestInBackoff ==
  [][SendAnchor(Loop) =>
       ~SlotInBackoff(ledger[task[Loop].acct], task[Loop].key, clock)]_vars

\* A cancelled loop exits (shutdownBackgroundOnce waits for it, dispatch.go:79).
CancelledLoopExits == ctxDone ~> pc = "exited"

\* No slot is dropped silently: once a pass is over, the current slot of every
\* eligible account was anchored, waits for its window to close or for a retry,
\* was refused, was given up, or is too old (evaluate, loop.go:54-95).
PassLeavesNoSlot ==
  Settled /\ pass.idx > Len(AccountSeq) =>
    \A a \in pass.cfg.eligible :
      \A p \in PreviousAnchors(pass.cfg.anchors[a], pass.tick) :
        pass.tick - p <= pass.cfg.catchUp =>
          \/ \E i \in DOMAIN anchored[a] : anchored[a][i] = p
          \/ ledger[a].resetsAt > pass.tick
          \/ SlotInBackoff(ledger[a], WindowKeyFor(p, pass.cfg.zone), pass.tick)
          \/ p \in refused[a] \union gaveUp[a]

\* A request of the loop's that the provider serves opens a new window, also
\* after a response was lost and the slot is tried again ("only anchors once the
\* window has actually closed", README.md:16-19).  Before the first observation
\* the loop cannot know.
AnchorOpensWindow ==
  [][Serve(Loop) /\ task'[Loop].reply.served =>
       LET a == task[Loop].acct IN
       ledger[a].resetsAt # 0 => window[a] <= clock]_vars

\* The plugin left to itself keeps the promise of its slots.
Promise == INSTANCE SlotPromise WITH
  Accounts <- Accounts, clock <- clock, anchored <- anchored

PromiseKept == Promise!Spec

----------------------------------------------------------------------------
(* What the repository says of the program and the program does not do: the *)
(* runs that check these expect a counterexample.                           *)

\* "Terminal: never retry within the same slot" (anchor.go:114); "Abandon the
\* slot; the next slot will start fresh" (state.go:174).
AbandonedNotRetried ==
  [][SendAnchor(Loop) =>
       LET t == task[Loop] IN
       t.key.at \notin refused[t.acct] \union gaveUp[t.acct]]_vars

\* "anchor < known -> defer to known+grace; if known+grace > anchor+maxDeferral
\* -> skip entirely" (schedule.go:93-94).
MatrixHonoured ==
  [][SendAnchor(Loop) =>
       LET t     == task[Loop]
           known == ledger[t.acct].resetsAt
       IN known > t.key.at =>
            /\ clock >= known + pass.cfg.grace
            /\ ~Skipped(t.key.at, known, pass.cfg.grace, pass.cfg.maxDeferral)]_vars
=============================================================================
