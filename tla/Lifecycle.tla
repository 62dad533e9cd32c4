----------------------------- MODULE Lifecycle -----------------------------
(***************************************************************************)
(* The plugin from plugin.register to the end of its process and into the  *)
(* next: the once guards (dispatch.go), the start of the loop (loop.go),   *)
(* the state file (state.go), shutdown and its wait, crashes.  AnchorLoop  *)
(* is the loop in between; its steps are steps here, and its pc gets the   *)
(* places of the start: none (no process), load, begin, probe, probeNext,  *)
(* probing, probePause, ticker.                                            *)
(***************************************************************************)
EXTENDS AnchorLoop, FiniteSets

CONSTANTS
  SettingsSet,     \* the other half of each configuration the operator may store
  MaxLives         \* bound: processes one after the other

\* probeOnStart, a state-file is configured, poll-interval is zero.
Settings == [probeOnStart : BOOLEAN, saves : BOOLEAN, pollZero : BOOLEAN]

ASSUME LifeAssumption ==
  /\ SettingsSet \subseteq Settings /\ SettingsSet # {}
  /\ MaxLives \in Nat

VARIABLES
  settings,        \* configStore, the fields Config leaves out
  pollZero,        \* the loop's poll interval is zero
  stop,            \* shutdownBackgroundOnce: not called, or how far it is
  file,            \* the state file: what can be read back from it
  lives,           \* processes so far
  losses           \* history: events by which an account's last key was lost

lifeVars == <<settings, pollZero, stop, file, lives, losses>>
allVars == <<vars, lifeVars>>

\* A file that does not exist and one cut short by a crash read alike: as nothing.
NoFile == [readable |-> FALSE, entries |-> [a \in Accounts |-> EmptyEntry]]

LifeInit ==
  /\ clock = 1 /\ tickBuf = 0 /\ ctxDone = FALSE
  /\ cfg \in Configs /\ settings \in SettingsSet
  /\ pc = "none" /\ pass = NewPass(0, cfg, 0) /\ pollZero = FALSE
  /\ task = [c \in Callers |-> NoTask]
  /\ job = [m \in Managers |-> NoJob]
  /\ ledger = [a \in Accounts |-> EmptyEntry]
  /\ window = InitialWindow /\ usage = {}
  /\ organicLeft = MaxOrganic /\ manualLeft = MaxManual
  /\ anchored = [a \in Accounts |-> <<>>]
  /\ refused = [a \in Accounts |-> {}] /\ gaveUp = [a \in Accounts |-> {}]
  /\ stop = "no" /\ file = NoFile
  /\ lives = 0 /\ losses = [a \in Accounts |-> 0]

Lose(accounts) ==
  losses' = [a \in Accounts |-> IF a \in accounts THEN losses[a] + 1 ELSE losses[a]]

----------------------------------------------------------------------------
(* plugin.register and plugin.reconfigure *)

\* The first plugin.register of a process: backgroundOnce runs.
Register ==
  /\ pc = "none" /\ lives < MaxLives
  /\ pc' = "load" /\ lives' = lives + 1
  /\ cfg' \in Configs /\ settings' \in SettingsSet
  /\ UNCHANGED <<clock, tickBuf, ctxDone, pass, task, managerVars, ledger,
                 worldVars, history, pollZero, stop, file, losses>>

\* Mutant: the once guards are forgotten, and register restarts the loop.
LifeReconfigureRestarts ==
  /\ pc # "none"
  /\ cfg' \in Configs /\ settings' \in SettingsSet
  /\ pc' = IF pc = "exited" THEN "load" ELSE pc
  /\ UNCHANGED <<clock, tickBuf, ctxDone, pass, task, managerVars, ledger,
                 worldVars, history, pollZero, stop, file, lives, losses>>

\* Every later register or reconfigure: backgroundOnce does not run again, not
\* even after a shutdown.
LifeReconfigure ==
  /\ pc # "none"
  /\ cfg' \in Configs /\ settings' \in SettingsSet
  /\ UNCHANGED <<clock, tickBuf, ctxDone, loopVars, task, managerVars, ledger,
                 worldVars, history, pollZero, stop, file, lives, losses>>

----------------------------------------------------------------------------
(* The start of backgroundLoop *)

\* The entries of the file replace those that usage records have made meanwhile;
\* an empty entry may or may not have been in the ledger that was written.
Merged(stored) ==
  {[a \in Accounts |-> IF a \in s THEN file.entries[a] ELSE ledger[a]] :
     s \in {t \in SUBSET Accounts : stored \subseteq t}}

\* loadStateBestEffort.  Without a state-file the process before is forgotten.
Load ==
  /\ pc = "load" /\ pc' = "begin"
  /\ ledger' \in
       IF settings.saves /\ file.readable
         THEN Merged({a \in Accounts : file.entries[a] # EmptyEntry})
         ELSE {ledger}
  /\ Lose(IF settings.saves \/ lives = 1 THEN {} ELSE Accounts)
  /\ UNCHANGED <<envVars, pass, task, managerVars, worldVars, history, settings,
                 pollZero, stop, file, lives>>

\* cfg := configStore.Load(); if cfg.ProbeOnStart
Begin ==
  /\ pc = "begin"
  /\ pc' = IF settings.probeOnStart THEN "probe" ELSE "ticker"
  /\ pollZero' = settings.pollZero
  /\ UNCHANGED <<envVars, pass, task, managerVars, ledger, worldVars, history,
                 settings, stop, file, lives, losses>>

\* probeAllAccounts up to its loop; it loads the configuration again.
Probe ==
  /\ pc = "probe"
  /\ \E listed \in ListOutcomes :
       pc' = IF cfg.dryRun \/ ~listed THEN "ticker" ELSE "probeNext"
  /\ pass' = NewPass(0, cfg, 1)
  /\ UNCHANGED <<envVars, task, managerVars, ledger, worldVars, history, lifeVars>>

\* The next account of the probe: the filters, then the call of anchorAccount.
ProbeAccount ==
  /\ pc = "probeNext"
  /\ \/ /\ pass.idx > Len(AccountSeq)
        /\ pc' = "ticker" /\ UNCHANGED <<pass, task>>
     \/ /\ pass.idx <= Len(AccountSeq) /\ CurrentAccount \notin pass.cfg.eligible
        /\ pass' = [pass EXCEPT !.idx = @ + 1] /\ UNCHANGED <<pc, task>>
     \/ /\ pass.idx <= Len(AccountSeq) /\ CurrentAccount \in pass.cfg.eligible
        /\ pc' = "probing" /\ UNCHANGED pass
        /\ task' = [task EXCEPT ![Loop] =
             NewTask(CurrentAccount, [key |-> ProbeKey, fireAt |-> clock],
                     pass.cfg.dryRun)]
  /\ UNCHANGED <<envVars, managerVars, ledger, worldVars, history, lifeVars>>

\* anchorAccount has returned; time.After(cfg.staggerDuration) starts.
ProbeReturned ==
  /\ pc = "probing" /\ task[Loop] = NoTask
  /\ pc' = "probePause"
  /\ pass' = [pass EXCEPT !.wakeAt = clock + pass.cfg.stagger]
  /\ UNCHANGED <<envVars, task, managerVars, ledger, worldVars, history, lifeVars>>

\* Mutant: the index is counted up twice.
ProbeGoesOnTwice ==
  /\ pc = "probePause" /\ clock >= pass.wakeAt
  /\ pc' = "probeNext" /\ pass' = [pass EXCEPT !.idx = @ + 2]
  /\ UNCHANGED <<envVars, task, managerVars, ledger, worldVars, history, lifeVars>>

ProbeGoesOn ==
  /\ pc = "probePause" /\ clock >= pass.wakeAt
  /\ pc' = "probeNext" /\ pass' = [pass EXCEPT !.idx = @ + 1]
  /\ UNCHANGED <<envVars, task, managerVars, ledger, worldVars, history, lifeVars>>

\* Mutant: the pause cannot be interrupted.
ProbeCancelledLate ==
  /\ pc = "probePause" /\ ctxDone /\ clock >= pass.wakeAt
  /\ pc' = "ticker"
  /\ UNCHANGED <<envVars, pass, task, managerVars, ledger, worldVars, history,
                 lifeVars>>

\* case <-ctx.Done(): return, out of the probe and not of the loop.
ProbeCancelled ==
  /\ pc = "probePause" /\ ctxDone
  /\ pc' = "ticker"
  /\ UNCHANGED <<envVars, pass, task, managerVars, ledger, worldVars, history,
                 lifeVars>>

\* time.NewTicker(poll), of a poll interval that is not zero.
StartTicker ==
  /\ pc = "ticker" /\ ~pollZero
  /\ pc' = "select" /\ pass' = NewPass(0, cfg, 0)
  /\ UNCHANGED <<envVars, task, managerVars, ledger, worldVars, history, lifeVars>>

----------------------------------------------------------------------------
(* Shutdown and the end of the process *)

\* The host calls shutdown; the context is cancelled.
Shutdown ==
  /\ pc # "none" /\ stop = "no"
  /\ stop' = "wait" /\ ctxDone' = TRUE
  /\ UNCHANGED <<clock, tickBuf, cfg, loopVars, task, managerVars, ledger,
                 worldVars, history, settings, pollZero, file, lives, losses>>

\* backgroundWG.Wait() has returned, and persistStateBestEffort opens the file,
\* which truncates it, or fails to, or has no file to write.
Persist ==
  /\ \/ /\ settings.saves
        /\ stop' = "write" /\ file' = NoFile /\ UNCHANGED losses
     \/ stop' = "done" /\ UNCHANGED file /\ Lose(Accounts)
  /\ UNCHANGED <<vars, settings, pollZero, lives>>

\* Mutant: shutdown does not wait for the loop.
ShutdownDoesNotWait == stop = "wait" /\ Persist

ShutdownWaited == stop = "wait" /\ pc = "exited" /\ Persist

\* The ledger is written whole, under its read lock; or the disk is full.
ShutdownWritten ==
  /\ stop = "write" /\ stop' = "done"
  /\ \/ file' = [readable |-> TRUE, entries |-> ledger] /\ UNCHANGED losses
     \/ UNCHANGED file /\ Lose(Accounts)
  /\ UNCHANGED <<vars, settings, pollZero, lives>>

\* Everything in memory is gone, in the host too: the calls and the usage
\* records under way.  The provider keeps its windows.
ProcessEnds ==
  /\ pc' = "none" /\ pass' = NewPass(0, cfg, 0)
  /\ tickBuf' = 0 /\ ctxDone' = FALSE
  /\ task' = [c \in Callers |-> NoTask] /\ job' = [m \in Managers |-> NoJob]
  /\ ledger' = [a \in Accounts |-> EmptyEntry] /\ usage' = {}
  /\ stop' = "no" /\ pollZero' = FALSE
  /\ UNCHANGED <<clock, cfg, manualLeft, window, organicLeft, history, settings,
                 file, lives>>

\* After a shutdown; without one it is a crash, or a host that does not bother.
Exit  == stop = "done" /\ ProcessEnds /\ UNCHANGED losses
Crash == pc # "none" /\ stop # "done" /\ ProcessEnds /\ Lose(Accounts)

\* time.NewTicker panics on zero, on a goroutine that nothing recovers: the
\* process of the host ends.
LoopPanics == pc = "ticker" /\ pollZero /\ ProcessEnds /\ Lose(Accounts)

----------------------------------------------------------------------------
(* The steps of AnchorLoop *)

\* An anchored probe puts its own key in the place of the last slot's.
ProbeForgets ==
  Lose({a \in Accounts : /\ ledger[a].lastKey.kind = "slot"
                         /\ ledger'[a].lastKey = ProbeKey})

RunLoop ==
  /\ LoopStep \/ LoopDone \/ StaggerCancelled \/ AnchorStep(Loop)
  /\ ProbeForgets
  /\ UNCHANGED <<settings, pollZero, stop, file, lives>>

\* observeReset waits for the lock while the file is written.
RunHost ==
  /\ pc # "none"
  /\ \/ Serve(Loop)
     \/ stop # "write" /\ HandleUsage
     \/ \E a \in Accounts : Organic(a)
  /\ UNCHANGED lifeVars

Ticking == pc \notin {"none", "load", "begin", "probe", "probeNext", "probing",
                     "probePause", "ticker", "exited"}

LifeAdvance(d) ==
  /\ IF Ticking
       THEN Advance(d)
       ELSE /\ clock + d <= MaxTime /\ clock' = clock + d
            /\ UNCHANGED <<tickBuf, cfg, ctxDone, loopVars, task, managerVars,
                           ledger, worldVars, history>>
  /\ UNCHANGED lifeVars

StartUp == Load \/ Begin \/ Probe \/ ProbeAccount \/ ProbeReturned \/ StartTicker

LifeNext ==
  \/ Register \/ LifeReconfigure
  \/ StartUp \/ ProbeGoesOn \/ ProbeCancelled \/ LoopPanics
  \/ RunLoop \/ RunHost
  \/ Shutdown \/ ShutdownWaited \/ ShutdownWritten
  \/ Exit \/ Crash
  \/ \E d \in Steps : LifeAdvance(d)

LifeSpec == LifeInit /\ [][LifeNext]_allVars

\* As in AnchorLoop; the file system answers, too.
LifeFairness ==
  /\ WF_allVars(StartUp) /\ WF_allVars(ProbeCancelled) /\ WF_allVars(LoopPanics)
  /\ WF_allVars(LoopStep /\ RunLoop) /\ WF_allVars(StaggerCancelled /\ RunLoop)
  /\ SF_allVars(LoopDone /\ RunLoop)
  /\ WF_allVars(AnchorStep(Loop) /\ RunLoop) /\ WF_allVars(Serve(Loop) /\ RunHost)
  /\ WF_allVars(ShutdownWaited) /\ WF_allVars(ShutdownWritten)

FairLifeSpec == LifeSpec /\ LifeFairness

----------------------------------------------------------------------------
(* Properties *)

LifePlaces == InPass \union
  {"none", "load", "begin", "probe", "probeNext", "probing", "probePause",
   "ticker", "select", "exited"}

\* The probe is at an account of the list, or past the last (loop.go:184-201).
ProbeInList ==
  /\ pc \in {"probing", "probePause"} => pass.idx \in 1..Len(AccountSeq)
  /\ pc = "probeNext" => pass.idx \in 1..(Len(AccountSeq) + 1)

\* Every variable has the values the code can store in it, from one process to
\* the next.
LifeTypeOK ==
  /\ ValuesOK /\ pc \in LifePlaces /\ ProbeInList
  /\ settings \in SettingsSet /\ pollZero \in BOOLEAN
  /\ stop \in {"no", "wait", "write", "done"}
  /\ file \in [readable : BOOLEAN, entries : [Accounts -> Entry]]
  /\ lives \in 0..MaxLives /\ losses \in [Accounts -> Nat]

\* When shutdown returns, and already when it writes the file, the loop and its
\* request are gone and stay gone until a new process starts, whatever the host
\* registers or reconfigures ("cancels the background loop and waits for it to
\* exit", dispatch.go:72; dlclose comes next).
ShutdownLeavesNoLoop ==
  stop \in {"write", "done"} => pc = "exited" /\ task[Loop] = NoTask

\* A slot is fired again only as often as the state was lost: by a crash, by a
\* state-file that is not configured or not written, by a probe that overwrites
\* the last key ("a restart (optionally with state-file) ... re-fires at most
\* once", README.md:66-68); with anchors and zone left alone.
RefiresBounded ==
  \A a \in Accounts : \A i \in DOMAIN anchored[a] :
    Cardinality({j \in DOMAIN anchored[a] : anchored[a][j] = anchored[a][i]})
      <= 1 + losses[a]

\* A shutdown ends, unless the process ends first: wherever it meets the loop,
\* in the load, in a probe, in a pass ("so this wait is safe", dispatch.go:73).
ShutdownReturns == stop = "wait" ~> stop \in {"done", "no"}
=============================================================================
