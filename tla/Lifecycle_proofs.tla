-------------------------- MODULE Lifecycle_proofs --------------------------
(***************************************************************************)
(* Theorems about the plugin's life cycle, for every value of the          *)
(* constants.                                                              *)
(***************************************************************************)
EXTENDS Lifecycle, AnchorLoop_proofs, FiniteSetTheorems

\* The loop is in a call of anchorAccount only where it waits for one, so the
\* place of the loop says whether a request can be under way.
PlaceInv ==
  /\ task = [c \in Callers |-> task[c]]
  /\ task[Loop] # NoTask => pc \in {"anchor", "probing"}

GoneInv == PlaceInv /\ ShutdownLeavesNoLoop

\* The loop is one of the callers of anchorAccount.
LEMMA LoopIsCaller == Loop \in Callers
BY DEF Callers

\* Before the first registration no loop is left over.
LEMMA GoneInit == LifeInit => GoneInv
BY LoopIsCaller DEF LifeInit, GoneInv, PlaceInv, ShutdownLeavesNoLoop

\* The steps of a call of the loop's: it ends where it began (anchor.go:40-106).
LEMMA TaskSteps ==
  ASSUME PlaceInv, AnchorStep(Loop) \/ Serve(Loop)
  PROVE  task[Loop] # NoTask /\ pc' = pc /\ task' = [c \in Callers |-> task'[c]]
<1> USE LoopIsCaller
<1>1. CASE AbortAnchor(Loop)
  BY <1>1 DEF PlaceInv, AbortAnchor, Finish, NoTask, loopVars
<1>2. CASE DryRunAnchor(Loop)
  BY <1>2 DEF PlaceInv, DryRunAnchor, MayFire, Finish, NoTask, loopVars
<1>3. CASE SendAnchor(Loop)
  BY <1>3 DEF PlaceInv, SendAnchor, MayFire, NoTask, loopVars
<1>4. CASE AnchorSucceeded(Loop)
  BY <1>4 DEF PlaceInv, AnchorSucceeded, Finish, NoTask, loopVars
<1>5. CASE AnchorRefused(Loop)
  BY <1>5 DEF PlaceInv, AnchorRefused, Finish, NoTask, loopVars
<1>6. CASE AnchorFailed(Loop)
  BY <1>6 DEF PlaceInv, AnchorFailed, Finish, NoTask, loopVars
<1>7. CASE Serve(Loop)
  <2>1. task[Loop] # NoTask /\ pc' = pc
    BY <1>7 DEF Serve, NoTask, loopVars
  <2>2. PICK r \in Outcomes :
          task' = [task EXCEPT ![Loop].pc = "replied", ![Loop].reply = r]
    BY <1>7 DEF Serve
  <2>3. task' = [c \in Callers |-> task'[c]]
    BY <2>2 DEF PlaceInv
  <2> QED
    BY <2>1, <2>3
<1> QED
  BY <1>1, <1>2, <1>3, <1>4, <1>5, <1>6, <1>7 DEF AnchorStep

\* Every step of the running loop keeps the invariant, and it takes none where
\* the invariant says that it is gone.
LEMMA RunLoopGone == ASSUME GoneInv, RunLoop PROVE GoneInv'
<1> USE LoopIsCaller
<1>0. stop' = stop
  BY DEF RunLoop
<1>1. CASE LoopDone
  BY <1>0, <1>1 DEF LoopDone, GoneInv, PlaceInv, ShutdownLeavesNoLoop
<1>2. CASE StaggerCancelled
  BY <1>0, <1>2 DEF StaggerCancelled, GoneInv, PlaceInv, ShutdownLeavesNoLoop
<1>3. CASE AnchorStep(Loop)
  BY <1>0, <1>3, TaskSteps DEF GoneInv, PlaceInv, ShutdownLeavesNoLoop
<1>4. CASE LoopStep
  <2>1. CASE Wake
    BY <1>0, <2>1 DEF Wake, GoneInv, PlaceInv, ShutdownLeavesNoLoop
  <2>2. CASE Consider
    BY <1>0, <2>2 DEF Consider, NextAccount, GoneInv, PlaceInv, ShutdownLeavesNoLoop
  <2>3. CASE CheckBackoff
    BY <1>0, <2>3 DEF CheckBackoff, NextAccount, GoneInv, PlaceInv,
                      ShutdownLeavesNoLoop
  <2>4. CASE CheckLedger \/ CheckNext
    <3>1. pc \in {"ledger", "next"} /\ task' = task
      BY <2>4 DEF CheckLedger, CheckNext
    <3> QED
      BY <1>0, <3>1 DEF GoneInv, PlaceInv, ShutdownLeavesNoLoop
  <2>5. CASE CallAnchor
    BY <1>0, <2>5 DEF CallAnchor, GoneInv, PlaceInv, ShutdownLeavesNoLoop
  <2>6. CASE AnchorReturned
    BY <1>0, <2>6 DEF AnchorReturned, NextAccount, GoneInv, PlaceInv,
                      ShutdownLeavesNoLoop
  <2> QED
    BY <1>4, <2>1, <2>2, <2>3, <2>4, <2>5, <2>6 DEF LoopStep
<1> QED
  BY <1>1, <1>2, <1>3, <1>4 DEF RunLoop

\* So does the start of the loop (loop.go:18-33, 178-202).
LEMMA StartGone ==
  ASSUME GoneInv, StartUp \/ ProbeGoesOn \/ ProbeCancelled
  PROVE  GoneInv'
<1> USE LoopIsCaller DEF GoneInv, PlaceInv, ShutdownLeavesNoLoop, lifeVars
<1>1. CASE Load
  BY <1>1 DEF Load
<1>2. CASE Begin
  BY <1>2 DEF Begin
<1>3. CASE Probe
  BY <1>3 DEF Probe
<1>4. CASE ProbeAccount
  BY <1>4 DEF ProbeAccount
<1>5. CASE ProbeReturned
  BY <1>5 DEF ProbeReturned
<1>6. CASE StartTicker
  BY <1>6 DEF StartTicker
<1>7. CASE ProbeGoesOn
  BY <1>7 DEF ProbeGoesOn
<1>8. CASE ProbeCancelled
  BY <1>8 DEF ProbeCancelled
<1> QED
  BY <1>1, <1>2, <1>3, <1>4, <1>5, <1>6, <1>7, <1>8 DEF StartUp

\* And the host, the provider and time.
LEMMA WorldGone ==
  ASSUME GoneInv, RunHost \/ \E d \in Steps : LifeAdvance(d)
  PROVE  GoneInv'
<1> USE LoopIsCaller DEF GoneInv, PlaceInv, ShutdownLeavesNoLoop, lifeVars, loopVars
<1>1. CASE RunHost /\ Serve(Loop)
  BY <1>1, TaskSteps DEF RunHost
<1>2. CASE RunHost /\ HandleUsage
  BY <1>2 DEF RunHost, HandleUsage
<1>3. ASSUME RunHost, NEW a \in Accounts, Organic(a) PROVE GoneInv'
  BY <1>3 DEF RunHost, Organic
<1>4. ASSUME NEW d \in Steps, LifeAdvance(d) PROVE GoneInv'
  BY <1>4 DEF LifeAdvance, Advance
<1> QED
  BY <1>1, <1>2, <1>3, <1>4 DEF RunHost

\* Shutdown reaches the file only past an exited loop; a process that ends takes
\* everything with it (dispatch.go:74-82).
LEMMA StopGone ==
  ASSUME GoneInv,
         \/ Register \/ LifeReconfigure \/ LoopPanics \/ Shutdown
         \/ ShutdownWaited \/ ShutdownWritten \/ Exit \/ Crash
  PROVE  GoneInv'
<1> USE LoopIsCaller DEF GoneInv, PlaceInv, ShutdownLeavesNoLoop, loopVars
<1>1. CASE Register
  BY <1>1 DEF Register
<1>2. CASE LifeReconfigure
  BY <1>2 DEF LifeReconfigure
<1>3. CASE Shutdown
  BY <1>3 DEF Shutdown
<1>4. CASE ShutdownWaited
  BY <1>4 DEF ShutdownWaited, Persist, vars
<1>5. CASE ShutdownWritten
  BY <1>5 DEF ShutdownWritten, vars
<1>6. CASE LoopPanics \/ Exit \/ Crash
  <2>1. ProcessEnds
    BY <1>6 DEF LoopPanics, Exit, Crash
  <2> QED
    BY <2>1 DEF ProcessEnds
<1> QED
  BY <1>1, <1>2, <1>3, <1>4, <1>5, <1>6

\* Every step keeps the place of the loop's call, and shutdown leaves no loop.
LEMMA GoneNext == GoneInv /\ [LifeNext]_allVars => GoneInv'
<1> SUFFICES ASSUME GoneInv, [LifeNext]_allVars PROVE GoneInv'
  OBVIOUS
<1>1. CASE UNCHANGED allVars
  BY <1>1 DEF allVars, vars, lifeVars, loopVars, GoneInv, PlaceInv,
              ShutdownLeavesNoLoop
<1>2. CASE LifeNext
  BY <1>2, RunLoopGone, StartGone, WorldGone, StopGone DEF LifeNext
<1> QED
  BY <1>1, <1>2

\* When shutdown writes the state file and when it returns, no loop runs and no
\* request of the loop's is under way, until a new process starts.
THEOREM ShutdownLeavesNoLoopCorrect == LifeSpec => []ShutdownLeavesNoLoop
<1>1. GoneInv => ShutdownLeavesNoLoop
  BY DEF GoneInv
<1> QED
  BY GoneInit, GoneNext, <1>1, PTL DEF LifeSpec

----------------------------------------------------------------------------
(* Types.  Most steps here are steps of AnchorLoop, whose lemmas serve for  *)
(* them; the others belong to the start and the end of a process.           *)

LifeValuesOK ==
  /\ settings \in SettingsSet /\ pollZero \in BOOLEAN
  /\ stop \in {"no", "wait", "write", "done"}
  /\ file \in [readable : BOOLEAN, entries : [Accounts -> Entry]]
  /\ lives \in 0..MaxLives /\ losses \in [Accounts -> Nat]

LifeTypeInv == ValuesOK /\ pc \in LifePlaces /\ ProbeInList /\ LifeValuesOK

\* What a process starts with (state.go:56-66, loop.go:18).
LEMMA FreshTypes ==
  /\ EmptyEntry \in Entry /\ NoJob \in Job
  /\ Len(AccountSeq) \in Nat
  /\ \A c \in Configs : \A i \in {0, 1} : NewPass(0, c, i) \in PassType
<1>1. EmptyEntry \in Entry
  BY DEF EmptyEntry, Entry, NoKey, Key
<1>2. NoJob \in Job
  BY DEF NoJob, Job
<1>3. Len(AccountSeq) \in Nat
  BY ConstantsAssumption, LenProperties
<1>4. \A i \in {0, 1} : i \in 0..(Len(AccountSeq) + 1)
  BY <1>3
<1> QED
  BY <1>1, <1>2, <1>3, <1>4, PassTypes

\* The types hold before the first process.
LEMMA LifeInitTypes == LifeInit => LifeTypeInv
<1> SUFFICES ASSUME LifeInit PROVE LifeTypeInv
  OBVIOUS
<1> USE ConstantsAssumption, FreshTypes DEF LifeInit
<1>1. pass \in PassType
  OBVIOUS
<1>2. /\ ledger \in [Accounts -> Entry] /\ job \in [Managers -> Job]
      /\ task \in [Callers -> Task \union {NoTask}]
      /\ window \in [Accounts -> Nat] /\ usage \subseteq Usage
  OBVIOUS
<1>3. /\ anchored \in [Accounts -> Seq(Nat)]
      /\ refused \in [Accounts -> SUBSET Nat] /\ gaveUp \in [Accounts -> SUBSET Nat]
  OBVIOUS
<1>4. /\ clock \in Nat /\ tickBuf \in Nat /\ ctxDone \in BOOLEAN
      /\ cfg \in Configs /\ pc = "none"
      /\ manualLeft \in Nat /\ organicLeft \in Nat
  OBVIOUS
<1>5. ValuesOK
  BY <1>1, <1>2, <1>3, <1>4 DEF ValuesOK, InPass
<1>6. file \in [readable : BOOLEAN, entries : [Accounts -> Entry]]
  BY DEF NoFile
<1>7. lives \in 0..MaxLives /\ losses \in [Accounts -> Nat]
  BY LifeAssumption
<1> QED
  BY <1>4, <1>5, <1>6, <1>7 DEF LifeTypeInv, LifePlaces, ProbeInList, LifeValuesOK

\* While the loop runs, AnchorLoop describes it; so do the steps of the host and
\* of the operator, wherever the loop is.
LoopRuns ==
  \/ RunLoop \/ RunHost \/ LifeReconfigure
  \/ Shutdown \/ ShutdownWaited \/ ShutdownWritten
  \/ Ticking /\ \E d \in Steps : LifeAdvance(d)

\* What the loop, its calls and the world do in a life, they do in AnchorLoop.
LEMMA LoopRunsSteps ==
  ASSUME ValuesOK, LoopRuns
  PROVE  [Next]_vars
<1>1. CASE RunLoop
  BY <1>1 DEF RunLoop, Next, AutoNext
<1>2. CASE RunHost
  BY <1>2 DEF RunHost, Next, AutoNext
<1>3. CASE LifeReconfigure
  <2>1. cfg' = cfg => UNCHANGED vars
    BY <1>3 DEF LifeReconfigure, vars, envVars
  <2>2. cfg' # cfg => Reconfigure
    BY <1>3 DEF LifeReconfigure, Reconfigure
  <2> QED
    BY <2>1, <2>2 DEF Next
<1>4. CASE Shutdown
  <2>1. ctxDone = TRUE => UNCHANGED vars
    BY <1>4 DEF Shutdown, vars, envVars
  <2>2. ctxDone = FALSE => Cancel
    BY <1>4 DEF Shutdown, Cancel
  <2> QED
    BY <2>1, <2>2 DEF ValuesOK, Next, AutoNext
<1>5. CASE ShutdownWaited \/ ShutdownWritten
  BY <1>5 DEF ShutdownWaited, Persist, ShutdownWritten
<1>6. ASSUME Ticking, NEW d \in Steps, LifeAdvance(d) PROVE Next
  BY <1>6 DEF LifeAdvance, Next, AutoNext
<1> QED
  BY <1>1, <1>2, <1>3, <1>4, <1>5, <1>6 DEF LoopRuns

\* The start of the loop, and a process that begins, waits or ends.
Starts == StartUp \/ ProbeGoesOn \/ ProbeCancelled

Processes ==
  \/ Register \/ LoopPanics \/ Exit \/ Crash
  \/ ~Ticking /\ \E d \in Steps : LifeAdvance(d)

\* Every step of the life cycle is one of these.
LEMMA LifeSteps ==
  ASSUME [LifeNext]_allVars
  PROVE  LoopRuns \/ Starts \/ Processes \/ UNCHANGED allVars
BY DEF LifeNext, LoopRuns, Starts, Processes

\* The probe's index is counted up within the list (loop.go:184).
LEMMA ProbeIndex ==
  ASSUME ValuesOK, pass.idx \in 1..(Len(AccountSeq) + 1), pass.idx <= Len(AccountSeq),
         pass' = [pass EXCEPT !.idx = @ + 1]
  PROVE  pass' \in PassType /\ pass'.idx \in 1..(Len(AccountSeq) + 1)
<1>1. Len(AccountSeq) \in Nat
  BY FreshTypes
<1> DEFINE i == pass.idx + 1
<1>2. i \in 1..(Len(AccountSeq) + 1)
  BY <1>1
<1>3. i \in 0..(Len(AccountSeq) + 1)
  BY <1>1
<1>4. pass' = [pass EXCEPT !.idx = i]
  OBVIOUS
<1> HIDE DEF i
<1> QED
  BY <1>2, <1>3, <1>4 DEF ValuesOK, PassType

\* The start leaves everything alone but its place, the pass and the ledger, and
\* its call of anchorAccount (loop.go:18-33, 178-202).
LEMMA StartTypes ==
  ASSUME LifeTypeInv, Starts
  PROVE  LifeTypeInv'
<1> USE FreshTypes DEF LifeTypeInv, LifePlaces, InPass, envVars, managerVars, worldVars,
                       history, lifeVars
<1>1. pass.idx \in Nat /\ cfg \in Configs /\ pass.cfg \in Config
  BY ConstantsAssumption DEF ValuesOK, PassType
<1>2. CASE Load
  <2>1. ledger' \in [Accounts -> Entry]
    <3>1. CASE ledger' = ledger
      BY <3>1 DEF ValuesOK
    <3>2. CASE ledger' # ledger
      <4>1. PICK s \in SUBSET Accounts :
              ledger' = [a \in Accounts |-> IF a \in s THEN file.entries[a] ELSE ledger[a]]
        BY <1>2, <3>2 DEF Load, Merged
      <4>2. \A a \in Accounts : file.entries[a] \in Entry /\ ledger[a] \in Entry
        BY DEF ValuesOK, LifeValuesOK
      <4> QED
        BY <4>1, <4>2
    <3> QED
      BY <3>1, <3>2
  <2>2. losses' \in [Accounts -> Nat]
    BY <1>2 DEF Load, Lose, LifeValuesOK
  <2> QED
    BY <1>2, <2>1, <2>2 DEF Load, ValuesOK, LifeValuesOK, ProbeInList
<1>3. CASE Begin
  <2>1. settings.pollZero \in BOOLEAN
    BY LifeAssumption DEF LifeValuesOK, Settings
  <2> QED
    BY <1>3, <2>1 DEF Begin, ValuesOK, LifeValuesOK, ProbeInList
<1>4. CASE Probe
  <2>1. pass' = NewPass(0, cfg, 1) /\ pc' \in {"ticker", "probeNext"}
    BY <1>4 DEF Probe
  <2>2. pass' \in PassType /\ pass'.idx = 1
    BY <1>1, <2>1 DEF NewPass
  <2>3. pass'.idx \in 1..(Len(AccountSeq) + 1)
    BY <2>2
  <2> QED
    BY <1>4, <2>1, <2>2, <2>3 DEF Probe, ValuesOK, LifeValuesOK, ProbeInList
<1>5. CASE ProbeAccount
  <2>1. CASE pc' = "ticker" /\ UNCHANGED <<pass, task>>
    BY <1>5, <2>1 DEF ProbeAccount, ValuesOK, LifeValuesOK, ProbeInList
  <2>2. CASE pass.idx <= Len(AccountSeq) /\ pass' = [pass EXCEPT !.idx = @ + 1]
             /\ UNCHANGED <<pc, task>>
    <3>1. pass' \in PassType /\ pass'.idx \in 1..(Len(AccountSeq) + 1)
      BY <1>5, <2>2, ProbeIndex DEF ProbeAccount, ProbeInList
    <3> QED
      BY <1>5, <2>2, <3>1 DEF ProbeAccount, ValuesOK, LifeValuesOK, ProbeInList
  <2>3. CASE /\ pass.idx <= Len(AccountSeq) /\ pc' = "probing" /\ UNCHANGED pass
             /\ task' = [task EXCEPT ![Loop] =
                  NewTask(CurrentAccount, [key |-> ProbeKey, fireAt |-> clock],
                          pass.cfg.dryRun)]
    <3>1. pass.idx \in 1..Len(AccountSeq)
      BY <1>1, <1>5, <2>3 DEF ProbeAccount, ProbeInList
    <3>2. CurrentAccount \in Accounts
      BY <3>1, ConstantsAssumption, ElementOfSeq DEF CurrentAccount
    <3>3. [key |-> ProbeKey, fireAt |-> clock] \in [key : Key, fireAt : Nat]
      BY DEF ProbeKey, Key, ValuesOK
    <3>4. NewTask(CurrentAccount, [key |-> ProbeKey, fireAt |-> clock],
                  pass.cfg.dryRun) \in Task
      BY <1>1, <3>2, <3>3, TaskTypes DEF Config
    <3>5. task' \in [Callers -> Task \union {NoTask}]
      BY <2>3, <3>4 DEF ValuesOK
    <3> QED
      BY <1>5, <2>3, <3>1, <3>5 DEF ProbeAccount, ValuesOK, LifeValuesOK, ProbeInList
  <2> QED
    BY <1>5, <2>1, <2>2, <2>3 DEF ProbeAccount
<1>6. CASE ProbeReturned
  <2>1. clock + pass.cfg.stagger \in Nat
    BY <1>1 DEF Config, ValuesOK
  <2>2. pass' \in PassType /\ pass'.idx = pass.idx
    BY <1>6, <2>1 DEF ProbeReturned, ValuesOK, PassType
  <2> QED
    BY <1>6, <2>2 DEF ProbeReturned, ValuesOK, LifeValuesOK, ProbeInList
<1>7. CASE StartTicker
  BY <1>1, <1>7 DEF StartTicker, ValuesOK, LifeValuesOK, ProbeInList
<1>8. CASE ProbeGoesOn
  <2>1. pass' \in PassType /\ pass'.idx \in 1..(Len(AccountSeq) + 1)
    BY <1>8, ProbeIndex DEF ProbeGoesOn, ProbeInList
  <2> QED
    BY <1>8, <2>1 DEF ProbeGoesOn, ValuesOK, LifeValuesOK, ProbeInList
<1>9. CASE ProbeCancelled
  BY <1>9 DEF ProbeCancelled, ValuesOK, LifeValuesOK, ProbeInList
<1> QED
  BY <1>2, <1>3, <1>4, <1>5, <1>6, <1>7, <1>8, <1>9 DEF Starts, StartUp

\* A process starts, runs, waits and ends with the same types.
LEMMA ProcessTypes ==
  ASSUME LifeTypeInv, Processes
  PROVE  LifeTypeInv'
<1> USE FreshTypes DEF LifeTypeInv, LifePlaces, InPass, managerVars, worldVars, history,
                       loopVars, lifeVars
<1>1. CASE Register
  <2>1. lives' \in 0..MaxLives
    BY <1>1, LifeAssumption DEF Register, LifeValuesOK
  <2> QED
    BY <1>1, <2>1 DEF Register, ValuesOK, LifeValuesOK, ProbeInList
<1>2. CASE LoopPanics \/ Exit \/ Crash
  <2>1. losses' \in [Accounts -> Nat]
    BY <1>2 DEF LoopPanics, Exit, Crash, Lose, LifeValuesOK
  <2>2. ProcessEnds
    BY <1>2 DEF LoopPanics, Exit, Crash
  <2>3. /\ pass' \in PassType /\ task' \in [Callers -> Task \union {NoTask}]
        /\ job' \in [Managers -> Job] /\ ledger' \in [Accounts -> Entry]
    BY <2>2 DEF ProcessEnds, ValuesOK
  <2> QED
    BY <2>1, <2>2, <2>3 DEF ProcessEnds, ValuesOK, LifeValuesOK, ProbeInList
<1>3. ASSUME ~Ticking, NEW d \in Steps, LifeAdvance(d) PROVE LifeTypeInv'
  <2>1. clock' \in Nat
    BY <1>3, ConstantsAssumption DEF LifeAdvance, ValuesOK
  <2> QED
    BY <1>3, <2>1 DEF LifeAdvance, ValuesOK, LifeValuesOK, ProbeInList
<1> QED
  BY <1>1, <1>2, <1>3 DEF Processes

\* Where the loop runs, the types of AnchorLoop and those of the life cycle are
\* kept side by side.
LEMMA LoopRunsTypes ==
  ASSUME LifeTypeInv, LoopRuns
  PROVE  LifeTypeInv'
<1>1. ValuesOK'
  BY LoopRunsSteps, NextValues DEF LifeTypeInv
<1>2. pc' \in LifePlaces
  BY LoopRunsSteps, NextPlaces DEF LifeTypeInv, LifePlaces, loopVars
<1>3. ProbeInList'
  <2>1. UNCHANGED loopVars \/ pc' \in InPass \union {"select", "exited"}
    BY LoopRunsSteps, NextPlaces DEF LifeTypeInv
  <2> QED
    BY <2>1 DEF LifeTypeInv, ProbeInList, loopVars, InPass
<1>4. LifeValuesOK'
  <2>1. CASE RunLoop
    BY <2>1 DEF RunLoop, ProbeForgets, Lose, LifeTypeInv, LifeValuesOK
  <2>2. CASE RunHost \/ \E d \in Steps : LifeAdvance(d)
    BY <2>2 DEF RunHost, LifeAdvance, lifeVars, LifeTypeInv, LifeValuesOK
  <2>3. CASE LifeReconfigure \/ Shutdown
    BY <2>3 DEF LifeReconfigure, Shutdown, LifeTypeInv, LifeValuesOK
  <2>4. CASE ShutdownWaited
    <3>1. NoFile \in [readable : BOOLEAN, entries : [Accounts -> Entry]]
      BY FreshTypes DEF NoFile
    <3>2. losses' = losses \/ Lose(Accounts)
      BY <2>4 DEF ShutdownWaited, Persist
    <3>3. file' = NoFile \/ file' = file
      BY <2>4 DEF ShutdownWaited, Persist
    <3>4. UNCHANGED <<settings, pollZero, lives>> /\ stop' \in {"write", "done"}
      BY <2>4 DEF ShutdownWaited, Persist
    <3> HIDE DEF NoFile
    <3> QED
      BY <3>1, <3>2, <3>3, <3>4 DEF Lose, LifeTypeInv, LifeValuesOK
  <2>5. CASE ShutdownWritten
    <3> DEFINE written == [readable |-> TRUE, entries |-> ledger]
    <3>1. written \in [readable : BOOLEAN, entries : [Accounts -> Entry]]
      BY DEF LifeTypeInv, ValuesOK
    <3>2. losses' = losses \/ Lose(Accounts)
      BY <2>5 DEF ShutdownWritten
    <3>3. file' = written \/ file' = file
      BY <2>5 DEF ShutdownWritten
    <3>4. UNCHANGED <<settings, pollZero, lives>> /\ stop' = "done"
      BY <2>5 DEF ShutdownWritten
    <3> HIDE DEF written
    <3> QED
      BY <3>1, <3>2, <3>3, <3>4 DEF Lose, LifeTypeInv, LifeValuesOK
  <2> QED
    BY <2>1, <2>2, <2>3, <2>4, <2>5 DEF LoopRuns
<1> QED
  BY <1>1, <1>2, <1>3, <1>4 DEF LifeTypeInv

\* Every step of a life keeps the types.
LEMMA LifeNextTypes == LifeTypeInv /\ [LifeNext]_allVars => LifeTypeInv'
<1> SUFFICES ASSUME LifeTypeInv, [LifeNext]_allVars PROVE LifeTypeInv'
  OBVIOUS
<1>1. CASE UNCHANGED allVars
  <2>1. ValuesOK'
    BY <1>1, NextValues DEF allVars, LifeTypeInv
  <2> QED
    BY <1>1, <2>1 DEF allVars, vars, lifeVars, loopVars, LifeTypeInv, ProbeInList,
                      LifeValuesOK
<1> QED
  BY <1>1, LifeSteps, LoopRunsTypes, StartTypes, ProcessTypes

\* The types hold in every state of every life.
LEMMA LifeTypes == LifeSpec => []LifeTypeInv
BY LifeInitTypes, LifeNextTypes, PTL DEF LifeSpec

\* Every reachable state is well typed, from one process to the next.
THEOREM LifeTypeCorrect == LifeSpec => []LifeTypeOK
<1>1. LifeTypeInv => LifeTypeOK
  BY DEF LifeTypeInv, LifeTypeOK, LifeValuesOK
<1> QED
  BY <1>1, LifeTypes, PTL

----------------------------------------------------------------------------
(* How often a slot is fired.  A mark more than one needs a lost key: the    *)
(* slot marked is never the one remembered, and every mark of it but the     *)
(* first came after the key of the one before was lost.  What is remembered  *)
(* is the ledger's key while the process runs and the file's key in between. *)

\* The operator changes neither the anchors nor the zone; a slot that was taken
\* out of the configuration and put back may fire again without any loss.
StableSlots ==
  \A c, d \in Configs : c.zone = d.zone /\ c.anchors = d.anchors

\* The state is in the file, not in memory: between two processes, and once a
\* shutdown has written it.
InFile == pc \in {"none", "load"} \/ stop = "done"

\* The key by which a slot is known to be anchored, or will be after the restart.
Memory(a) ==
  IF ~InFile THEN ledger[a].lastKey
  ELSE IF file.readable THEN file.entries[a].lastKey ELSE NoKey

\* How often s is in a sequence.
Places(seq, s) == {j \in DOMAIN seq : seq[j] = s}
Count(seq, s) == Cardinality(Places(seq, s))

\* A slot has one mark more than there were losses only if it is remembered, or
\* a later one was marked since.
CountInv ==
  \A a \in Accounts : \A i \in DOMAIN anchored[a] :
    LET s == anchored[a][i]
        n == Count(anchored[a], s)
    IN /\ n <= 1 + losses[a]
       /\ \/ \E j \in DOMAIN anchored[a] : anchored[a][j] > s
          \/ Memory(a) = WindowKeyFor(s, cfg.zone)
          \/ n <= losses[a]

\* Marks are of anchors that had begun at the latest tick.
MarksInv ==
  \A a \in Accounts : \A i \in DOMAIN anchored[a] :
    LET s == anchored[a][i] IN
    /\ s \in cfg.anchors[a] /\ s <= clock
    /\ tickBuf # 0 => s <= tickBuf
    /\ pc \in InPass => s <= pass.tick

\* The file that the first process finds stands for no mark.
FirstInv ==
  /\ lives = 0 => pc = "none"
  /\ lives = 0 \/ (lives = 1 /\ pc = "load") => \A a \in Accounts : anchored[a] = <<>>

\* A call of anchorAccount is for the slot chosen, or is the probe's.
CallInv ==
  /\ \A m \in Managers : task[m] = NoTask
  /\ IF pc = "probing" THEN task[Loop] # NoTask => task[Loop].key = ProbeKey
                       ELSE TaskInv

RefireInv ==
  /\ LifeTypeInv /\ GoneInv /\ TimeInv /\ ChosenInv /\ CallInv
  /\ FreshInv /\ MarksInv /\ FirstInv /\ CountInv

\* Nothing was ever marked.
LEMMA RefireInit == LifeInit => RefireInv
<1> SUFFICES ASSUME LifeInit PROVE RefireInv
  OBVIOUS
<1>1. LifeTypeInv /\ GoneInv
  BY LifeInitTypes, GoneInit
<1>2. \A a \in Accounts : anchored[a] = <<>> /\ DOMAIN anchored[a] = {}
  BY DEF LifeInit
<1>3. TimeInv /\ ChosenInv /\ CallInv /\ FreshInv
  BY LoopIsCaller DEF LifeInit, TimeInv, ChosenInv, CallInv, TaskInv, FreshInv, NewPass,
                      Callers
<1>4. MarksInv /\ FirstInv /\ CountInv
  BY <1>2 DEF LifeInit, MarksInv, FirstInv, CountInv
<1> QED
  BY <1>1, <1>3, <1>4 DEF RefireInv

----------------------------------------------------------------------------
(* The choice, the call and the ticks, from one process to the next *)

\* Only the loop's own call of anchorAccount moves.
LEMMA LoopRunsTasks ==
  ASSUME ValuesOK, LoopRuns
  PROVE  \A m \in Managers : task'[m] = task[m]
<1> USE ConstantsAssumption, LoopIsCaller DEF Callers, ValuesOK
<1>1. CASE RunLoop
  <2>1. CASE LoopStep \/ LoopDone \/ StaggerCancelled
    BY <2>1 DEF LoopStep, Wake, Consider, CheckBackoff, CheckLedger, CheckNext, CallAnchor,
       AnchorReturned, LoopDone, StaggerCancelled
  <2>2. CASE AnchorStep(Loop)
    BY <2>2 DEF AnchorStep, AbortAnchor, DryRunAnchor, SendAnchor, AnchorSucceeded,
       AnchorRefused, AnchorFailed, Finish
  <2> QED
    BY <1>1, <2>1, <2>2 DEF RunLoop
<1>2. CASE RunHost
  BY <1>2 DEF RunHost, Serve, HandleUsage, Organic
<1>3. CASE LifeReconfigure \/ Shutdown
  BY <1>3 DEF LifeReconfigure, Shutdown
<1>4. CASE ShutdownWaited \/ ShutdownWritten
  BY <1>4 DEF ShutdownWaited, Persist, ShutdownWritten, vars
<1>5. ASSUME NEW d \in Steps, LifeAdvance(d) PROVE UNCHANGED task
  BY <1>5 DEF LifeAdvance, Advance
<1> QED
  BY <1>1, <1>2, <1>3, <1>4, <1>5 DEF LoopRuns

\* A probe's call stays the probe's until it returns.
LEMMA ProbingRuns ==
  ASSUME ValuesOK, PlaceInv, pc = "probing", LoopRuns
  PROVE  /\ pc' = "probing"
         /\ task'[Loop] # NoTask => task[Loop] # NoTask /\ task'[Loop].key = task[Loop].key
<1> USE LoopIsCaller
<1>1. ~(LoopStep \/ LoopDone \/ StaggerCancelled)
  BY DEF LoopStep, Wake, Consider, CheckBackoff, CheckLedger, CheckNext, CallAnchor,
     AnchorReturned, LoopDone, StaggerCancelled
<1>2. CASE AnchorStep(Loop) \/ Serve(Loop)
  <2>1. pc' = pc /\ task[Loop] # NoTask
    BY <1>2, TaskSteps
  <2>2. task'[Loop] # NoTask => task'[Loop].key = task[Loop].key
    BY <1>2, <2>1 DEF AnchorStep, AbortAnchor, DryRunAnchor, SendAnchor, MayFire,
       Finish, AnchorSucceeded, AnchorRefused, AnchorFailed, Serve, ValuesOK, Task
  <2> QED
    BY <2>1, <2>2
<1>3. CASE UNCHANGED <<pc, task>>
  BY <1>3
<1>4. RunHost => AnchorStep(Loop) \/ Serve(Loop) \/ UNCHANGED <<pc, task>>
  BY DEF RunHost, HandleUsage, Organic, loopVars
<1>5. ASSUME NEW d \in Steps, LifeAdvance(d) PROVE UNCHANGED <<pc, task>>
  BY <1>5 DEF LifeAdvance, Advance, loopVars
<1>6. LifeReconfigure \/ Shutdown => UNCHANGED <<pc, task>>
  BY DEF LifeReconfigure, Shutdown, loopVars
<1>7. ShutdownWaited \/ ShutdownWritten => UNCHANGED <<pc, task>>
  BY DEF ShutdownWaited, Persist, ShutdownWritten, vars, loopVars
<1> QED
  BY <1>1, <1>2, <1>3, <1>4, <1>5, <1>6, <1>7 DEF LoopRuns, RunLoop

\* Every step keeps the calls of anchorAccount in line with the loop.
LEMMA CallKept ==
  ASSUME LifeTypeInv, PlaceInv, CallInv, [LifeNext]_allVars
  PROVE  CallInv'
<1> USE LoopIsCaller
<1>1. CASE LoopRuns
  <2>1. \A m \in Managers : task'[m] = NoTask
    BY <1>1, LoopRunsTasks DEF CallInv, LifeTypeInv
  <2>2. CASE pc = "probing"
    BY <1>1, <2>1, <2>2, ProbingRuns DEF CallInv, LifeTypeInv
  <2>3. CASE pc # "probing"
    <3>1. TaskInv'
      BY <1>1, <2>3, LoopRunsSteps, NextTaskInv DEF CallInv, LifeTypeInv
    <3>2. pc' # "probing"
      BY <1>1, <2>3, LoopRunsSteps, NextPlaces DEF LifeTypeInv, InPass, loopVars
    <3> QED
      BY <2>1, <3>1, <3>2 DEF CallInv
  <2> QED
    BY <2>2, <2>3
<1>2. ASSUME UNCHANGED task, task[Loop] = NoTask PROVE CallInv'
  BY <1>2 DEF CallInv, TaskInv
<1>3. CASE Starts
  <2>1. CASE ProbeAccount
    <3>1. CASE UNCHANGED task
      BY <1>2, <2>1, <3>1 DEF ProbeAccount, PlaceInv
    <3>2. CASE /\ pc' = "probing"
               /\ task' = [task EXCEPT ![Loop] =
                    NewTask(CurrentAccount, [key |-> ProbeKey, fireAt |-> clock],
                            pass.cfg.dryRun)]
      <4>1. task'[Loop].key = ProbeKey
        BY <3>2 DEF LifeTypeInv, ValuesOK, NewTask
      <4>2. \A m \in Managers : task'[m] = task[m]
        BY <3>2, ConstantsAssumption DEF LifeTypeInv, ValuesOK, Callers
      <4> QED
        BY <3>2, <4>1, <4>2 DEF CallInv
    <3> QED
      BY <2>1, <3>1, <3>2 DEF ProbeAccount
  <2>2. CASE Load \/ Begin \/ Probe \/ StartTicker \/ ProbeGoesOn \/ ProbeCancelled
    BY <1>2, <2>2 DEF Load, Begin, Probe, StartTicker, ProbeGoesOn, ProbeCancelled,
                      PlaceInv
  <2>3. CASE ProbeReturned
    BY <1>2, <2>3 DEF ProbeReturned
  <2> QED
    BY <1>3, <2>1, <2>2, <2>3 DEF Starts, StartUp
<1>4. CASE Processes
  <2>1. CASE Register
    BY <1>2, <2>1 DEF Register, PlaceInv
  <2>2. CASE LoopPanics \/ Exit \/ Crash
    <3>1. pc' = "none" /\ task' = [c \in Callers |-> NoTask]
      BY <2>2 DEF LoopPanics, Exit, Crash, ProcessEnds
    <3> QED
      BY <3>1 DEF CallInv, TaskInv, Callers
  <2>3. ASSUME ~Ticking, NEW d \in Steps, LifeAdvance(d) PROVE CallInv'
    <3>1. UNCHANGED <<pc, pass, task>>
      BY <2>3 DEF LifeAdvance, loopVars
    <3> QED
      BY <3>1 DEF CallInv, TaskInv, CurrentAccount
  <2> QED
    BY <1>4, <2>1, <2>2, <2>3 DEF Processes
<1>5. CASE UNCHANGED allVars
  <2>1. UNCHANGED <<pc, pass, task>>
    BY <1>5 DEF allVars, vars, loopVars
  <2> QED
    BY <2>1 DEF CallInv, TaskInv, CurrentAccount
<1> QED
  BY <1>1, <1>3, <1>4, <1>5, LifeSteps

\* Time goes forward, and a pass is for the tick that it took from the channel.
LEMMA TicksForward ==
  ASSUME LifeTypeInv, TimeInv, [LifeNext]_allVars
  PROVE  /\ clock' >= clock
         /\ tickBuf' # 0 => tickBuf' = tickBuf \/ tickBuf' > clock
         /\ pc' \in InPass => \/ pc \in InPass /\ pass'.tick = pass.tick
                              \/ tickBuf # 0 /\ pass'.tick = tickBuf
<1> USE DEF envVars
<1>1. clock \in Nat /\ pass \in PassType
  BY DEF LifeTypeInv, ValuesOK
<1>2. CASE LoopStep
  <2>1. ASSUME NextAccount, pc \in InPass
        PROVE  pc' \in InPass => pc \in InPass /\ pass'.tick = pass.tick
    BY <2>1 DEF NextAccount, NewPass
  <2>2. CASE Wake
    BY <1>1, <2>2 DEF Wake, NewPass, InPass
  <2>3. CASE Consider
    BY <1>1, <2>1, <2>3 DEF Consider, InPass, PassType
  <2>4. CASE CheckBackoff
    BY <1>1, <2>1, <2>4 DEF CheckBackoff, InPass
  <2>5. CASE CheckLedger \/ CheckNext
    <3>1. pc \in InPass /\ UNCHANGED <<clock, tickBuf>>
      BY <2>5, DueSlotSteps DEF LifeTypeInv, InPass
    <3> QED
      BY <1>1, <2>1, <2>5, <3>1, DueSlotSteps DEF SlotChosen, LifeTypeInv
  <2>6. CASE CallAnchor
    BY <1>1, <2>6 DEF CallAnchor, InPass
  <2>7. CASE AnchorReturned
    BY <1>1, <2>1, <2>7 DEF AnchorReturned, InPass
  <2> QED
    BY <1>2, <2>2, <2>3, <2>4, <2>5, <2>6, <2>7 DEF LoopStep
<1>3. CASE LoopDone \/ StaggerCancelled
  BY <1>1, <1>3 DEF LoopDone, StaggerCancelled, InPass
<1>4. CASE UNCHANGED <<loopVars, clock, tickBuf>>
  BY <1>1, <1>4 DEF loopVars
<1>5. ASSUME UNCHANGED loopVars, NEW d \in Steps, Advance(d)
      PROVE  /\ clock' >= clock
             /\ tickBuf' # 0 => tickBuf' = tickBuf \/ tickBuf' > clock
             /\ pc' \in InPass => pc \in InPass /\ pass'.tick = pass.tick
  <2>1. d \in Nat /\ clock' = clock + d
    BY <1>5, ConstantsAssumption DEF Advance
  <2>2. tickBuf' = tickBuf \/ tickBuf' \in (clock + 1)..(clock + d)
    BY <1>5 DEF Advance
  <2> QED
    BY <1>1, <1>5, <2>1, <2>2 DEF loopVars
<1>6. CASE LoopRuns
  <2>1. [Next]_vars
    BY <1>6, LoopRunsSteps DEF LifeTypeInv
  <2> QED
    BY <2>1, <1>2, <1>3, <1>4, <1>5, OthersKeepLoop
<1>7. CASE Starts
  <2>1. pc' \notin InPass /\ UNCHANGED <<clock, tickBuf>>
    BY <1>7 DEF Starts, StartUp, Load, Begin, Probe, ProbeAccount, ProbeReturned,
       StartTicker, ProbeGoesOn, ProbeCancelled, InPass
  <2> QED
    BY <1>1, <2>1
<1>8. CASE Processes
  <2>1. CASE Register \/ LoopPanics \/ Exit \/ Crash
    <3>1. pc' \notin InPass /\ clock' = clock /\ tickBuf' \in {0, tickBuf}
      BY <2>1 DEF Register, LoopPanics, Exit, Crash, ProcessEnds, InPass
    <3> QED
      BY <1>1, <3>1
  <2>2. ASSUME ~Ticking, NEW d \in Steps, LifeAdvance(d)
        PROVE  clock' >= clock /\ UNCHANGED <<loopVars, tickBuf>>
    BY <1>1, <2>2, ConstantsAssumption DEF LifeAdvance
  <2> QED
    BY <1>8, <2>1, <2>2 DEF Processes, loopVars
<1>9. CASE UNCHANGED allVars
  BY <1>4, <1>9 DEF allVars, vars
<1> QED
  BY <1>6, <1>7, <1>8, <1>9, LifeSteps

\* A pass that is only begun has tick 0.
LEMMA StartPass ==
  ASSUME LifeTypeInv, TimeInv, Starts \/ Processes
  PROVE  pass'.tick = 0 \/ pass'.tick = pass.tick
<1>1. pass \in PassType
  BY DEF LifeTypeInv, ValuesOK
<1>2. CASE Starts
  BY <1>1, <1>2 DEF Starts, StartUp, Load, Begin, Probe, ProbeAccount, ProbeReturned,
     StartTicker, ProbeGoesOn, ProbeCancelled, NewPass, PassType
<1>3. CASE Processes
  <2>1. CASE Register \/ LoopPanics \/ Exit \/ Crash
    BY <2>1 DEF Register, LoopPanics, Exit, Crash, ProcessEnds, NewPass
  <2>2. ASSUME ~Ticking, NEW d \in Steps, LifeAdvance(d) PROVE pass' = pass
    BY <2>2 DEF LifeAdvance, loopVars
  <2> QED
    BY <1>3, <2>1, <2>2 DEF Processes
<1> QED
  BY <1>2, <1>3

\* What AnchorLoop's invariants say of ticks and of the chosen slot goes on to
\* hold from one process to the next.
LEMMA ChoiceKept ==
  ASSUME LifeTypeInv, TimeInv, ChosenInv, [LifeNext]_allVars
  PROVE  TimeInv' /\ ChosenInv'
<1>1. CASE LoopRuns
  BY <1>1, LoopRunsSteps, NextTimeInv, NextChosenInv DEF LifeTypeInv
<1>2. CASE UNCHANGED allVars
  <2>1. [Next]_vars
    BY <1>2 DEF allVars
  <2> QED
    BY <2>1, NextTimeInv, NextChosenInv DEF LifeTypeInv
<1>3. CASE Starts \/ Processes
  <2>1. pass.tick \in Nat /\ tickBuf \in Nat /\ clock \in Nat
    BY DEF LifeTypeInv, ValuesOK, PassType
  <2>2. clock' >= clock /\ clock' \in Nat /\ tickBuf' \in {0, tickBuf}
    <3>1. CASE Starts
      BY <2>1, <3>1 DEF Starts, StartUp, Load, Begin, Probe, ProbeAccount,
         ProbeReturned, StartTicker, ProbeGoesOn, ProbeCancelled, envVars
    <3>2. CASE Register \/ LoopPanics \/ Exit \/ Crash
      BY <2>1, <3>2 DEF Register, LoopPanics, Exit, Crash, ProcessEnds
    <3>3. ASSUME ~Ticking, NEW d \in Steps, LifeAdvance(d)
          PROVE  clock' >= clock /\ clock' \in Nat /\ tickBuf' = tickBuf
      BY <2>1, <3>3, ConstantsAssumption DEF LifeAdvance
    <3> QED
      BY <1>3, <3>1, <3>2, <3>3 DEF Processes
  <2>3. TimeInv'
    BY <1>3, <2>1, <2>2, StartPass DEF TimeInv
  <2>4. ChosenInv'
    <3>1. CASE Starts \/ Register \/ LoopPanics \/ Exit \/ Crash
      <4>1. pc' \notin {"stagger", "anchor"}
        BY <3>1 DEF Starts, StartUp, Load, Begin, Probe, ProbeAccount, ProbeReturned,
           StartTicker, ProbeGoesOn, ProbeCancelled, Register, LoopPanics, Exit, Crash,
           ProcessEnds
      <4> QED
        BY <4>1 DEF ChosenInv
    <3>2. ASSUME ~Ticking, NEW d \in Steps, LifeAdvance(d) PROVE ChosenInv'
      BY <3>2 DEF LifeAdvance, loopVars, ChosenInv, CurrentAnchors, CurrentAccount
    <3> QED
      BY <1>3, <3>1, <3>2 DEF Processes
  <2> QED
    BY <2>3, <2>4
<1> QED
  BY <1>1, <1>2, <1>3, LifeSteps

----------------------------------------------------------------------------
(* What a step does to the marks and to what is remembered of them *)

\* No operation of the ledger but MarkAnchored writes the last key (state.go).
LEMMA KeyUntouched ==
  ASSUME NEW e \in Entry
  PROVE  \A t : ObserveReset(e, t).lastKey = e.lastKey
BY DEF ObserveReset, Entry

\* The host's steps leave the marks and the last keys alone.
LEMMA HostKeepsKeys ==
  ASSUME ValuesOK, RunHost
  PROVE  /\ UNCHANGED <<anchored, loopVars, lifeVars>> /\ pc # "none"
         /\ \A a \in Accounts : ledger'[a].lastKey = ledger[a].lastKey
<1> USE DEF history
<1>1. CASE Serve(Loop)
  BY <1>1 DEF RunHost, Serve
<1>2. CASE HandleUsage
  <2>1. PICK u \in usage :
          ledger' = [ledger EXCEPT ![u.acct] = ObserveReset(ledger[u.acct], u.reset)]
    BY <1>2 DEF HandleUsage, SetEntry
  <2> QED
    BY <1>2, <2>1, KeyUntouched DEF RunHost, HandleUsage, ValuesOK
<1>3. ASSUME NEW a \in Accounts, Organic(a)
      PROVE  UNCHANGED <<anchored, loopVars, ledger>>
  BY <1>3 DEF Organic
<1> QED
  BY <1>1, <1>2, <1>3 DEF RunHost

\* The loop's slot is marked: nothing else happens, and nothing is lost.
SlotMarked ==
  /\ pc = "anchor" /\ task[Loop] # NoTask
  /\ MarkTask(task[Loop]) /\ task'[Loop] = NoTask
  /\ UNCHANGED <<envVars, loopVars, settings, pollZero, stop, file, lives, losses>>

\* What is remembered of an account stays, or is no slot's key, or its loss is
\* counted; or there is nothing to remember.
KeyKept(a) ==
  /\ losses'[a] >= losses[a]
  /\ \/ Memory(a)' = Memory(a)
     \/ Memory(a).kind # "slot"
     \/ losses'[a] >= losses[a] + 1
     \/ anchored[a] = <<>>

\* A loss that is counted is one more for each of its accounts.
LEMMA LossCounted ==
  ASSUME LifeValuesOK, NEW lost, Lose(lost), NEW a \in Accounts
  PROVE  /\ losses'[a] \in Nat /\ losses'[a] >= losses[a]
         /\ a \in lost => losses'[a] = losses[a] + 1
         /\ a \notin lost => losses'[a] = losses[a]
BY DEF LifeValuesOK, Lose

\* A step of the loop: it marks its slot, or the key of its probe, or nothing.
LEMMA LoopMarks ==
  ASSUME LifeTypeInv, GoneInv, CallInv, ChosenInv, RunLoop
  PROVE  \/ SlotMarked
         \/ UNCHANGED anchored /\ \A a \in Accounts : KeyKept(a)
<1> USE LoopIsCaller DEF LifeTypeInv
<1>1. [AutoNext]_vars /\ LoopRuns
  BY DEF RunLoop, AutoNext, LoopRuns
<1>2. stop' = stop /\ file' = file /\ ProbeForgets
  BY DEF RunLoop
<1>3. /\ stop # "done" /\ pc \notin {"none", "load"} /\ pc' \notin {"none", "load"}
  <2>1. pc \in InPass \union {"select", "probing"}
    <3>1. CASE LoopStep \/ LoopDone \/ StaggerCancelled
      BY <3>1 DEF LoopStep, Wake, Consider, CheckBackoff, CheckLedger, CheckNext, CallAnchor,
         AnchorReturned, LoopDone, StaggerCancelled, InPass
    <3>2. CASE AnchorStep(Loop)
      BY <3>2, TaskSteps DEF GoneInv, PlaceInv, InPass
    <3> QED
      BY <3>1, <3>2 DEF RunLoop
  <2>2. pc' = pc \/ pc' \in InPass \union {"select", "exited"}
    BY <1>1, LoopRunsSteps, NextPlaces DEF loopVars
  <2> QED
    BY <2>1, <2>2 DEF GoneInv, ShutdownLeavesNoLoop, InPass
<1>4. ~InFile /\ ~InFile'
  BY <1>2, <1>3 DEF InFile
<1>5. \A a \in Accounts : losses'[a] >= losses[a]
  BY <1>2, LossCounted DEF ProbeForgets
<1>6. CASE /\ UNCHANGED <<cfg, anchored>>
           /\ \A a \in Accounts : ledger'[a].lastKey = ledger[a].lastKey
  BY <1>4, <1>5, <1>6 DEF KeyKept, Memory
<1>7. CASE /\ task[Loop] # NoTask /\ MarkTask(task[Loop]) /\ Finish(Loop)
           /\ UNCHANGED <<envVars, loopVars>>
  <2> DEFINE t == task[Loop]
  <2>1. t \in Task /\ task'[Loop] = NoTask
    BY <1>7 DEF ValuesOK, Finish
  <2>2. /\ t.acct \in Accounts
        /\ ledger' = [ledger EXCEPT ![t.acct] = MarkAnchored(ledger[t.acct], t.key)]
    BY <1>7, <2>1 DEF MarkTask, SetEntry, Task
  <2>3. /\ ledger'[t.acct].lastKey = t.key
        /\ \A a \in Accounts \ {t.acct} : ledger'[a] = ledger[a]
    BY <2>2 DEF ValuesOK, MarkAnchored, Entry
  <2>4. CASE pc = "probing"
    <3>1. t.key = ProbeKey
      BY <1>7, <2>4 DEF CallInv
    <3>2. UNCHANGED anchored
      BY <1>7, <3>1 DEF MarkTask, ProbeKey
    <3>3. ASSUME NEW a \in Accounts PROVE KeyKept(a)
      <4>1. CASE a = t.acct /\ ledger[a].lastKey.kind = "slot"
        <5>1. losses'[a] = losses[a] + 1
          BY <1>2, <2>3, <3>1, <4>1, LossCounted DEF ProbeForgets
        <5> QED
          BY <1>5, <5>1 DEF KeyKept, LifeValuesOK
      <4>2. CASE a # t.acct \/ ledger[a].lastKey.kind # "slot"
        BY <1>4, <1>5, <2>3, <4>2 DEF KeyKept, Memory
      <4> QED
        BY <4>1, <4>2
    <3> QED
      BY <3>2, <3>3
  <2>5. CASE pc # "probing"
    <3>1. pc = "anchor" /\ t.key.kind = "slot"
      BY <1>7, <2>5 DEF CallInv, TaskInv, ChosenInv, WindowKeyFor
    <3>2. \A a \in Accounts : ~(/\ ledger[a].lastKey.kind = "slot"
                               /\ ledger'[a].lastKey = ProbeKey)
      BY <2>3, <3>1 DEF ProbeKey
    <3>3. losses' = losses
      BY <1>2, <3>2 DEF ProbeForgets, Lose, LifeValuesOK
    <3> QED
      BY <1>7, <2>1, <3>1, <3>3 DEF SlotMarked, RunLoop
  <2> QED
    BY <2>4, <2>5
<1> QED
  BY <1>1, <1>6, <1>7, MarkOrKeep

\* A key that the file holds is read back, unless the process has no state-file:
\* then everything is lost (state.go:250, loop.go:19).
LEMMA LoadMarks ==
  ASSUME LifeTypeInv, FirstInv, Load, stop # "done"
  PROVE  UNCHANGED anchored /\ \A a \in Accounts : KeyKept(a)
<1> USE DEF LifeTypeInv
<1>1. UNCHANGED anchored /\ UNCHANGED <<stop, file, lives>>
  BY DEF Load, history
<1>2. InFile /\ ~InFile'
  BY <1>1 DEF Load, InFile
<1> SUFFICES ASSUME NEW a \in Accounts PROVE KeyKept(a)
  BY <1>1
<1>3. losses'[a] >= losses[a]
  BY LossCounted DEF Load
<1>4. CASE ~file.readable
  BY <1>2, <1>3, <1>4 DEF Memory, KeyKept, NoKey
<1>5. CASE file.readable /\ ~settings.saves
  <2>1. CASE lives = 1
    BY <1>3, <2>1 DEF FirstInv, Load, KeyKept
  <2>2. CASE lives # 1
    <3>1. losses'[a] = losses[a] + 1
      BY <1>5, <2>2, LossCounted DEF Load
    <3> QED
      BY <1>3, <3>1 DEF KeyKept, LifeValuesOK
  <2> QED
    BY <2>1, <2>2
<1>6. CASE file.readable /\ settings.saves
  <2>1. PICK s \in SUBSET Accounts :
          /\ {b \in Accounts : file.entries[b] # EmptyEntry} \subseteq s
          /\ ledger' = [b \in Accounts |-> IF b \in s THEN file.entries[b] ELSE ledger[b]]
    BY <1>6 DEF Load, Merged
  <2>2. a \in s => ledger'[a] = file.entries[a]
    BY <2>1
  <2>3. a \notin s => file.entries[a] = EmptyEntry
    BY <2>1
  <2>4. Memory(a) = file.entries[a].lastKey /\ Memory(a)' = ledger'[a].lastKey
    BY <1>1, <1>2, <1>6 DEF Memory
  <2> QED
    BY <1>3, <2>2, <2>3, <2>4 DEF KeyKept, EmptyEntry, NoKey
<1> QED
  BY <1>4, <1>5, <1>6

\* The end of a process: the file stands for the ledger, or a loss is counted.
LEMMA EndMarks ==
  ASSUME LifeTypeInv, GoneInv,
         \/ ShutdownWaited \/ ShutdownWritten \/ LoopPanics \/ Exit \/ Crash
  PROVE  UNCHANGED anchored /\ \A a \in Accounts : KeyKept(a)
<1> USE DEF LifeTypeInv, GoneInv, ShutdownLeavesNoLoop
<1>1. UNCHANGED anchored
  BY DEF ShutdownWaited, ShutdownWritten, Persist, LoopPanics, Exit, Crash, ProcessEnds,
         vars, history
<1> SUFFICES ASSUME NEW a \in Accounts PROVE KeyKept(a)
  BY <1>1
<1>2. losses[a] \in Nat
  BY DEF LifeValuesOK
<1>3. CASE Lose(Accounts)
  <2>1. losses'[a] = losses[a] + 1
    BY <1>3, LossCounted
  <2> QED
    BY <1>2, <2>1 DEF KeyKept
<1>4. CASE ShutdownWaited /\ stop' = "write" /\ UNCHANGED losses
  <2>1. pc = "exited" /\ pc' = "exited" /\ ledger' = ledger /\ stop = "wait"
    BY <1>4 DEF ShutdownWaited, Persist, vars, loopVars
  <2>2. ~InFile /\ ~InFile'
    BY <1>4, <2>1 DEF InFile
  <2> QED
    BY <1>2, <1>4, <2>1, <2>2 DEF Memory, KeyKept
<1>5. CASE /\ ShutdownWritten /\ UNCHANGED losses
           /\ file' = [readable |-> TRUE, entries |-> ledger]
  <2>1. pc = "exited" /\ stop = "write" /\ stop' = "done"
    BY <1>5 DEF ShutdownWritten
  <2>2. ~InFile /\ InFile'
    BY <2>1 DEF InFile
  <2>3. Memory(a)' = ledger[a].lastKey
    BY <1>5, <2>2 DEF Memory
  <2> QED
    BY <1>2, <1>5, <2>2, <2>3 DEF Memory, KeyKept
<1>6. CASE Exit
  <2>1. stop = "done" /\ pc' = "none" /\ UNCHANGED <<file, losses>>
    BY <1>6 DEF Exit, ProcessEnds
  <2>2. InFile /\ InFile'
    BY <2>1 DEF InFile
  <2> QED
    BY <1>2, <2>1, <2>2 DEF Memory, KeyKept
<1> QED
  BY <1>3, <1>4, <1>5, <1>6 DEF ShutdownWaited, ShutdownWritten, Persist, LoopPanics, Crash

\* Every step marks the loop's slot, or leaves the marks and what is remembered.
LEMMA MarksOrKeeps ==
  ASSUME LifeTypeInv, GoneInv, CallInv, ChosenInv, FirstInv, [LifeNext]_allVars
  PROVE  \/ SlotMarked
         \/ UNCHANGED anchored /\ \A a \in Accounts : KeyKept(a)
<1> USE DEF LifeTypeInv
<1>1. \A a \in Accounts : losses[a] \in Nat
  BY DEF LifeValuesOK
<1>2. ASSUME UNCHANGED <<anchored, file, losses>>, InFile <=> InFile',
             \A a \in Accounts : ledger'[a].lastKey = ledger[a].lastKey
      PROVE  UNCHANGED anchored /\ \A a \in Accounts : KeyKept(a)
  BY <1>1, <1>2 DEF Memory, KeyKept
<1>3. CASE RunLoop
  BY <1>3, LoopMarks
<1>4. CASE RunHost
  <2>1. UNCHANGED <<pc, stop, file, losses, anchored>>
    BY <1>4, HostKeepsKeys DEF loopVars, lifeVars
  <2>2. InFile <=> InFile'
    BY <2>1 DEF InFile
  <2> QED
    BY <1>2, <1>4, <2>1, <2>2, HostKeepsKeys
<1>5. CASE LifeReconfigure
  <2>1. UNCHANGED <<pc, stop, file, losses, anchored, ledger>>
    BY <1>5 DEF LifeReconfigure, loopVars, history
  <2> QED
    BY <1>2, <2>1 DEF InFile
<1>6. CASE Shutdown
  <2>1. UNCHANGED <<pc, file, losses, anchored, ledger>> /\ stop = "no" /\ stop' = "wait"
    BY <1>6 DEF Shutdown, loopVars, history
  <2>2. InFile <=> InFile'
    BY <2>1 DEF InFile
  <2> QED
    BY <1>2, <2>1, <2>2
<1>7. ASSUME NEW d \in Steps, LifeAdvance(d)
      PROVE  UNCHANGED anchored /\ \A a \in Accounts : KeyKept(a)
  <2>1. UNCHANGED <<pc, stop, file, losses, anchored, ledger>>
    BY <1>7 DEF LifeAdvance, Advance, loopVars, lifeVars, history
  <2> QED
    BY <1>2, <2>1 DEF InFile
<1>8. CASE Load
  <2>1. stop # "done"
    BY <1>8 DEF Load, GoneInv, ShutdownLeavesNoLoop
  <2> QED
    BY <1>8, <2>1, LoadMarks
<1>9. CASE Starts /\ ~Load
  <2>1. /\ UNCHANGED <<stop, file, losses, anchored, ledger>>
        /\ pc \notin {"none", "load"} /\ pc' \notin {"none", "load"}
    <3>1. CASE ProbeAccount
      BY <3>1 DEF ProbeAccount, lifeVars, history
    <3>2. CASE ~ProbeAccount
      BY <1>9, <3>2 DEF Starts, StartUp, Begin, Probe, ProbeReturned, StartTicker,
         ProbeGoesOn, ProbeCancelled, lifeVars, history
    <3> QED
      BY <3>1, <3>2
  <2>2. InFile <=> InFile'
    BY <2>1 DEF InFile
  <2> QED
    BY <1>2, <2>1, <2>2
<1>10. CASE Register
  <2>1. /\ UNCHANGED <<stop, file, losses, anchored, ledger>>
        /\ pc = "none" /\ pc' = "load"
    BY <1>10 DEF Register, history
  <2>2. InFile <=> InFile'
    BY <2>1 DEF InFile
  <2> QED
    BY <1>2, <2>1, <2>2
<1>11. CASE UNCHANGED allVars
  <2>1. UNCHANGED <<pc, stop, file, losses, anchored, ledger>>
    BY <1>11 DEF allVars, vars, loopVars, lifeVars, history
  <2> QED
    BY <1>2, <2>1 DEF InFile
<1>12. CASE ShutdownWaited \/ ShutdownWritten \/ LoopPanics \/ Exit \/ Crash
  BY <1>12, EndMarks
<1> QED
  BY <1>3, <1>4, <1>5, <1>6, <1>7, <1>8, <1>9, <1>10, <1>11, <1>12, LifeSteps
     DEF LoopRuns, Processes

----------------------------------------------------------------------------
(* The invariant is kept *)

\* The configuration of a pass names the slots of the current one.
LEMMA SlotsStable ==
  ASSUME StableSlots, ValuesOK
  PROVE  /\ \A c \in Configs : c.zone = cfg.zone /\ c.anchors = cfg.anchors
         /\ pass.cfg \in Configs /\ cfg \in Configs
         /\ cfg.anchors \in [Accounts -> SUBSET (Nat \ {0})]
<1>1. pass.cfg \in Configs /\ cfg \in Configs
  BY DEF ValuesOK, PassType
<1>2. cfg \in Config
  BY <1>1, ConstantsAssumption
<1> QED
  BY <1>1, <1>2 DEF StableSlots, Config

\* The slot that is marked is at or after every mark of its account, and not the
\* one that is remembered.
LEMMA SlotOfMark ==
  ASSUME StableSlots, RefireInv, SlotMarked
  PROVE  LET a == task[Loop].acct
             s == task[Loop].key.at
         IN /\ a \in Accounts /\ s \in Nat \ {0}
            /\ s \in cfg.anchors[a] /\ s <= pass.tick
            /\ \A i \in DOMAIN anchored[a] : anchored[a][i] <= s
            /\ ledger[a].lastKey # WindowKeyFor(s, cfg.zone)
            /\ ledger'[a].lastKey = WindowKeyFor(s, cfg.zone)
            /\ \A b \in Accounts \ {a} : ledger'[b] = ledger[b]
            /\ anchored' = [anchored EXCEPT ![a] = Append(@, s)]
<1> DEFINE a == task[Loop].acct
           s == task[Loop].key.at
<1> USE DEF RefireInv, LifeTypeInv
<1>1. /\ pc = "anchor" /\ a = CurrentAccount
      /\ task[Loop].key = pass.slot.key
  BY DEF SlotMarked, CallInv, TaskInv
<1>2. a \in Accounts /\ CurrentAnchors \in SUBSET Nat
  BY <1>1, CurrentValues DEF InPass
<1>3. /\ s \in PreviousAnchors(cfg.anchors[a], pass.tick)
      /\ task[Loop].key = WindowKeyFor(s, cfg.zone)
  BY <1>1, SlotsStable DEF ChosenInv, CurrentAnchors
<1>4. cfg.anchors[a] \in SUBSET (Nat \ {0})
  BY <1>2, SlotsStable
<1>5. /\ s \in cfg.anchors[a] /\ s \in Nat \ {0} /\ s <= pass.tick
      /\ \A y \in cfg.anchors[a] : y <= pass.tick => y <= s
  BY <1>3, <1>4 DEF PreviousAnchors
<1>6. \A i \in DOMAIN anchored[a] : anchored[a][i] <= s
  BY <1>1, <1>2, <1>5 DEF MarksInv, InPass
<1>7. ledger[a].lastKey # WindowKeyFor(s, cfg.zone)
  BY <1>1, <1>3 DEF FreshInv, SlotMarked
<1>8. /\ ledger' = [ledger EXCEPT ![a] = MarkAnchored(ledger[a], task[Loop].key)]
      /\ anchored' = [anchored EXCEPT ![a] = Append(@, s)]
  BY <1>3 DEF SlotMarked, MarkTask, SetEntry, WindowKeyFor
<1>9. /\ ledger'[a].lastKey = WindowKeyFor(s, cfg.zone)
      /\ \A b \in Accounts \ {a} : ledger'[b] = ledger[b]
  BY <1>2, <1>3, <1>8 DEF ValuesOK, MarkAnchored, Entry
<1> QED
  BY <1>2, <1>5, <1>6, <1>7, <1>8, <1>9

\* The marks of a slot, one more or as many as before.
LEMMA CountAppend ==
  ASSUME NEW seq \in Seq(Nat), NEW p \in Nat, NEW s \in Nat
  PROVE  /\ Count(seq, s) \in Nat
         /\ Count(Append(seq, p), s) = Count(seq, s) + (IF s = p THEN 1 ELSE 0)
         /\ (\A i \in DOMAIN seq : seq[i] # s) => Count(seq, s) = 0
<1> DEFINE n == Len(seq)
           new == Append(seq, p)
<1>1. /\ n \in Nat /\ DOMAIN seq = 1..n /\ DOMAIN new = 1..(n + 1)
      /\ new[n + 1] = p /\ \A i \in 1..n : new[i] = seq[i]
  BY AppendProperties, LenProperties
<1>2. IsFiniteSet(Places(seq, s)) /\ n + 1 \notin Places(seq, s)
  <2>1. IsFiniteSet(1..n) /\ Places(seq, s) \in SUBSET (1..n)
    BY <1>1, FS_Interval DEF Places
  <2> QED
    BY <1>1, <2>1, FS_Subset
<1>3. Count(seq, s) \in Nat
  BY <1>2, FS_CardinalityType DEF Count
<1> HIDE DEF n, new
<1>4. ASSUME s = p PROVE Count(new, s) = Count(seq, s) + 1
  <2>1. Places(new, s) = Places(seq, s) \cup {n + 1}
    BY <1>1, <1>4 DEF Places
  <2>2. Count(new, s) = Count(seq, s) + 1
    BY <1>2, <2>1, FS_AddElement DEF Count
  <2> QED
    BY <1>4, <2>2
<1>5. ASSUME s # p PROVE Count(new, s) = Count(seq, s)
  <2>1. Places(new, s) = Places(seq, s)
    BY <1>1, <1>5 DEF Places
  <2>2. Count(new, s) = Count(seq, s)
    BY <2>1 DEF Count
  <2> QED
    BY <1>3, <1>5, <2>2
<1>6. ASSUME \A i \in DOMAIN seq : seq[i] # s PROVE Count(seq, s) = 0
  <2>1. Places(seq, s) = {}
    BY <1>6 DEF Places
  <2> QED
    BY <2>1, FS_EmptySet DEF Count
<1> QED
  BY <1>3, <1>4, <1>5, <1>6 DEF new

\* Marking the loop's slot: if it was marked before, it has been forgotten since,
\* so that a loss is left for the mark.
LEMMA MarkCounts ==
  ASSUME StableSlots, RefireInv, SlotMarked
  PROVE  MarksInv' /\ CountInv'
<1> DEFINE a == task[Loop].acct
           p == task[Loop].key.at
           old == anchored[a]
           new == anchored'[a]
<1> USE DEF RefireInv, LifeTypeInv
<1>1. /\ a \in Accounts /\ p \in Nat \ {0}
      /\ p \in cfg.anchors[a] /\ p <= pass.tick
      /\ \A i \in DOMAIN old : old[i] <= p
      /\ ledger[a].lastKey # WindowKeyFor(p, cfg.zone)
      /\ ledger'[a].lastKey = WindowKeyFor(p, cfg.zone)
      /\ \A b \in Accounts \ {a} : ledger'[b] = ledger[b]
      /\ anchored' = [anchored EXCEPT ![a] = Append(@, p)]
  BY SlotOfMark
<1>2. /\ UNCHANGED <<clock, tickBuf, cfg, pc, pass, stop, file, lives, losses>>
      /\ pc = "anchor"
  BY DEF SlotMarked, envVars, loopVars
<1>3. /\ new = Append(old, p) /\ old \in Seq(Nat) /\ losses[a] \in Nat
      /\ \A b \in Accounts \ {a} : anchored'[b] = anchored[b]
  BY <1>1 DEF ValuesOK, LifeValuesOK
<1>4. /\ Len(old) \in Nat /\ DOMAIN old = 1..Len(old) /\ DOMAIN new = 1..(Len(old) + 1)
      /\ new[Len(old) + 1] = p /\ \A i \in DOMAIN old : new[i] = old[i]
      /\ \A i \in DOMAIN old : old[i] \in Nat
  BY <1>1, <1>3, AppendProperties, LenProperties, ElementOfSeq
<1>5. ~InFile /\ ~InFile'
  BY <1>2 DEF InFile, GoneInv, ShutdownLeavesNoLoop
<1>6. \A b \in Accounts : Memory(b) = ledger[b].lastKey /\ Memory(b)' = ledger'[b].lastKey
  BY <1>5 DEF Memory
<1> HIDE DEF a, p, old, new
<1>7. ASSUME NEW i \in DOMAIN new
      PROVE  \/ i \in DOMAIN old /\ new[i] = old[i]
             \/ i = Len(old) + 1 /\ new[i] = p
  BY <1>4, <1>7
<1>8. MarksInv'
  <2> SUFFICES ASSUME NEW b \in Accounts, NEW i \in DOMAIN anchored'[b]
               PROVE  LET s == anchored'[b][i] IN
                      /\ s \in cfg.anchors[b] /\ s <= clock
                      /\ tickBuf # 0 => s <= tickBuf
                      /\ pc \in InPass => s <= pass.tick
    BY <1>2 DEF MarksInv
  <2>1. CASE anchored'[b][i] = p /\ b = a
    <3>1. /\ pass.tick \in Nat /\ clock \in Nat /\ tickBuf \in Nat
          /\ pass.tick <= clock /\ (tickBuf # 0 => pass.tick <= tickBuf)
      BY DEF ValuesOK, PassType, TimeInv
    <3> QED
      BY <1>1, <2>1, <3>1
  <2>2. CASE b # a
    BY <1>3, <2>2 DEF MarksInv
  <2>3. CASE b = a /\ anchored'[b][i] # p
    <3>1. i \in DOMAIN old /\ anchored'[b][i] = old[i]
      BY <1>7, <2>3 DEF new
    <3> QED
      BY <2>3, <3>1 DEF MarksInv, old
  <2> QED
    BY <2>1, <2>2, <2>3
<1>9. CountInv'
  <2> SUFFICES ASSUME NEW b \in Accounts, NEW i \in DOMAIN anchored'[b]
               PROVE  LET s == anchored'[b][i]
                          n == Count(anchored'[b], s)
                      IN /\ n <= 1 + losses[b]
                         /\ \/ \E j \in DOMAIN anchored'[b] : anchored'[b][j] > s
                            \/ Memory(b)' = WindowKeyFor(s, cfg.zone)
                            \/ n <= losses[b]
    BY <1>2 DEF CountInv
  <2>1. CASE b # a
    <3>1. anchored'[b] = anchored[b] /\ Memory(b)' = Memory(b)
      BY <1>1, <1>3, <1>6, <2>1
    <3> QED
      BY <3>1 DEF CountInv
  <2>2. CASE b = a /\ new[i] = p
    <3>1. Count(new, p) = Count(old, p) + 1 /\ Count(old, p) \in Nat
      BY <1>1, <1>3, CountAppend
    <3>2. Count(old, p) <= losses[a]
      <4>1. CASE \E j \in DOMAIN old : old[j] = p
        <5>1. PICK j \in DOMAIN old : old[j] = p
          BY <4>1
        <5>2. ~\E k \in DOMAIN old : old[k] > p
          BY <1>1, <1>4
        <5>3. Memory(a) # WindowKeyFor(p, cfg.zone)
          BY <1>1, <1>6
        <5> QED
          BY <1>1, <5>1, <5>2, <5>3 DEF CountInv, old
      <4>2. CASE ~\E j \in DOMAIN old : old[j] = p
        <5>1. Count(old, p) = 0
          BY <1>1, <1>3, <4>2, CountAppend
        <5> QED
          BY <1>3, <5>1
      <4> QED
        BY <4>1, <4>2
    <3>3. Memory(b)' = WindowKeyFor(p, cfg.zone)
      BY <1>1, <1>6, <2>2
    <3>4. Count(new, p) <= 1 + losses[a]
      BY <1>3, <3>1, <3>2
    <3> QED
      BY <2>2, <3>3, <3>4 DEF new
  <2>3. CASE b = a /\ new[i] # p
    <3> DEFINE s == old[i]
    <3>1. i \in DOMAIN old /\ new[i] = s /\ s \in Nat /\ s < p
      <4>1. i \in DOMAIN new
        BY <2>3 DEF new
      <4>2. i \in DOMAIN old /\ new[i] = old[i]
        BY <1>7, <2>3, <4>1
      <4>3. old[i] \in Nat /\ old[i] <= p /\ old[i] # p
        BY <1>1, <1>4, <2>3, <4>2
      <4> QED
        BY <1>1, <4>2, <4>3
    <3>2. Count(new, s) = Count(old, s) /\ Count(old, s) \in Nat
      BY <1>1, <1>3, <3>1, CountAppend
    <3>3. Count(old, s) <= 1 + losses[a]
      BY <1>1, <3>1 DEF CountInv, old
    <3>4. Len(old) + 1 \in DOMAIN new /\ new[Len(old) + 1] > s
      BY <1>1, <1>4, <3>1
    <3> HIDE DEF s
    <3> QED
      BY <2>3, <3>1, <3>2, <3>3, <3>4 DEF new
  <2> QED
    BY <2>1, <2>2, <2>3 DEF new
<1> QED
  BY <1>8, <1>9

\* A step that marks nothing keeps the counts: what is forgotten is a loss.
LEMMA CountKept ==
  ASSUME StableSlots, RefireInv, LifeTypeInv', UNCHANGED anchored,
         \A a \in Accounts : KeyKept(a)
  PROVE  CountInv'
<1> SUFFICES ASSUME NEW a \in Accounts, NEW i \in DOMAIN anchored[a]
             PROVE  LET s == anchored[a][i]
                        n == Count(anchored[a], s)
                    IN /\ n <= 1 + losses'[a]
                       /\ \/ \E j \in DOMAIN anchored[a] : anchored[a][j] > s
                          \/ Memory(a)' = WindowKeyFor(s, cfg'.zone)
                          \/ n <= losses'[a]
  BY DEF CountInv
<1> DEFINE s == anchored[a][i]
           n == Count(anchored[a], s)
<1> USE DEF RefireInv, LifeTypeInv
<1>1. losses[a] \in Nat /\ losses'[a] \in Nat
  BY DEF LifeValuesOK
<1>2. s \in Nat /\ n \in Nat
  <2>1. anchored[a] \in Seq(Nat)
    BY DEF ValuesOK
  <2>2. s \in Nat
    BY <2>1, ElementOfSeq, LenProperties
  <2> QED
    BY <2>1, <2>2, CountAppend
<1>3. /\ n <= 1 + losses[a]
      /\ \/ \E j \in DOMAIN anchored[a] : anchored[a][j] > s
         \/ Memory(a) = WindowKeyFor(s, cfg.zone)
         \/ n <= losses[a]
  BY DEF CountInv
<1>4. cfg'.zone = cfg.zone
  <2>1. cfg' \in Configs
    BY DEF ValuesOK
  <2> QED
    BY <2>1, SlotsStable
<1>5. /\ losses'[a] >= losses[a]
      /\ \/ Memory(a)' = Memory(a)
         \/ Memory(a).kind # "slot"
         \/ losses'[a] >= losses[a] + 1
  <2>1. anchored[a] # <<>>
    OBVIOUS
  <2> QED
    BY <2>1 DEF KeyKept
<1>6. Memory(a) = WindowKeyFor(s, cfg.zone) => Memory(a).kind = "slot"
  BY DEF WindowKeyFor
<1> HIDE DEF s, n
<1>7. n <= 1 + losses'[a]
  BY <1>1, <1>2, <1>3, <1>5
<1>8. \/ \E j \in DOMAIN anchored[a] : anchored[a][j] > s
      \/ Memory(a)' = WindowKeyFor(s, cfg'.zone)
      \/ n <= losses'[a]
  BY <1>1, <1>2, <1>3, <1>4, <1>5, <1>6
<1> QED
  BY <1>7, <1>8 DEF s, n

\* Nor does time pass a mark by.
LEMMA MarksKept ==
  ASSUME StableSlots, RefireInv, LifeTypeInv', [LifeNext]_allVars, UNCHANGED anchored
  PROVE  MarksInv'
<1> SUFFICES ASSUME NEW a \in Accounts, NEW i \in DOMAIN anchored[a]
             PROVE  LET s == anchored[a][i] IN
                    /\ s \in cfg'.anchors[a] /\ s <= clock'
                    /\ tickBuf' # 0 => s <= tickBuf'
                    /\ pc' \in InPass => s <= pass'.tick
  BY DEF MarksInv
<1> DEFINE s == anchored[a][i]
<1> USE DEF RefireInv, LifeTypeInv
<1>1. /\ clock \in Nat /\ clock' \in Nat /\ tickBuf \in Nat /\ tickBuf' \in Nat
      /\ pass.tick \in Nat /\ pass'.tick \in Nat /\ cfg' \in Configs
  BY DEF ValuesOK, PassType
<1>2. s \in Nat
  BY ElementOfSeq, LenProperties DEF ValuesOK
<1>3. /\ s \in cfg.anchors[a] /\ s <= clock
      /\ tickBuf # 0 => s <= tickBuf
      /\ pc \in InPass => s <= pass.tick
  BY DEF MarksInv
<1>4. cfg'.anchors = cfg.anchors
  BY <1>1, SlotsStable
<1>5. /\ clock' >= clock
      /\ tickBuf' # 0 => tickBuf' = tickBuf \/ tickBuf' > clock
      /\ pc' \in InPass => \/ pc \in InPass /\ pass'.tick = pass.tick
                           \/ tickBuf # 0 /\ pass'.tick = tickBuf
  BY TicksForward
<1> HIDE DEF s
<1>6. s <= clock' /\ (tickBuf' # 0 => s <= tickBuf')
  BY <1>1, <1>2, <1>3, <1>5
<1>7. pc' \in InPass => s <= pass'.tick
  BY <1>1, <1>2, <1>3, <1>5
<1> QED
  BY <1>3, <1>4, <1>6, <1>7 DEF s

\* Nothing is marked before the first load (loop.go:19).
LEMMA FirstKept ==
  ASSUME RefireInv, [LifeNext]_allVars, SlotMarked \/ UNCHANGED anchored
  PROVE  FirstInv'
<1> USE DEF RefireInv, LifeTypeInv
<1>1. lives \in Nat
  BY LifeAssumption DEF LifeValuesOK
<1>2. CASE SlotMarked
  BY <1>2 DEF SlotMarked, loopVars, FirstInv
<1>3. CASE UNCHANGED anchored /\ Register
  BY <1>1, <1>3 DEF Register, FirstInv
<1>4. ASSUME UNCHANGED <<anchored, lives>>, pc' = "none" \/ (pc # "none" /\ pc' # "load")
             \/ pc' = pc
      PROVE  FirstInv'
  BY <1>1, <1>4 DEF FirstInv
<1>5. CASE LoopRuns
  <2>1. lives' = lives
    BY <1>5 DEF LoopRuns, RunLoop, RunHost, LifeReconfigure, Shutdown, ShutdownWaited,
       Persist, ShutdownWritten, LifeAdvance, lifeVars
  <2>2. pc' = pc \/ (pc # "none" /\ pc' # "load")
    <3>1. CASE LoopStep \/ LoopDone \/ StaggerCancelled
      BY <3>1 DEF LoopStep, Wake, Consider, CheckBackoff, CheckLedger, CheckNext,
         ChooseSlot, CallAnchor, AnchorReturned, LoopDone, StaggerCancelled, NextAccount
    <3>2. CASE UNCHANGED loopVars
      BY <3>2 DEF loopVars
    <3> QED
      BY <1>5, <3>1, <3>2, LoopRunsSteps, OthersKeepLoop
  <2> QED
    BY <1>2, <1>4, <2>1, <2>2
<1>6. CASE Starts
  BY <1>4, <1>2, <1>6 DEF Starts, StartUp, Load, Begin, Probe, ProbeAccount,
     ProbeReturned, StartTicker, ProbeGoesOn, ProbeCancelled, lifeVars
<1>7. CASE LoopPanics \/ Exit \/ Crash
  BY <1>2, <1>4, <1>7 DEF LoopPanics, Exit, Crash, ProcessEnds
<1>8. ASSUME ~Ticking, NEW d \in Steps, LifeAdvance(d) PROVE FirstInv'
  BY <1>2, <1>4, <1>8 DEF LifeAdvance, lifeVars, loopVars
<1>9. CASE UNCHANGED allVars
  BY <1>2, <1>4, <1>9 DEF allVars, vars, loopVars, lifeVars
<1> QED
  BY <1>2, <1>3, <1>5, <1>6, <1>7, <1>8, <1>9, LifeSteps DEF Processes

\* The slot being anchored stays one that the ledger does not remember.
LEMMA LifeFreshKept ==
  ASSUME RefireInv, [LifeNext]_allVars
  PROVE  FreshInv'
<1> USE DEF RefireInv, LifeTypeInv
<1>1. ASSUME pc' \notin {"stagger", "anchor"} PROVE FreshInv'
  BY <1>1 DEF FreshInv
<1>2. ASSUME UNCHANGED <<loopVars, task, ledger>> PROVE FreshInv'
  BY <1>2 DEF FreshInv, CurrentAccount, loopVars
<1>3. CASE RunLoop
  <2>1. [AutoNext]_vars
    BY <1>3 DEF RunLoop, AutoNext
  <2>2. CASE \A a \in Accounts : ledger'[a].lastKey = ledger[a].lastKey
    BY <2>1, <2>2, FreshKept
  <2>3. CASE Finish(Loop) /\ UNCHANGED loopVars
    <3>1. task'[Loop] = NoTask
      BY <2>3, LoopIsCaller DEF Finish, ValuesOK
    <3>2. CASE pc = "stagger"
      <4>1. task[Loop] = NoTask
        BY <3>2 DEF GoneInv, PlaceInv
      <4>2. ~(AnchorStep(Loop))
        BY <4>1, TaskSteps DEF GoneInv
      <4>3. LoopStep \/ LoopDone \/ StaggerCancelled
        BY <1>3, <4>2 DEF RunLoop
      <4>4. pc' # "stagger"
        BY <3>2, <4>3 DEF LoopStep, Wake, Consider, CheckBackoff, CheckLedger, CheckNext,
           ChooseSlot, CallAnchor, AnchorReturned, LoopDone, StaggerCancelled
      <4> QED
        BY <2>3, <3>2, <4>4 DEF loopVars
    <3> QED
      BY <2>3, <3>1, <3>2 DEF FreshInv, loopVars
  <2> QED
    BY <2>1, <2>2, <2>3, MarkOrKeep
<1>4. CASE RunHost
  <2>1. [AutoNext]_vars
    BY <1>4 DEF RunHost, AutoNext
  <2> QED
    BY <1>4, <2>1, HostKeepsKeys, FreshKept
<1>5. CASE LifeReconfigure \/ Shutdown
  BY <1>2, <1>5 DEF LifeReconfigure, Shutdown
<1>6. CASE ShutdownWaited \/ ShutdownWritten
  BY <1>2, <1>6 DEF ShutdownWaited, Persist, ShutdownWritten, vars
<1>7. ASSUME NEW d \in Steps, LifeAdvance(d) PROVE FreshInv'
  BY <1>2, <1>7 DEF LifeAdvance, Advance
<1>8. CASE Starts
  BY <1>1, <1>8 DEF Starts, StartUp, Load, Begin, Probe, ProbeAccount, ProbeReturned,
     StartTicker, ProbeGoesOn, ProbeCancelled
<1>9. CASE Register \/ LoopPanics \/ Exit \/ Crash
  BY <1>1, <1>9 DEF Register, LoopPanics, Exit, Crash, ProcessEnds
<1>10. CASE UNCHANGED allVars
  BY <1>2, <1>10 DEF allVars, vars
<1> QED
  BY <1>3, <1>4, <1>5, <1>6, <1>7, <1>8, <1>9, <1>10, LifeSteps DEF LoopRuns, Processes

\* Every step of a life keeps the count of the marks.
LEMMA RefireNext ==
  ASSUME StableSlots, RefireInv, [LifeNext]_allVars
  PROVE  RefireInv'
<1> USE DEF RefireInv
<1>1. LifeTypeInv' /\ GoneInv'
  BY LifeNextTypes, GoneNext
<1>2. TimeInv' /\ ChosenInv'
  BY ChoiceKept
<1>3. CallInv'
  BY CallKept DEF GoneInv
<1>4. FreshInv'
  BY LifeFreshKept
<1>5. CASE SlotMarked
  BY <1>1, <1>2, <1>3, <1>4, <1>5, FirstKept, MarkCounts
<1>6. CASE UNCHANGED anchored /\ \A a \in Accounts : KeyKept(a)
  BY <1>1, <1>2, <1>3, <1>4, <1>6, FirstKept, MarksKept, CountKept
<1> QED
  BY <1>5, <1>6, MarksOrKeeps

\* A slot is fired once and once more for every loss of its account's state, over
\* any number of processes, crashes, probes and half-written files, if the
\* operator leaves the anchors and the zone alone.
THEOREM RefiresBoundedCorrect ==
  ASSUME StableSlots
  PROVE  LifeSpec => []RefiresBounded
<1>1. RefireInv /\ [LifeNext]_allVars => RefireInv'
  BY RefireNext
<1>2. RefireInv => RefiresBounded
  BY DEF RefireInv, CountInv, Count, Places, RefiresBounded
<1> QED
  BY RefireInit, <1>1, <1>2, PTL DEF LifeSpec
=============================================================================
