# A TLA+ model of cpa-plugin-claude-window-anchor

The plugin keeps the 5-hour quota windows of Claude and Codex accounts at fixed
times of day: right after an anchor time ("slot") it sends one minimal request,
so that a new window begins there. This directory models the decisions and the
concurrency of that program in TLA+, checks them with TLC and proves the most
important ones with TLAPS.

References such as `loop.go:106` are to the repository's sources.

## 1. The system

| Component | State it keeps | Operations | Talks to |
|---|---|---|---|
| Background loop (`loop.go`) | ticker, locals of a pass | `backgroundLoop`, `evaluate`, `dueSlot` | config store, ledger, anchor executor, `host.auth.list` |
| Schedule decisions (`schedule.go`) | none | `previousAnchorOnOrBefore`, `nextAnchorOnOrAfter`, `evaluateSlot`, `catchUpDue`, `windowKeyFor` | called by `dueSlot` |
| State ledger (`state.go`) | per account: known reset, last anchored key, retry count, retry time, retry slot; state file | `observeReset`, `markAnchored`, `recordAnchorFailure`, `setAnchorTerminalFailure`, load, persist | everybody |
| Anchor executor (`anchor.go`) | one call's locals | `anchorAccount`, `handleAnchorFailure` | `host.model.execute`, ledger |
| Manual trigger (`management.go`) | one request's locals | `handleAnchorNow` | anchor executor |
| Usage sensor (`sensor_usage.go`, `providers.go`) | none | `handleUsage`, `observeClaudeUsage` | config store, ledger; called by the host for every response |
| Codex window sensor (`codex_window.go`) | none | `parseCodexWindows`, `observeCodexUsage` | called by the usage sensor |
| Scheduler pick (`scheduler.go`) | none | `handleSchedulerPick` | called by the host for every request; config store |
| Dispatch and lifecycle (`dispatch.go`, `metadata.go`, `main.go`) | two `sync.Once`, cancel function, wait group | register, reconfigure, quiesce, shutdown | starts, cancels and awaits the loop |
| Configuration (`config.go`) | atomic pointer to the current `Config` | `parseConfig`, `normalize`, `parseAnchors`, `appliesTo`, `anchorsForAccount`, `providerEnabled`, `shouldClaimScheduler` | read by all |
| OAuth probe (`sensor_oauth.go`) | none | `probeOAuthUsage`, which nothing calls | host HTTP, ledger |
| Account list (`accounts.go`) | none | `listAnchorAccounts` | host |
| ABI, logging, dashboard, build | none of their own | | not modelled |

What runs concurrently: the loop's goroutine; one goroutine of the host's per
`usage.handle`, `anchor-now`, `reconfigure`, `scheduler.pick`; shutdown; the
provider; the other clients of the host. They share the config pointer (atomic)
and the ledger (writes under a mutex; `dueSlot` reads an entry through a pointer
after the lock is released).

What is hard: a slot is decided on from the ledger, then the loop waits for the
stagger and for the host, and meanwhile usage records arrive late or out of
order, a manual trigger fails or succeeds for the same account, a reply is lost
although the provider served the request, ticks go stale behind a slow pass, the
machine is suspended, the operator reconfigures, the plugin is shut down.
`PROJECT.json` lists the hazards one by one, with the lines where they bite.

What makes each part correct:

* loop: every slot that should be served is, none twice, in order, and never
  while it is in backoff; a cancelled loop ends;
* decisions: the composition in `dueSlot` does what the matrix of
  `evaluateSlot` promises; the scan of two days finds the slot before and the
  slot after a moment, also on the days on which the clocks change;
* configuration: whatever the operator wrote, every list that reaches a scan is
  ascending and in range, and is the one written for that account;
* ledger: the three retry fields always agree, and the backoff is bounded;
* executor: a served request opens a new window; what is abandoned stays so;
* scheduler pick: the account that is marked is the account that was served;
* lifecycle: one loop at most, none left behind, the state survives a restart;
* sensors: the reset that is stored is that of the 5-hour window, in whatever
  order headers, windows and records come.

## 2. Modules

| Module | What it is |
|---|---|
| `Schedule` | `schedule.go` and the decisions of `dueSlot`, as operators on instants |
| `Ledger` | one account's entry of the ledger and the operations on it; extends `Schedule` |
| `AnchorLoop` | the state machine: loop, executor, manual trigger, sensor, reconfiguration, cancellation, provider, time; extends `Ledger`; all properties |
| `SlotPromise` | the abstract specification: per account, slots are served once they have begun, in order, none twice |
| `Lifecycle` | the process around the loop: register, once guards, start-up, probe, state file, shutdown, crash and restart; extends `AnchorLoop` and takes its steps |
| `Pinning` | which account a request is served by: header, scheduler slot, `handleSchedulerPick`, the host's own pick |
| `WallClock` | `time.Date` in a timezone whose offset changes, and the scans of `schedule.go` over two days; extends `Schedule` |
| `AnchorConfig` | `config.go`: `normalize`, `parseAnchors`, and what the program asks of a configuration |
| `SlotCalendar` | the state machine that composes the two: ticks, reconfigurations, the accounts and their slots |
| `SensorPromise` | the abstract specification of the sensor: what the stored reset may be |
| `UsageSensor` | `usage.handle` from the headers to the ledger, on several threads; the parsers of both providers |
| `MCAnchorLoop`, `MCLifecycle`, `MCPinning`, `MCSlotCalendar`, `MCUsageSensor` | values of the constants for TLC |
| `AnchorLoop_proofs` | types; the inductive invariant of the chosen slot |
| `AnchorBackoff_proofs` | the retry fields; no request in backoff |
| `AnchorOrder_proofs` | order of the slots; refinement of `SlotPromise` |
| `AnchorPrompt_proofs` | the best case: no request wasted, no slot dropped |
| `Lifecycle_proofs` | types; nothing of the loop survives a shutdown; how often a slot is fired |
| `Pinning_proofs` | the account that is marked was served |
| `SlotCalendar_proofs` | the scans of two days find what a search through all days finds; the lists; slots never go back |
| `UsageSensor_proofs` | types; the nearest window is taken; refinement of `SensorPromise` |

### State and actions of `AnchorLoop`

`pc` and `pass` are the loop's place and the locals of `evaluate` and `dueSlot`;
`task[c]` is the call of `anchorAccount` that caller `c` (the loop or a manager)
is in; `job[m]` is what is left of a manual trigger; `ledger`, `cfg`, `ctxDone`
and `tickBuf` are the ledger, the config store, the loop's context and the
ticker's one-element channel; `window` and `usage` are the provider's windows and
the usage records under way; `anchored`, `refused` and `gaveUp` are histories
that no action reads.

One pass of the loop is `Wake`, then per account `Consider` (filters, read of
`ResetsAt`), `CheckBackoff` (read of the retry fields), `CheckLedger` (read of
`LastAnchoredWindowKey`, the catch-up branch), `CheckNext` (the key and the retry
fields read once more, the branch for the next anchor), `CallAnchor` after the
stagger or `StaggerCancelled`, and `AnchorReturned`. The four reads are four steps
because `accountByID` returns a pointer that `dueSlot` uses without the lock; the two
fields of one `slotInBackoff`, and the key and the backoff of the next anchor, are
read in one. `anchorAccount`
is `AbortAnchor`, `DryRunAnchor`, or `SendAnchor` followed by the host's `Serve`
and one of `AnchorSucceeded`, `AnchorRefused` (401, 403), `AnchorFailed`.
`ManualStart` and `ManualAnchor` are `handleAnchorNow`; `HandleUsage`,
`Reconfigure` and `Cancel` are what their names say; `Organic` is other clients'
traffic; `Advance` is time and the ticker.

Four next-state relations: `Next` is everything; `AutoNext` is the plugin left to
itself (no trigger, no reconfiguration); `PromptNext` is the best case, an awake
machine with a prompt sensor, in which one can ask whether the plugin does its
job at all rather than only that it does no harm.

### State and actions of `Lifecycle`

`Lifecycle` composes the loop with its process. `pc` gets the places before the
ticker exists: `none` (no process, or none that has registered), `load`, `begin`,
`probe`, `probeNext`, `probing`, `probePause`, `ticker`; the probe uses `pass` for
its configuration and index, as `evaluate` does. `settings` are the fields of the
configuration that only matter here, `pollZero` what the loop read of them;
`stop` is how far `shutdownBackgroundOnce` has come; `file` is what the state file
reads back as; `lives` counts processes and `losses` is a history of the events
that lose an account's last key.

`Register` is the first `plugin.register` of a process and starts the loop;
`LifeReconfigure` is every later one, and `plugin.reconfigure`. `Load` is
`loadStateBestEffort`; `Begin`, `Probe`, `ProbeAccount`, `ProbeReturned`,
`ProbeGoesOn`, `ProbeCancelled`, `StartTicker` and `LoopPanics` are the start of
`backgroundLoop`. `RunLoop` and `RunHost` are the steps of `AnchorLoop`.
`Shutdown`, `ShutdownWaited` and `ShutdownWritten` are the cancellation, the end of
the wait with the opening (truncation) of the file, and the write. `Exit` and
`Crash` end the process: memory, calls and usage records under way are gone, the
file and the provider's windows stay.

### State and actions of `Pinning`

`cfg` is the config store, `answer` and `registered` the answers of
`handleLifecycle` on their way to the host, `slot` whether the host asks the
plugin to pick, `call[c]` a caller's `anchorAccount` with the header name of the
configuration it was started with, `marked` the last mark. `BeginAnchor` is
`anchorAccount` up to `callHost`, before the answer to `register` too if there is a
probe at the start; `HostPick` is the host's pick among any of the sets of
`Candidates`, by `handleSchedulerPick` (`SchedulerPick`) under the configuration of
the moment, or by itself if the plugin has no slot or does not find its pin;
`AnchorReturns` is the end of the call. A call and a mark remember whether the
account was a candidate (`offered`) and whether the host had the plugin's answer
(`claimed`). `Pinning` stands alone: it justifies
the assumption of `AnchorLoop` that a request is served by its account.

### State and actions of `SlotCalendar`

`cfg` is the config store (what `normalize` makes of what the operator wrote) and
`clock` the time of the last tick. `Reconfigure` stores a configuration unless it
has an error, `Tick` is the next tick, after any of the lengths in `Steps`. The
rest is operators, as in the code: `AnchorsOf` is the chain of filters in
`evaluate` down to `anchorsForAccount`, `PreviousOf` and `NextOf` the two scans.
`AnchorLoop` takes an account's slots as a set of instants and "the greatest at or
before", "the least at or after" it; this module shows when the scans give that.

An instant is a minute and an offset is in minutes. A timezone has at most one
change of its offset, which is enough for two days. `TimeDate` is Go's
`time.Date`: it looks the offset up as if the wall-clock time were UTC and once
more at the instant this gives.

### State and actions of `UsageSensor`

`pending` are the usage records on their way, `sent` is the history of all
responses, `call[t]` is what thread `t` of the host has come to in `handleUsage`,
`resetsAt` and `sevenDay` are the two resets of the ledger. `Receive` starts a call
and does all of `observeClaudeUsage`, which looks two headers up. For a Codex
record, `ReadHeader` is one iteration of the loop over the header map and
`ScanWindow` one of the loop over the windows, which come from a map too: the next
element is any that is left. `HeadersRead` and `WindowsScanned` end the two loops;
`RecordWeekly` and `RecordReset` are the two writes, each under the lock on its
own. The configuration and the time are those of the start of the call.

`SensorPromise` has only the responses, the clock and the two resets. A reset may
change to the end of a window of the anchored length in a response to that
account, exact if the response names the instant, else late by no more than the
record took to arrive. The anchored length is that of any configuration there is
and the response any earlier one: an older record may overwrite a newer reset, and
the promise does not say otherwise, because nothing in the code does.

### Abstractions

* An instant is a natural number, 0 is the zero time. There is one clock, which
  never goes back; Go's monotonic clock (tickers, timers) and its wall clock
  (slots, resets) are not told apart. In `AnchorLoop` an account's anchors
  are a set of instants; `SlotCalendar` has the calendar.
* After a stall the ticker's channel holds the first tick that was due, after a
  suspend a later one: the value is any due multiple of `Poll`.
* A key is a record of kind, instant and zone for the formatted string; the
  account ID in "manual-&lt;id&gt;" is left out, as keys are compared within an entry.
* A ledger entry has the fields scheduling reads. `Status`, the weekly window
  (which `UsageSensor` has), `LastAnchorTime` and the error texts are for display. `Disabled` is never set by
  the program. A missing entry and a zero entry answer every read alike.
* `usage` is a set: an undelivered record is a lost one, delivery is in any order.
* The host registers before it shuts down, and does not do both at once. A second
  call of shutdown does nothing and is left out.
* An unreadable and a missing state file are the same: nothing is loaded.
* `MkdirAll` and the opening of the file fail together (the file is unchanged); a
  write fails after the truncation.
* The ticker's interval is the constant `Poll` in every process, or zero.
* `Lifecycle` has no manual triggers; `AnchorLoop` checks those.
* The account list is the same in every pass, or the call fails.
* In `AnchorLoop` a request is served by the account it is for: `Pinning` says when.
* In `Pinning` credential IDs have no surrounding spaces, an include list names no
  account twice, and a request carries one header of the pin's name. Requests of
  other clients, which `handleSchedulerPick` turns away, are left out.
* In `AnchorLoop` the reset that a record carries is the end of the window it was
  served in. `UsageSensor` says how far that goes: exact when the response names
  the instant, else late by the record's delay.
* In `UsageSensor` a header is the name of its window, the field and the number; one
  that does not parse is as good as absent, two spellings of one name do not
  occur. The words for the status are display data. An instant 0 is the zero time.
* In `AnchorConfig` a string is what the code makes of it: an anchor is its text (by
  which duplicates are told) and the two numbers read from it, a duration is a
  number or -1, IDs are IDs up to case and space. Blank entries, which only a
  provider's list may have, are left out, as are `modelFor` and the payload.
* In `MCUsageSensor` a thread that reads headers or compares windows runs alone:
  these steps touch nothing but the call's locals, so other steps can be done
  before or after. The theorems are about the specification without this.
* A torn read of a `time.Time` (data race at `loop.go:107`) is not modelled.

## 3. Runs

Model values `a1`, `a2`; two slots at 2 and 4 (`Auto`: 1 and 4); windows of 3; catch-up 2 (`Auto`: 1); grace and
stagger 1; poll 1. The slots of the other runs are closer than a window and the catch-up spans from
one to the next, so that a window is open at a slot, a slot is served late, and a
slot is overtaken by the next: with the code's values (5 h windows, anchors 5 h
apart) these cases are the ones that drift and delays produce. `AtHorizon` lets
the model stand still at `MaxTime`, where time ends in the model only.

| Run | Question | Instance and bounds |
|---|---|---|
| `Auto` | Is every slot in its catch-up window, in order, and never served twice, whatever is late? Is `SlotPromise` implemented? Does a cancelled loop exit? Types. | `AutoNext` with fairness, 2 accounts, `MaxTime` 5, steps of 1 and 2 (a suspend), 1 organic request, requests and lists that fail, a dry-run configuration with one ineligible account |
| `Manual` | Do the retry fields stay consistent, and does no request leave in backoff, with a trigger beside the loop? | `Next`, 1 account, 1 manager, all outcomes, 3 retries, plugin switched off and on |
| `Prompt` | In the best case, is any slot dropped, or any request wasted? | `PromptNext`, 2 accounts, `MaxTime` 8, 2 organic requests, all outcomes (lost replies and refusals too) |
| `Lifecycle` | Does shutdown end, and leave nothing? When is a slot fired twice across restarts? | `LifeNext` with fairness, 1 account, 1 slot, 2 processes, `MaxTime` 4, with and without state-file, probe and a zero poll interval, crashes anywhere, the disk failing |
| `Pinning` | Is the account that is marked the one that was served? | 2 accounts, 2 callers, configurations that claim the slot, two spellings of one header name, any set of credentials offered, requests before the answer to `register` |
| `Calendar` | Do the scans find the right slots, never one that is past, never one nobody wrote? | 9 timezones (east, west, Greenwich; spring, autumn; a change at midnight), 7 configurations each and 5 with errors, 3 credentials, 4 days around the change, ticks 15 and 300 minutes apart |
| `Sensor` | Is the right window taken, and the weekly one shown, in any order of headers, windows and records? Is `SensorPromise` implemented? | 2 accounts, 2 threads, 9 kinds of responses, 2 responses at a time, 2 configurations, `MaxTime` 2 |

In `Calendar` the change of the clocks is on day 4, ticks run from day 2 to day 6,
and slots are computed for the days 0 to 8, so that no search is cut short; the
15 minutes meet every anchor on the quarter of an hour, the 300 minutes stand for
a suspend. In `Sensor` windows end within three ticks of the response; two
responses are enough for one record to overtake another and for two threads to
write to one account; the lengths lie on, within and outside the tolerance.

In `Lifecycle` one slot is enough: what is asked is whether it is fired a second
time by the second process; `MaxTime` 4 lets the second process start after the
window of the first firing is over, and the catch-up window spans it all.

In the runs of `AnchorLoop` two accounts are needed because only the second is staggered; a third would
repeat the second. In `Auto` slot 1 comes when the loop may not have started, or is
missed in a suspend or served at the end of its catch-up, and `MaxTime` 5 is the end
of the catch-up of slot 4: a retry after one backoff is served then or is too late.
In `Manual` 5 leaves slot 2 time for a failure, its backoff and a retry on either
side of a trigger, and slot 4 time to take over; in `Prompt` 8 is
two ticks past the catch-up of slot 4, and three failures, which give a slot up, fit
in (two of slot 2 and the first of slot 4, as the count goes on). Each property has a mutant: an operator next
to the definition it changes, marked "Mutant", that TLC rejects when it takes the
definition's place.

Runs that expect a counterexample, and what they show (details in `PROJECT.json`,
"findings"):

| Run | What a comment or the README says | What the code does |
|---|---|---|
| `Abandoned` | `anchor.go:114` "never retry within the same slot", `state.go:174` "Abandon the slot" | nothing remembers the abandoned slot; the next tick requests it again |
| `Matrix` | `schedule.go:93-94`, `README.md:31`: wait for grace, skip past max-deferral | the catch-up branch, which knows neither, is the only one that fires |
| `Refire` | `README.md:66-68` "re-fires at most once" | a manual trigger overwrites the key by which the slot is known to be anchored |
| `Shadowed` | `schedule.go:65-66` "an anchor earlier today is never shadowed by yesterday's later one" | where the clocks are put forward at midnight, that midnight is 23:00 of the day before, the scan of today takes that day instead, and none of today's anchors is ever looked at |
| `WeeklyFigure` | `providers.go:45` "the longer (weekly) window" | of two windows of the anchored length, the one not taken is shown as the weekly one if the map yields it first |

Seen while modelling, and not checked by a run:

* Without the scheduler slot the account a request was meant for is marked, whichever
  one served it; `config.example.yaml:71-72` says that the plugin "records whichever
  one served the request". By default the slot is not claimed if the include list has
  one entry.
* After a rename of the header, the pin of a request under way is looked for under the
  new name (`anchor.go:72`, `scheduler.go:82`): the host picks, and the account the
  request was meant for is marked.
* `RetryCount` goes on from one slot to the next (`state.go:41` "the exponential backoff
  for one slot"): a slot that overtakes a failing one waits longer after its first
  failure and is given up after fewer.
* A manual trigger that fails puts its own key in place of the slot's (`state.go:181`),
  and the next tick fires the slot before its time, although "a slot still in backoff
  must never be re-fired" (`loop.go:116`). `NoRequestInBackoff` is about what the entry
  says is in backoff.
* "6:30" and "06:30" pass as two anchors (`config.go:310` "rejects duplicates").
* A poll-interval of "0s" is accepted and panics on the loop's goroutine
  (`dispatch.go:22-23`), which `LoopPanics` of `Lifecycle` has.
* `schedule.go:36-38` says of an anchor that does not exist that `time.Date` moves it
  forward, and of one that comes twice that the first is taken: both depend on the
  timezone (theorems `AnchorLeaptOver` and `AnchorRepeated`), and `Calendar` has zones of
  either kind.

The key by which a slot is known to be anchored is also lost when the timezone is reconfigured (the key holds the zone's
offset), and when an anchor is taken out of the configuration, another slot is
anchored, and the anchor is put back: anchors at 2, at 3 and at 2 again mark the
slots 2, 3, 2. `SlotsInOrder` is therefore claimed, and proved, for `AutoSpec` only,
and `RefiresBounded` for configurations that agree on anchors and zone.

`SlotsGoForward` holds in every zone of `Calendar` and not in every zone there could
be: where a midnight comes twice (St. John's until 2011, put back at 00:01), the scan of
the day before starts again and goes back to a slot already passed.

### Fairness

`Auto` assumes weak fairness of the loop's steps, of its calls of
`anchorAccount` and of the host's answer to a request (the runtime schedules a
runnable goroutine; the host answers or fails every call, there is no timeout in
the code), of `StaggerCancelled`, and strong fairness of `LoopDone`: when the
context is done and a tick is ready `select` picks at random, so the loop may
start another pass, but not for ever. No fairness is assumed of time: the loop
exits even if no timer ever fires again. `Lifecycle` adds weak fairness of the
start-up, of `ProbeCancelled`, and of the two steps of shutdown (the file system
answers); here, too, no fairness of time, so a shutdown never waits for a stagger.

## 4. Proofs

For every value of the constants that satisfies the assumptions
(`RetryAssumption`, `BackoffAssumption`, `ConstantsAssumption`, `LifeAssumption`, `PinAssumption`, `ConfigAssumption`,
`CalendarAssumption`, `SensorAssumption`, evaluated by TLC in
every run):

* `TypeCorrect`: `Spec => []TypeOK`, step by step for every action of `AnchorLoop`;
  `Lifecycle_proofs` takes the lemmas of the shared actions over.
* `EverySlotIsCatchUp`: the branch of `dueSlot` for the next anchor adds nothing
  to the catch-up branch. If it fires, its fire time has come, so the anchor is
  the tick itself and the known reset has passed; then the anchor is also the
  previous anchor, zero old, and the catch-up branch has fired it already. The
  theorem is for any entry: `CheckNext` reads anew, and what it fires is within the
  catch-up window for the entry it has read, whatever the one before was. This is why
  grace and max-deferral have no effect.
* `SlotFiresInCatchUpCorrect`: by the inductive invariant `ChoiceInv`: ticks are
  never ahead of the clock and never go back (`TimeInv`); the chosen slot is the
  previous anchor at the tick, in the catch-up window (`ChosenInv`); the loop's
  call is for that slot and a manager's is for none (`TaskInv`).
* `BackoffConsistentCorrect`: every ledger operation keeps the retry fields in
  agreement, provided that nobody fails under the empty key, which is where
  `TaskInv` is needed.
* `NoRequestInBackoffCorrect`: the chosen slot was not in backoff when it was
  looked at; only a failure under that very key could put it there, and a
  manager's key is another one. `BackoffInv` carries that over the steps between.
* `SlotsInOrderCorrect`, under `AutoSpec`: the last key is the last slot marked
  (`LastKeyInv`), marks are not later than the tick of the pass (`MarkedInv`), and
  the slot under way is not the last key (`FreshInv`). As the slot is the latest
  anchor at its tick, it is later than every mark. The last key must be the key of
  the slot in the *current* configuration, which is what a trigger or a change of
  zone breaks.
* `PromiseKeptCorrect`, under `AutoSpec`: the refinement mapping is the identity on
  `clock` and `anchored`; a marking step is an `Anchor`, `Advance` is a `Pass`,
  everything else stutters.

* `ShutdownLeavesNoLoopCorrect`, under `LifeSpec`: a call of the loop's is under way
  only where the loop waits for one (`PlaceInv`), so an exited loop has none; the
  file is opened only past an exited loop, and no step but the end of the process
  leads out of `exited`, which is the once guard.
* `LifeTypeCorrect`, under `LifeSpec`. The probe runs through the list with `pass` too,
  so the types need to know where its index is at each of its places (`ProbeInList`).
* `RefiresBoundedCorrect`, under `LifeSpec` and `StableSlots` (all configurations agree
  on anchors and zone). What remembers a slot is the key in the ledger while a
  process runs, and the key in the file from the write of one process to the load
  of the next (`Memory`). `CountInv` strengthens the property: a slot has one mark
  more than its account had losses only if it is the one remembered, or a later
  one was marked since. A slot is marked only if it is not the one remembered
  (`FreshInv`) and is the latest anchor at the tick of its pass, so no later one was
  marked either (`MarksInv`): its count had not reached the bound. Every step that
  changes the memory without marking counts a loss, for all the marks there are.
* `AnchorOpensWindowCorrect` and `PassLeavesNoSlotCorrect`, under `PromptSpec`, by the
  inductive invariant `PromptInv`. A usage record is on its way only while the loop
  asks for nothing, and tells of the window that is open (`UsageInv`); so the
  ledger's reset is that of the window or none at all (`ResetInv`), and the reset
  that `dueSlot` has read is the ledger's until the provider answers (`AskingInv`).
  That the request opens a window then follows from `ChosenInv`: the reset read was
  not after the tick, so the window was over. For the slots, `HandledInv` says of
  the accounts a pass has gone past what `PassLeavesNoSlot` says of all at its end,
  and of the current one once `anchorAccount` has returned; that the loop saw the
  slot as anchored means that it was (`KeyMarkedInv`). `AllListed` says that only
  accounts of the list are eligible: `evaluate` filters that list.

* `MarkedWasServedCorrect`, for `Pinning` under `PinConditions`: every configuration
  claims the slot, all mean the same header, the host grants the claim. The instance of
  run `Pinning` satisfies them; without the first or the second the property fails
  (section 3). The host has granted the slot once it has the answer; the
  header of a call is that of some configuration, so the plugin knows it again under
  any other; and a call picked with its account among the candidates is with it. Two
  cases are left out by the property itself: the account was not a candidate
  (`offered`), where `scheduler.go:92-101` leaves the pick to the host, and the host
  picked before it had the plugin's answer (`claimed`). `PinTypeCorrect` needs none of these conditions: pins and marks stay
  well typed, and a request that failed has marked nothing.

* `ScanFindsPrevious` and `ScanFindsNext`, for any timezone, list and moment. A
  wall-clock time that exists comes later than an earlier one
  (`TimeDateMonotone`), so the order of days and then of the list is the order of
  instants (`PlacesAscend`); all of yesterday's anchors are over and all of
  tomorrow's to come (`OtherDay`, from `EarlierDay` and `LaterDay`). So whatever
  instant there is beyond the two days, a place of the scan is nearer. The
  condition is `Regular`: around the moment no midnight and no anchor is leapt
  over, and no day begins twice. `Shadowed` shows that it is needed.
  `ScansAgreeCorrect` is the same at every state of `SlotCalendar`.
* `ListsAscendCorrect` and `SlotsAskedForCorrect`: the stored configuration is one the
  operator may write, normalized (`StoredInv`); a list that parses is returned
  ascending, in range, and with none but its own times (`ParsedAscends`); an account
  gets no list, or one that parses and is written for it (`ListOfAccount`, by cases of
  the first deciding override, the provider's list and the global one). Where
  midnight and the anchor exist, the instant shows the anchor (`ShowsAnchor`).
  `ParseAnchors` is stated as "the k-th is the least with k of the list not above
  it", which the provers can expand; they cannot expand `SortSeq`.
* `SlotsGoForwardCorrect`, under `AllForward`, a condition weaker than `Regular` (every
  configuration of run `Calendar` satisfies it, Havana's too): no day begins twice, an
  anchor that is leapt over is not taken back into an earlier day, and less than a
  day is leapt over. A day that has begun is then never again to come (`NoReturn`).
  If the later scan stops at a day that the earlier one had in reach too, the two see
  the same places, and each says that its own comes last. If it stops at a later
  day, that slot could be earlier only if the day's midnight was taken into the day
  before; then that one's own midnight exists (`MidnightTaken`), the two days have
  the same slots, and again both scans saw them.
* `SensorInvariant`: what a call has read so far is what the headers it has taken
  say (a length is 0 or the response's; an end is the absolute one if that was
  read, else the relative one if that was, else 0), and the best window so far is the earliest of the closest ones
  among those compared. At the end of the loops nothing is left, and
  `NearestTaken` follows, in whatever order the maps were ranged over. The longest
  window so far is likewise a longest of those compared, so at the end it is the one
  that is longer than all others, if there is one, and is shown unless it is the one
  picked; every end is positive, so that a figure of 0 is none
  (`WeeklyShownCorrect`). Without such a window nothing is said, and the run
  `WeeklyFigure` shows what may happen.
* `SensorImplementsPromise`: the refinement mapping is the identity on four
  variables; `RecordReset` is a `Learn`, `RecordWeekly` a `Show`, a record that
  carries nothing stutters. It needs the invariant, and that responses are never
  forgotten and time never goes back between the response and the record.

`BackoffAssumption` says of `Backoff(n) == RetryBase * 2^(n-1)` that it is a
positive natural number, since the provers know nothing of `^`. `ConstantsAssumption`
says that time can pass by one (`1 \in Steps`), the step of `PromptNext`.

The conditions `StableSlots`, `AllListed` and `AllForward` are hypotheses of single
theorems, not assumptions on the constants; the instances of the runs of their
properties satisfy them.

Only model-checked: `CancelledLoopExits` and `ShutdownReturns`, as liveness under
fairness is out of the prover's reach. Every other property of a passing run is a
theorem.

## 5. Not modelled

* The C ABI (`abi.go`, `main.go`), JSON and YAML decoding, logging, the dashboard,
  the status pages of `management.go`, the static description of the
  configuration's fields, packaging: they keep no state that the parts above
  depend on.
* `probeOAuthUsage` (`sensor_oauth.go`) and with it `setLastUsageError`: nothing calls
  them.
* Request bodies and models (`providers.go`, `modelFor`): payload.
* `AnchorLoop` and `SlotCalendar` are not composed in one state machine: the loop
  over days of minutes would be out of TLC's reach. What ties them together is
  that both use `PreviousAnchors` and `NextAnchors` of `Schedule`, and
  `ScansAgreeCorrect`. In the same way `UsageSensor` says what the record of
  `AnchorLoop`'s `HandleUsage` may carry.

What would be worth proving next: in which configurations (no window open at a
slot) the slots stay in order with a trigger beside the loop, and that `Lifecycle`
without restarts implements `SlotPromise`.
