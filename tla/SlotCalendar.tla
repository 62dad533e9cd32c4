---------------------------- MODULE SlotCalendar ----------------------------
(***************************************************************************)
(* Which slots the loop sees as time goes by: the stored configuration,    *)
(* the account list, the filters of evaluate, and the scans of dueSlot, in *)
(* a timezone whose offset changes.  AnchorLoop takes the slots of an      *)
(* account as a set of instants; this module says when it may.             *)
(***************************************************************************)
EXTENDS AnchorConfig, WallClock

CONSTANTS
  Files,           \* the answer of host.auth.list: a set of [id, provider]
  Raws,            \* configurations the operator may write
  Start, MaxTime,  \* bounds: the first and the last instant
  Steps,           \* how much time may pass from one tick to the next
  Days             \* bound: the days that instants are computed for

ASSUME CalendarAssumption ==
  /\ Start \in Int /\ MaxTime \in Int /\ Start <= MaxTime /\ Steps \subseteq Nat \ {0}
  /\ Days \subseteq Int /\ Raws \subseteq Raw
  /\ \A name \in DOMAIN Locations :
       /\ Locations[name] \in Zone
       /\ \A t \in Start..MaxTime : \A k \in {-1, 0, 1} :
            DayOf(Locations[name], t) + k \in Days

VARIABLES
  clock,           \* the time of the last tick
  cfg              \* configStore

vars == <<clock, cfg>>

Init ==
  /\ clock = Start
  /\ \E raw \in Raws : Normalizes(raw) /\ cfg = Normalize(raw)

\* plugin.reconfigure: a configuration with an error is not stored.
Reconfigure ==
  /\ \E raw \in Raws : cfg' = IF Normalizes(raw) THEN Normalize(raw) ELSE cfg
  /\ UNCHANGED clock

\* The next tick; the machine may have been suspended.
Tick ==
  /\ \E d \in Steps : clock + d <= MaxTime /\ clock' = clock + d
  /\ UNCHANGED cfg

Next == Reconfigure \/ Tick

Spec == Init /\ [][Next]_vars

----------------------------------------------------------------------------
(* What evaluate and dueSlot make of the account f at a tick *)

\* listAnchorAccounts keeps the credentials of supported providers.
ListAnchorAccounts == {f \in Files : f.provider \in Providers}

\* The filters of evaluate's loop.
AnchorsOf(c, f) ==
  IF c.raw.enabled /\ ProviderEnabled(c, f.provider) /\ AppliesTo(c, f.id)
    THEN AnchorsForAccount(c, f.id, f.provider) ELSE <<>>

PreviousOf(c, f, now) == PreviousAnchorOnOrBefore(c.location, AnchorsOf(c, f), now)
NextOf(c, f, now)     == NextAnchorOnOrAfter(c.location, AnchorsOf(c, f), now)

Slots(c, f) == InstantsOf(c.location, AnchorsOf(c, f), Days)

----------------------------------------------------------------------------
(* Properties *)

\* Every list that reaches a scan is one the scan is written for: in range and
\* ascending, whichever of the four places it comes from (parseAnchors, config.go:310).
ListsAscend ==
  \A f \in ListAnchorAccounts :
    AnchorsOf(cfg, f) # <<>> => AnchorList(AnchorsOf(cfg, f))

\* The scans over two days find the latest slot that has begun and the earliest
\* that is not over, of all slots there are, before, on and after a day on which
\* the clocks change, unless the change leaps over an anchor or a midnight
\* (schedule.go:64-66, "Unreachable: two days span all anchors", schedule.go:60).
ScansAgree ==
  \A f \in ListAnchorAccounts :
    AnchorList(AnchorsOf(cfg, f)) /\ Regular(cfg.location, AnchorsOf(cfg, f), Days) =>
      /\ PreviousOf(cfg, f, clock) = PreviousAnchors(Slots(cfg, f), clock)
      /\ NextOf(cfg, f, clock) = NextAnchors(Slots(cfg, f), clock)

\* The slot that dueSlot looks at never goes back, whether the clocks are put forward
\* or back (but see Forward in the proofs): a slot once passed is not seen again by
\* a ledger that remembers only the last key (windowKeyFormat, schedule.go:8-10;
\* LastAnchoredWindowKey, loop.go:120).
SlotsGoForward ==
  [][cfg' = cfg =>
       \A f \in ListAnchorAccounts :
         \A p \in PreviousOf(cfg, f, clock), q \in PreviousOf(cfg, f, clock') :
           p <= q]_vars

\* The times of day that a list names.
Times(values) == {60 * values[i].hour + values[i].minute : i \in DOMAIN values}

\* A slot is at a time of day that was written for its account, or else for its
\* provider, or else for all ("would anchor a provider at times the operator
\* never asked for", config.go:219-221).
AskedFor(f) ==
  LET raw == cfg.raw
      own == {i \in DOMAIN raw.overrides :
                raw.overrides[i].id = f.id /\ ParsesAnchors(raw.overrides[i].anchors)}
  IN IF own # {} THEN UNION {Times(raw.overrides[i].anchors) : i \in own}
     ELSE IF f.provider \in OwnAnchors(raw) THEN Times(raw.providers[f.provider].anchors)
     ELSE Times(AnchorsOrDefault(raw))

SlotsAskedFor ==
  \A f \in ListAnchorAccounts :
    Regular(cfg.location, AnchorsOf(cfg, f), Days) =>
      \A p \in PreviousOf(cfg, f, clock) \union NextOf(cfg, f, clock) :
        WallTime(cfg.location, p) % DayLen \in AskedFor(f)

\* "previousAnchorOnOrBefore returns the most recent anchor time at or before now
\* ... an anchor earlier today is never shadowed by yesterday's later one"
\* (schedule.go:64-66), in every timezone.  The run expects a counterexample.
NeverShadowed ==
  \A f \in ListAnchorAccounts :
    \A p \in PreviousOf(cfg, f, clock), s \in Slots(cfg, f) : s <= clock => s <= p
=============================================================================
