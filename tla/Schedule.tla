------------------------------ MODULE Schedule ------------------------------
(***************************************************************************)
(* The decision rules of schedule.go and of dueSlot (loop.go): pure        *)
(* functions of the tick time, the anchors and one account's state.        *)
(*                                                                         *)
(* An instant is a natural number and 0 is Go's zero time.  The anchors of *)
(* an account are the set of instants its "HH:MM" list names; a result of  *)
(* "a value or nothing" is a set of at most one element.                   *)
(***************************************************************************)
EXTENDS Integers

----------------------------------------------------------------------------
(* Window keys *)

\* A window key is a string in the code: the anchor rendered in the configured
\* zone (windowKeyFormat ends in the offset), "manual-<id>" or "probe-start".  The
\* ledger stores keys per account, so the <id> of a manual key is left out.
Key == [kind : {"none", "slot", "manual", "probe"}, at : Nat, zone : Nat]

NoKey     == [kind |-> "none",   at |-> 0, zone |-> 0]
ManualKey == [kind |-> "manual", at |-> 0, zone |-> 0]
ProbeKey  == [kind |-> "probe",  at |-> 0, zone |-> 0]

WindowKeyFor(anchor, zone) == [kind |-> "slot", at |-> anchor, zone |-> zone]

----------------------------------------------------------------------------
(* Anchor instants around a tick *)

\* Mutant: the time is rounded up.
PreviousAnchorsEarly(anchors, now) ==
  {x \in anchors : x <= now + 1 /\ \A y \in anchors : y <= now + 1 => y <= x}

PreviousAnchors(anchors, now) ==
  {x \in anchors : x <= now /\ \A y \in anchors : y <= now => y <= x}

NextAnchors(anchors, now) ==
  {x \in anchors : x >= now /\ \A y \in anchors : y >= now => y >= x}

----------------------------------------------------------------------------
(* The decision matrix of evaluateSlot *)

\* When the slot may fire, and whether it fires at all, given the known reset.
FireAt(anchor, known, grace) ==
  IF known = 0 \/ known + grace <= anchor THEN anchor ELSE known + grace

Skipped(anchor, known, grace, maxDeferral) ==
  known > anchor /\ known + grace > anchor + maxDeferral

EvaluateSlot(anchor, known, grace, maxDeferral) ==
  [decision |-> IF Skipped(anchor, known, grace, maxDeferral)
                  THEN "skipped" ELSE "anchor",
   fireAt   |-> IF Skipped(anchor, known, grace, maxDeferral)
                  THEN anchor ELSE FireAt(anchor, known, grace)]

\* Mutants: a slot of any age; a window still open; a boundary excluded.
CatchUpAnyAge(now, missed, catchUp, known)    == known <= now
CatchUpOpenWindow(now, missed, catchUp, known) == now - missed <= catchUp
CatchUpStrict(now, missed, catchUp, known) ==
  now - missed <= catchUp /\ known < now

\* A slot that went by is fired if it is recent and the known window is over.
CatchUpDue(now, missed, catchUp, known) ==
  /\ now - missed <= catchUp
  /\ known <= now

----------------------------------------------------------------------------
(* dueSlot: e is the account's ledger entry, cfg the configuration.  The   *)
(* code reads e.resetsAt first, then the retry fields and e.lastKey, first  *)
(* for the previous anchor and then for the next, without the ledger lock:  *)
(* e may be another entry each time, and "known" is the first read's value. *)

SlotInBackoff(e, key, now) == e.retrySlot = key /\ e.nextRetryAt > now

\* Mutant: the backoff of the slot matters only while its window is open.
BackoffInOpenWindow(e, anchors, zone, now) ==
  e.resetsAt > now /\ \E p \in PreviousAnchors(anchors, now) :
                       SlotInBackoff(e, WindowKeyFor(p, zone), now)

PreviousInBackoff(e, anchors, zone, now) ==
  \E p \in PreviousAnchors(anchors, now) :
    SlotInBackoff(e, WindowKeyFor(p, zone), now)

\* The previous anchor, fired late.  It fires "now", whatever grace and
\* max-deferral say.
CatchUpSlots(cfg, anchors, e, known, now) ==
  {[key |-> WindowKeyFor(p, cfg.zone), fireAt |-> now] :
     p \in {q \in PreviousAnchors(anchors, now) :
              /\ e.lastKey # WindowKeyFor(q, cfg.zone)
              /\ CatchUpDue(now, q, cfg.catchUp, known)}}

\* The next anchor, fired once its computed time has come.
NextSlots(cfg, anchors, e, known, now) ==
  LET Result(n) == EvaluateSlot(n, known, cfg.grace, cfg.maxDeferral) IN
  {[key |-> WindowKeyFor(n, cfg.zone), fireAt |-> Result(n).fireAt] :
     n \in {m \in NextAnchors(anchors, now) :
              /\ e.lastKey # WindowKeyFor(m, cfg.zone)
              /\ ~SlotInBackoff(e, WindowKeyFor(m, cfg.zone), now)
              /\ Result(m).decision = "anchor"
              /\ Result(m).fireAt <= now}}
=============================================================================
