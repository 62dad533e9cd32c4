------------------------------ MODULE WallClock ------------------------------
(***************************************************************************)
(* From "HH:MM" to instants: the anchors of a calendar day in a timezone,  *)
(* and the scans of schedule.go over two days for the anchor before and    *)
(* the anchor after an instant.  An instant is a minute since some         *)
(* midnight UTC; a wall-clock time is a minute since that day's midnight,  *)
(* days included; an anchor is a minute of the day.                        *)
(***************************************************************************)
EXTENDS Schedule, Sequences

DayLen == 24 * 60

\* *time.Location: its offset from UTC, which changes at most once.
Zone == [before : Int, after : Int, change : Int]

OffsetAt(zone, t) == IF t < zone.change THEN zone.before ELSE zone.after

\* t.In(loc), and the day of its Date().
WallTime(zone, t) == t + OffsetAt(zone, t)
DayOf(zone, t) == WallTime(zone, t) \div DayLen

\* time.Date: the offset is first looked up as if the wall-clock time were UTC,
\* and once more at the instant that this makes of it.
TimeDate(zone, wall) == wall - OffsetAt(zone, wall - OffsetAt(zone, wall))

----------------------------------------------------------------------------
(* The scans.  A place <<offset, i>> is the i-th anchor of the day that is *)
(* offset days away from the day of now.                                   *)

\* anchorTime.wallClock
WallClock(zone, day, anchor) == TimeDate(zone, day * DayLen + anchor)

\* date := time.Date(year, month, day+offset, 0, 0, ...), of which only Year(),
\* Month() and Day() are used.
ScanDay(zone, now, offset) ==
  DayOf(zone, TimeDate(zone, (DayOf(zone, now) + offset) * DayLen))

\* Mutant: the offset of the moment is used for every day.
CandidateAtOffset(zone, anchors, now, place) ==
  ScanDay(zone, now, place[1]) * DayLen + anchors[place[2]] - OffsetAt(zone, now)

Candidate(zone, anchors, now, place) ==
  WallClock(zone, ScanDay(zone, now, place[1]), anchors[place[2]])

NotAfter(place, other) ==
  place[1] < other[1] \/ (place[1] = other[1] /\ place[2] <= other[2])

\* Mutant: an anchor at this very moment is left for tomorrow.
NextAfter(zone, anchors, now) ==
  LET fits == {p \in {0, 1} \X DOMAIN anchors : Candidate(zone, anchors, now, p) > now}
  IN {Candidate(zone, anchors, now, p) :
        p \in {q \in fits : \A r \in fits : NotAfter(q, r)}}

\* Today's anchors in list order, then tomorrow's: the first that is not over.
NextAnchorOnOrAfter(zone, anchors, now) ==
  LET fits == {p \in {0, 1} \X DOMAIN anchors : Candidate(zone, anchors, now, p) >= now}
  IN {Candidate(zone, anchors, now, p) :
        p \in {q \in fits : \A r \in fits : NotAfter(q, r)}}

\* Mutant: the list is scanned from its start.
PreviousFromStart(zone, anchors, now) ==
  LET fits == {p \in {-1, 0} \X DOMAIN anchors : Candidate(zone, anchors, now, p) <= now}
  IN {Candidate(zone, anchors, now, p) :
        p \in {q \in fits : \A r \in fits : r[1] <= q[1] /\ (r[1] = q[1] => q[2] <= r[2])}}

\* Today's anchors from the end of the list, then yesterday's.
PreviousAnchorOnOrBefore(zone, anchors, now) ==
  LET fits == {p \in {-1, 0} \X DOMAIN anchors : Candidate(zone, anchors, now, p) <= now}
  IN {Candidate(zone, anchors, now, p) :
        p \in {q \in fits : \A r \in fits : NotAfter(r, q)}}

----------------------------------------------------------------------------
(* When the scans can be trusted *)

\* A wall-clock time that the change of the offset does not leap over.
Exists(zone, wall) == WallTime(zone, TimeDate(zone, wall)) = wall

\* On each of the days midnight and the anchors exist, and no day begins twice
\* (the clock is not put back from one day into the one before).
Regular(zone, anchors, days) ==
  \A d \in days :
    /\ Exists(zone, d * DayLen)
    /\ \A i \in DOMAIN anchors : Exists(zone, d * DayLen + anchors[i])
    /\ ~(/\ zone.change + zone.after < d * DayLen
         /\ d * DayLen < zone.change + zone.before)

\* What parseAnchors makes of a list.
AnchorList(anchors) ==
  /\ anchors \in Seq(0..(DayLen - 1)) /\ anchors # <<>>
  /\ \A i, j \in DOMAIN anchors : i <= j => anchors[i] <= anchors[j]

\* The instants the list names on these days: what Schedule calls anchors.
InstantsOf(zone, anchors, days) ==
  {WallClock(zone, d, anchors[i]) : d \in days, i \in DOMAIN anchors}
=============================================================================
