------------------------- MODULE SlotCalendar_proofs -------------------------
(***************************************************************************)
(* Proofs about the calendar: for every timezone, list of anchors and      *)
(* moment, the scans of schedule.go over two days find the same slots as a *)
(* search through all days, if the change of the clocks leaps over none.   *)
(***************************************************************************)
EXTENDS SlotCalendar, FiniteSetTheorems, SequenceTheorems, TLAPS

(* Wall-clock times *)

\* Of two wall-clock times that exist, the later one comes later.
LEMMA TimeDateMonotone ==
  ASSUME NEW z \in Zone, NEW v \in Int, NEW w \in Int, Exists(z, v), Exists(z, w),
         v < w
  PROVE  TimeDate(z, v) < TimeDate(z, w)
BY DEF Zone, Exists, WallTime, TimeDate, OffsetAt

\* time.Date returns an instant.
LEMMA TimeDateInt ==
  ASSUME NEW z \in Zone, NEW w \in Int
  PROVE  TimeDate(z, w) \in Int
BY DEF Zone, TimeDate, OffsetAt

\* The day of an instant, as bounds on its wall-clock time.
LEMMA DayBounds ==
  ASSUME NEW z \in Zone, NEW t \in Int
  PROVE  /\ DayOf(z, t) \in Int /\ WallTime(z, t) \in Int
         /\ DayOf(z, t) * DayLen <= WallTime(z, t)
         /\ WallTime(z, t) < (DayOf(z, t) + 1) * DayLen
<1>1. WallTime(z, t) \in Int
  BY DEF Zone, WallTime, OffsetAt
<1> QED BY <1>1 DEF DayOf, DayLen

\* A day that begins is reached by time.Date at its midnight.
LEMMA ScanDayExact ==
  ASSUME NEW z \in Zone, NEW now \in Int, NEW k \in Int,
         Exists(z, (DayOf(z, now) + k) * DayLen)
  PROVE  ScanDay(z, now, k) = DayOf(z, now) + k
<1>1. DayOf(z, now) \in Int
  BY DayBounds
<1>2. WallTime(z, TimeDate(z, (DayOf(z, now) + k) * DayLen)) = (DayOf(z, now) + k) * DayLen
  BY DEF Exists
<1> DEFINE d == DayOf(z, now) + k
<1>3. d \in Int /\ (d * 1440) \div 1440 = d
  BY <1>1
<1>4. ScanDay(z, now, k) = (d * DayLen) \div DayLen
  BY <1>2 DEF ScanDay, DayOf
<1>5. DayLen = 1440
  BY DEF DayLen
<1> QED BY <1>3, <1>4, <1>5

\* A moment of a later day is later, even if the clocks are put back...
LEMMA LaterDay ==
  ASSUME NEW z \in Zone, NEW now \in Int, NEW w \in Int, NEW day \in Int,
         WallTime(z, now) < day, day <= w, Exists(z, w),
         ~(z.change + z.after < day /\ day < z.change + z.before)
  PROVE  now < TimeDate(z, w)
BY DEF Zone, Exists, WallTime, TimeDate, OffsetAt

\* ... and one of an earlier day is earlier.
LEMMA EarlierDay ==
  ASSUME NEW z \in Zone, NEW now \in Int, NEW w \in Int, NEW day \in Int,
         day <= WallTime(z, now), w < day, Exists(z, w),
         ~(z.change + z.after < day /\ day < z.change + z.before)
  PROVE  TimeDate(z, w) < now
BY DEF Zone, Exists, WallTime, TimeDate, OffsetAt

\* An anchor that spring leaps over is taken later east of Greenwich and earlier
\* west of it (schedule.go:36-37 has it "normalize forward" everywhere).
THEOREM AnchorLeaptOver ==
  ASSUME NEW z \in Zone, NEW w \in Int, z.before < z.after,
         z.change + z.before <= w, w < z.change + z.after
  PROVE  /\ z.before >= 0 => WallTime(z, TimeDate(z, w)) > w
         /\ z.after <= 0 => WallTime(z, TimeDate(z, w)) < w
BY DEF Zone, WallTime, TimeDate, OffsetAt

\* Of the two moments at which autumn's clocks show an anchor, the first is taken
\* west of Greenwich and the second east of it (schedule.go:37-38 has it "the first
\* occurrence" everywhere).
THEOREM AnchorRepeated ==
  ASSUME NEW z \in Zone, NEW w \in Int, z.after < z.before,
         z.change + z.after <= w, w < z.change + z.before
  PROVE  LET moments == {t \in Int : WallTime(z, t) = w}
         IN /\ \E s, t \in moments : s < t
            /\ TimeDate(z, w) \in moments
            /\ z.before <= 0 => \A t \in moments : TimeDate(z, w) <= t
            /\ z.after >= 0 => \A t \in moments : t <= TimeDate(z, w)
<1> DEFINE moments == {t \in Int : WallTime(z, t) = w}
<1>1. w - z.before \in moments /\ w - z.after \in moments /\ w - z.before < w - z.after
  BY DEF Zone, WallTime, OffsetAt
<1>2. TimeDate(z, w) \in moments
  BY DEF Zone, WallTime, TimeDate, OffsetAt
<1>3. z.before <= 0 => \A t \in moments : TimeDate(z, w) <= t
  BY DEF Zone, WallTime, TimeDate, OffsetAt
<1>4. z.after >= 0 => \A t \in moments : t <= TimeDate(z, w)
  BY DEF Zone, WallTime, TimeDate, OffsetAt
<1>5. \E s, t \in moments : s < t
  <2> HIDE DEF moments
  <2> QED BY <1>1
<1> QED BY <1>2, <1>3, <1>4, <1>5

\* By the well-founded inclusion of the intervals 1..k.
LEMMA SmallestIndex ==
  ASSUME NEW N \in Nat, NEW S \in SUBSET (1..N), S # {}
  PROVE  \E m \in S : \A k \in S : m <= k
<1> DEFINE T == {1..k : k \in S}
<1>1. IsFiniteSet(1..N)
  BY FS_Interval
<1>2. T \subseteq SUBSET (1..N) /\ T # {}
  <2>1. \A k \in S : k \in 1..N
    OBVIOUS
  <2>2. \A k \in S : \A j \in 1..k : j \in 1..N
    BY <2>1
  <2> QED BY <2>2
<1>3. IsWellFoundedOn(StrictSubsetOrdering(1..N), SUBSET (1..N))
  BY <1>1, FS_StrictSubsetOrderingWellFounded, FS_FiniteSubsetsOfFinite
<1> HIDE DEF T
<1>4. PICK I \in T : \A J \in T : <<J, I>> \notin StrictSubsetOrdering(1..N)
  BY <1>2, <1>3, WFMin
<1>5. PICK m \in S : I = 1..m
  BY DEF T
<1>6. ASSUME NEW k \in S, k < m PROVE FALSE
  <2>1. 1..k \in T /\ 1..k \in SUBSET (1..N) /\ I \in SUBSET (1..N)
    BY <1>2 DEF T
  <2>2. 1..k \subseteq I /\ 1..k # I
    <3>1. m \in I /\ m \notin 1..k
      BY <1>5, <1>6
    <3> QED BY <1>5, <1>6, <3>1
  <2>3. <<1..k, I>> \in StrictSubsetOrdering(1..N)
    BY <2>1, <2>2 DEF StrictSubsetOrdering
  <2> QED BY <1>4, <2>1, <2>3
<1> QED BY <1>6

\* A set of positions in a list has a last one.
LEMMA LargestIndex ==
  ASSUME NEW N \in Nat, NEW S \in SUBSET (1..N), S # {}
  PROVE  \E m \in S : \A k \in S : k <= m
<1> DEFINE T == {N + 1 - k : k \in S}
<1>1. T \in SUBSET (1..N) /\ T # {}
  <2>1. \A k \in S : N + 1 - k \in 1..N
    <3> TAKE k \in S
    <3>1. k \in 1..N
      OBVIOUS
    <3> QED BY <3>1
  <2> QED BY <2>1
<1>2. PICK n \in T : \A m \in T : n <= m
  BY <1>1, SmallestIndex
<1>3. PICK k \in S : n = N + 1 - k
  OBVIOUS
<1>4. \A m \in S : N + 1 - k <= N + 1 - m
  BY <1>2, <1>3
<1> QED BY <1>4

----------------------------------------------------------------------------
(* The scans of one account's anchors *)

\* What parseAnchors returns is a sorted list of minutes of the day.
LEMMA AnchorRange ==
  ASSUME NEW anchors, AnchorList(anchors)
  PROVE  /\ Len(anchors) \in Nat /\ Len(anchors) # 0 /\ DOMAIN anchors = 1..Len(anchors)
         /\ \A i \in DOMAIN anchors : anchors[i] \in Int /\ 0 <= anchors[i] /\ anchors[i] < 1440
         /\ \A i, j \in DOMAIN anchors : i <= j => anchors[i] <= anchors[j]
<1>1. anchors \in Seq(0..(DayLen - 1)) /\ anchors # <<>>
      /\ \A i, j \in DOMAIN anchors : i <= j => anchors[i] <= anchors[j]
  BY DEF AnchorList
<1>2. DayLen - 1 = 1439
  BY DEF DayLen
<1>3. anchors \in Seq(0..1439) /\ anchors # <<>>
  BY <1>1, <1>2
<1>4. Len(anchors) \in Nat /\ Len(anchors) # 0 /\ DOMAIN anchors = 1..Len(anchors)
  BY <1>3
<1>5. \A i \in DOMAIN anchors : anchors[i] \in 0..1439
  <2> DEFINE minutes == 0..1439
  <2> HIDE DEF minutes
  <2>1. anchors \in Seq(minutes)
    BY <1>3 DEF minutes
  <2>2. \A i \in 1..Len(anchors) : anchors[i] \in minutes
    BY <2>1, ElementOfSeq
  <2>3. \A i \in DOMAIN anchors : anchors[i] \in minutes
    BY <1>4, <2>2
  <2> QED BY <2>3 DEF minutes
<1>6. \A n \in 0..1439 : n \in Int /\ 0 <= n /\ n < 1440
  OBVIOUS
<1>7. \A i \in DOMAIN anchors : anchors[i] \in Int /\ 0 <= anchors[i] /\ anchors[i] < 1440
  BY <1>5, <1>6
<1> QED BY <1>1, <1>4, <1>7

\* What Regular says of one anchor, and of one midnight.
LEMMA RegularAt ==
  ASSUME NEW z, NEW anchors, NEW days, Regular(z, anchors, days), NEW d \in days
  PROVE  /\ Exists(z, d * DayLen)
         /\ \A i \in DOMAIN anchors : Exists(z, d * DayLen + anchors[i])
         /\ ~(z.change + z.after < d * DayLen /\ d * DayLen < z.change + z.before)
BY DEF Regular

\* An anchor of an earlier day is over, one of a later day is to come.
LEMMA OtherDay ==
  ASSUME NEW z \in Zone, NEW anchors, AnchorList(anchors), NEW days \in SUBSET Int,
         Regular(z, anchors, days), NEW now \in Int,
         DayOf(z, now) \in days, DayOf(z, now) + 1 \in days,
         NEW d \in days, NEW i \in DOMAIN anchors
  PROVE  /\ WallClock(z, d, anchors[i]) \in Int
         /\ d < DayOf(z, now) => WallClock(z, d, anchors[i]) < now
         /\ d > DayOf(z, now) => now < WallClock(z, d, anchors[i])
<1> DEFINE w == d * DayLen + anchors[i]
           D == DayOf(z, now)
<1>1. d \in Int /\ anchors[i] \in Int /\ 0 <= anchors[i] /\ anchors[i] < 1440
  BY AnchorRange
<1>2. w \in Int
  BY <1>1 DEF DayLen
<1>3. Exists(z, w)
  BY RegularAt
<1>4. D \in Int /\ WallTime(z, now) \in Int /\ D * DayLen <= WallTime(z, now)
      /\ WallTime(z, now) < (D + 1) * DayLen
  BY DayBounds
<1>5. ~(z.change + z.after < D * DayLen /\ D * DayLen < z.change + z.before)
  BY RegularAt
<1>6. ~(z.change + z.after < (D + 1) * DayLen /\ (D + 1) * DayLen < z.change + z.before)
  BY RegularAt
<1>7. TimeDate(z, w) \in Int
  BY <1>2, TimeDateInt
<1>8. ASSUME d < D PROVE TimeDate(z, w) < now
  <2>1. w < D * DayLen /\ D * DayLen \in Int
    <3> HIDE DEF D
    <3> QED BY <1>1, <1>4, <1>8 DEF DayLen
  <2> HIDE DEF w, D
  <2> QED BY <1>2, <1>3, <1>4, <1>5, <2>1, EarlierDay
<1>9. ASSUME d > D PROVE now < TimeDate(z, w)
  <2>1. (D + 1) * DayLen <= w /\ (D + 1) * DayLen \in Int
    <3> HIDE DEF D
    <3> QED BY <1>1, <1>4, <1>9 DEF DayLen
  <2> HIDE DEF w, D
  <2> QED BY <1>2, <1>3, <1>4, <1>6, <2>1, LaterDay
<1> QED BY <1>7, <1>8, <1>9 DEF WallClock

\* The order of days, then of the list, is the order of instants.
LEMMA PlacesAscend ==
  ASSUME NEW z \in Zone, NEW anchors, AnchorList(anchors), NEW days \in SUBSET Int,
         Regular(z, anchors, days), NEW d \in days, NEW e \in days,
         NEW i \in DOMAIN anchors, NEW j \in DOMAIN anchors, d < e \/ (d = e /\ i <= j)
  PROVE  WallClock(z, d, anchors[i]) <= WallClock(z, e, anchors[j])
<1> DEFINE w == d * DayLen + anchors[i]
           v == e * DayLen + anchors[j]
<1>1. /\ d \in Int /\ anchors[i] \in Int /\ 0 <= anchors[i] /\ anchors[i] < 1440
      /\ e \in Int /\ anchors[j] \in Int /\ 0 <= anchors[j] /\ anchors[j] < 1440
  BY AnchorRange
<1>2. w \in Int /\ v \in Int
  BY <1>1 DEF DayLen
<1>3. Exists(z, w) /\ Exists(z, v)
  BY RegularAt
<1>4. w <= v
  <2>1. CASE d < e
    BY <1>1, <2>1 DEF DayLen
  <2>2. CASE d = e /\ i <= j
    <3>1. anchors[i] <= anchors[j]
      BY <2>2, AnchorRange
    <3> QED BY <1>1, <2>2, <3>1 DEF DayLen
  <2> QED BY <2>1, <2>2
<1>5. TimeDate(z, w) \in Int /\ TimeDate(z, v) \in Int
  BY <1>2, TimeDateInt
<1>6. TimeDate(z, w) <= TimeDate(z, v)
  <2> HIDE DEF w, v
  <2>1. CASE w = v
    BY <1>5, <2>1
  <2>2. CASE w < v
    BY <1>2, <1>3, <1>5, <2>2, TimeDateMonotone
  <2> QED BY <1>2, <1>4, <2>1, <2>2
<1> QED BY <1>6 DEF WallClock

\* A place of a scan is an anchor of its day.
LEMMA CandidateIs ==
  ASSUME NEW z \in Zone, NEW anchors, NEW days \in SUBSET Int, Regular(z, anchors, days),
         NEW now \in Int, NEW k \in Int, DayOf(z, now) + k \in days, NEW i \in DOMAIN anchors
  PROVE  Candidate(z, anchors, now, <<k, i>>) = WallClock(z, DayOf(z, now) + k, anchors[i])
<1>1. Exists(z, (DayOf(z, now) + k) * DayLen)
  BY RegularAt
<1>2. ScanDay(z, now, k) = DayOf(z, now) + k
  BY <1>1, ScanDayExact
<1> QED BY <1>2 DEF Candidate

\* What the scans need to know of the days around now: every place is an anchor,
\* yesterday's are over and tomorrow's are to come.
LEMMA Places ==
  ASSUME NEW z \in Zone, NEW anchors, AnchorList(anchors), NEW days \in SUBSET Int,
         Regular(z, anchors, days), NEW now \in Int,
         \A k \in {-1, 0, 1} : DayOf(z, now) + k \in days,
         NEW k \in {-1, 0, 1}, NEW i \in DOMAIN anchors
  PROVE  /\ Candidate(z, anchors, now, <<k, i>>) \in Int
         /\ Candidate(z, anchors, now, <<k, i>>) \in InstantsOf(z, anchors, days)
         /\ Candidate(z, anchors, now, <<k, i>>) = WallClock(z, DayOf(z, now) + k, anchors[i])
         /\ k = -1 => Candidate(z, anchors, now, <<k, i>>) < now
         /\ k = 1 => now < Candidate(z, anchors, now, <<k, i>>)
<1>1. DayOf(z, now) \in Int
  BY DayBounds
<1>2. DayOf(z, now) + 0 = DayOf(z, now)
  BY <1>1
<1>3. DayOf(z, now) \in days /\ DayOf(z, now) + 1 \in days /\ DayOf(z, now) + k \in days
  BY <1>2
<1>4. Candidate(z, anchors, now, <<k, i>>) = WallClock(z, DayOf(z, now) + k, anchors[i])
  BY <1>3, CandidateIs
<1> DEFINE d == DayOf(z, now) + k
<1>5. (k = -1 => d < DayOf(z, now)) /\ (k = 1 => d > DayOf(z, now))
  BY <1>1
<1>6. d \in days
  BY <1>3
<1> HIDE DEF d
<1>7. /\ WallClock(z, d, anchors[i]) \in Int
      /\ d < DayOf(z, now) => WallClock(z, d, anchors[i]) < now
      /\ d > DayOf(z, now) => now < WallClock(z, d, anchors[i])
  BY <1>3, <1>6, OtherDay
<1>8. WallClock(z, d, anchors[i]) \in InstantsOf(z, anchors, days)
  BY <1>6 DEF InstantsOf
<1> QED BY <1>4, <1>5, <1>7, <1>8 DEF d

\* The scan of today and yesterday finds what a search through all days finds:
\* the latest slot that has begun (previousAnchorOnOrBefore, schedule.go:64-66).
THEOREM ScanFindsPrevious ==
  ASSUME NEW z \in Zone, NEW anchors, AnchorList(anchors), NEW days \in SUBSET Int,
         Regular(z, anchors, days), NEW now \in Int,
         \A k \in {-1, 0, 1} : DayOf(z, now) + k \in days
  PROVE  /\ PreviousAnchorOnOrBefore(z, anchors, now)
              = PreviousAnchors(InstantsOf(z, anchors, days), now)
         /\ PreviousAnchorOnOrBefore(z, anchors, now) # {}
<1> DEFINE D == DayOf(z, now)
           At(p) == Candidate(z, anchors, now, p)
           fits == {p \in {-1, 0} \X DOMAIN anchors : At(p) <= now}
           last == {p \in fits : \A r \in fits : NotAfter(r, p)}
           all == InstantsOf(z, anchors, days)
<1>1. D \in Int /\ D \in days /\ D + 1 \in days /\ D - 1 \in days /\ days \subseteq Int
  <2>1. D \in Int
    BY DayBounds
  <2>2. D + 0 \in days /\ D + 1 \in days /\ D + (-1) \in days
    OBVIOUS
  <2>3. D + 0 = D /\ D + (-1) = D - 1
    BY <2>1
  <2> QED BY <2>1, <2>2, <2>3
<1>2. \A k \in {-1, 0}, i \in DOMAIN anchors :
        /\ At(<<k, i>>) \in Int /\ At(<<k, i>>) \in all
        /\ At(<<k, i>>) = WallClock(z, D + k, anchors[i])
        /\ k = -1 => At(<<k, i>>) < now
  BY Places
<1>3. \A i \in DOMAIN anchors : i \in Int
  BY AnchorRange
<1>4. ASSUME NEW p \in last, NEW y \in all, y <= now
      PROVE  At(p) \in Int /\ At(p) \in all /\ At(p) <= now /\ y \in Int /\ y <= At(p)
  <2>1. PICK k \in {-1, 0}, i \in DOMAIN anchors : p = <<k, i>>
    OBVIOUS
  <2>2. PICK d \in days, j \in DOMAIN anchors : y = WallClock(z, d, anchors[j])
    BY DEF InstantsOf
  <2>3. y \in Int /\ (d > D => now < y)
    BY <1>1, <2>2, OtherDay
  <2>4. d \in Int /\ d <= D
    BY <1>1, <1>4, <2>3
  <2>5. At(p) = WallClock(z, D + k, anchors[i]) /\ D + k \in days
    BY <1>1, <1>2, <2>1
  <2>6. d < D + k \/ (d = D + k /\ j <= i)
    <3>1. CASE d = D
      <4>1. At(<<0, j>>) = y
        <5>1. D + 0 = D
          BY <1>1
        <5> QED BY <1>2, <2>2, <3>1, <5>1
      <4>2. <<0, j>> \in fits
        BY <1>4, <4>1
      <4>3. NotAfter(<<0, j>>, <<k, i>>)
        BY <2>1, <4>2
      <4>4. k = 0 /\ j <= i
        BY <4>3 DEF NotAfter
      <4> QED BY <1>1, <3>1, <4>4
    <3>2. CASE d < D /\ k = 0
      BY <1>1, <3>2
    <3>3. CASE d < D /\ k = -1
      <4>1. <<-1, j>> \in fits
        <5>1. At(<<-1, j>>) \in Int /\ At(<<-1, j>>) < now
          BY <1>2
        <5> QED BY <5>1
      <4>2. NotAfter(<<-1, j>>, <<k, i>>)
        BY <2>1, <4>1
      <4>3. j <= i
        BY <3>3, <4>2 DEF NotAfter
      <4> QED BY <1>1, <2>4, <3>3, <4>3
    <3> QED BY <1>1, <2>4, <3>1, <3>2, <3>3
  <2>7. y <= At(p)
    BY <2>2, <2>5, <2>6, PlacesAscend
  <2> QED BY <1>2, <2>1, <2>3, <2>7
<1>5. \E p \in last : TRUE
  <2> DEFINE S == {i \in DOMAIN anchors : <<0, i>> \in fits}
             N == Len(anchors)
  <2>1. N \in Nat /\ N # 0 /\ DOMAIN anchors = 1..N
    BY AnchorRange
  <2>2. CASE S # {}
    <3>1. PICK m \in S : \A i \in S : i <= m
      <4>1. S \in SUBSET (1..N)
        BY <2>1
      <4> HIDE DEF S, N
      <4> QED BY <2>1, <2>2, <4>1, LargestIndex
    <3>2. ASSUME NEW r \in fits PROVE NotAfter(r, <<0, m>>)
      <4>1. PICK k \in {-1, 0}, i \in DOMAIN anchors : r = <<k, i>>
        OBVIOUS
      <4>2. k = 0 => i <= m
        BY <3>1, <3>2, <4>1
      <4> QED BY <4>1, <4>2 DEF NotAfter
    <3>3. <<0, m>> \in last
      BY <3>2
    <3> QED BY <3>3
  <2>3. CASE S = {}
    <3>1. N \in DOMAIN anchors /\ \A i \in DOMAIN anchors : i <= N
      BY <2>1
    <3>2. <<-1, N>> \in fits
      <4>1. At(<<-1, N>>) \in Int /\ At(<<-1, N>>) < now
        BY <1>2, <3>1
      <4> QED BY <3>1, <4>1
    <3>3. ASSUME NEW r \in fits PROVE NotAfter(r, <<-1, N>>)
      <4>1. PICK k \in {-1, 0}, i \in DOMAIN anchors : r = <<k, i>>
        OBVIOUS
      <4>2. k = -1
        BY <2>3, <3>3, <4>1
      <4> QED BY <3>1, <4>1, <4>2 DEF NotAfter
    <3>4. <<-1, N>> \in last
      BY <3>2, <3>3
    <3> QED BY <3>4
  <2> QED BY <2>2, <2>3
<1>6. \A p \in last : At(p) \in PreviousAnchors(all, now)
  <2> TAKE p \in last
  <2>1. PICK k \in {-1, 0}, i \in DOMAIN anchors : p = <<k, i>>
    OBVIOUS
  <2>2. At(p) \in all /\ At(p) <= now
    BY <1>2, <2>1
  <2>3. \A y \in all : y <= now => y <= At(p)
    BY <1>4
  <2> HIDE DEF all, At
  <2> QED BY <2>2, <2>3 DEF PreviousAnchors
<1>7. ASSUME NEW x \in PreviousAnchors(all, now)
      PROVE  \E p \in last : x = At(p)
  <2>1. PICK p \in last : TRUE
    BY <1>5
  <2>2. x \in all /\ x <= now /\ \A y \in all : y <= now => y <= x
    BY DEF PreviousAnchors
  <2>3. At(p) \in Int /\ At(p) \in all /\ At(p) <= now /\ x \in Int /\ x <= At(p)
    BY <1>4, <2>2
  <2>4. At(p) <= x
    BY <2>2, <2>3
  <2>5. x = At(p)
    <3> HIDE DEF At
    <3> QED BY <2>3, <2>4
  <2> QED BY <2>1, <2>5
<1>8. PreviousAnchorOnOrBefore(z, anchors, now) = {At(p) : p \in last}
  BY DEF PreviousAnchorOnOrBefore
<1>9. /\ PreviousAnchorOnOrBefore(z, anchors, now) = PreviousAnchors(all, now)
      /\ PreviousAnchorOnOrBefore(z, anchors, now) # {}
  <2> HIDE DEF At, last, all
  <2> QED BY <1>5, <1>6, <1>7, <1>8
<1> QED BY <1>9

\* The scan of today and tomorrow finds the earliest slot of all days that is not
\* over, and always finds one ("Unreachable: two days span all anchors",
\* nextAnchorOnOrAfter, schedule.go:43-62).
THEOREM ScanFindsNext ==
  ASSUME NEW z \in Zone, NEW anchors, AnchorList(anchors), NEW days \in SUBSET Int,
         Regular(z, anchors, days), NEW now \in Int,
         \A k \in {-1, 0, 1} : DayOf(z, now) + k \in days
  PROVE  /\ NextAnchorOnOrAfter(z, anchors, now)
              = NextAnchors(InstantsOf(z, anchors, days), now)
         /\ NextAnchorOnOrAfter(z, anchors, now) # {}
<1> DEFINE D == DayOf(z, now)
           At(p) == Candidate(z, anchors, now, p)
           fits == {p \in {0, 1} \X DOMAIN anchors : At(p) >= now}
           first == {p \in fits : \A r \in fits : NotAfter(p, r)}
           all == InstantsOf(z, anchors, days)
<1>1. D \in Int /\ D \in days /\ D + 1 \in days /\ D - 1 \in days /\ days \subseteq Int
  <2>1. D \in Int
    BY DayBounds
  <2>2. D + 0 \in days /\ D + 1 \in days /\ D + (-1) \in days
    OBVIOUS
  <2>3. D + 0 = D /\ D + (-1) = D - 1
    BY <2>1
  <2> QED BY <2>1, <2>2, <2>3
<1>2. \A k \in {0, 1}, i \in DOMAIN anchors :
        /\ At(<<k, i>>) \in Int /\ At(<<k, i>>) \in all
        /\ At(<<k, i>>) = WallClock(z, D + k, anchors[i])
        /\ k = 1 => now < At(<<k, i>>)
  BY Places
<1>3. \A i \in DOMAIN anchors : i \in Int
  BY AnchorRange
<1>4. ASSUME NEW p \in first, NEW y \in all, y >= now
      PROVE  At(p) \in Int /\ At(p) \in all /\ At(p) >= now /\ y \in Int /\ y >= At(p)
  <2>1. PICK k \in {0, 1}, i \in DOMAIN anchors : p = <<k, i>>
    OBVIOUS
  <2>2. PICK d \in days, j \in DOMAIN anchors : y = WallClock(z, d, anchors[j])
    BY DEF InstantsOf
  <2>3. y \in Int /\ (d < D => y < now)
    BY <1>1, <2>2, OtherDay
  <2>4. d \in Int /\ D <= d
    BY <1>1, <1>4, <2>3
  <2>5. At(p) = WallClock(z, D + k, anchors[i]) /\ D + k \in days
    BY <1>1, <1>2, <2>1
  <2>6. D + k < d \/ (D + k = d /\ i <= j)
    <3>1. CASE d = D
      <4>1. At(<<0, j>>) = y
        <5>1. D + 0 = D
          BY <1>1
        <5> QED BY <1>2, <2>2, <3>1, <5>1
      <4>2. <<0, j>> \in fits
        BY <1>4, <4>1
      <4>3. NotAfter(<<k, i>>, <<0, j>>)
        BY <2>1, <4>2
      <4>4. k = 0 /\ i <= j
        BY <4>3 DEF NotAfter
      <4> QED BY <1>1, <3>1, <4>4
    <3>2. CASE D < d /\ k = 0
      BY <1>1, <3>2
    <3>3. CASE D < d /\ k = 1
      <4>1. <<1, j>> \in fits
        <5>1. At(<<1, j>>) \in Int /\ now < At(<<1, j>>)
          BY <1>2
        <5> QED BY <5>1
      <4>2. NotAfter(<<k, i>>, <<1, j>>)
        BY <2>1, <4>1
      <4>3. i <= j
        BY <3>3, <4>2 DEF NotAfter
      <4> QED BY <1>1, <2>4, <3>3, <4>3
    <3> QED BY <1>1, <2>4, <3>1, <3>2, <3>3
  <2>7. At(p) <= y
    <3> DEFINE e == D + k
    <3>1. e \in days /\ (e < d \/ (e = d /\ i <= j))
      BY <2>5, <2>6
    <3>2. At(p) = WallClock(z, e, anchors[i])
      BY <2>5
    <3> HIDE DEF e, At
    <3>3. WallClock(z, e, anchors[i]) <= WallClock(z, d, anchors[j])
      BY <3>1, PlacesAscend
    <3> QED BY <2>2, <3>2, <3>3
  <2>8. At(p) \in Int /\ At(p) \in all
    BY <1>2, <2>1
  <2>9. At(p) >= now
    OBVIOUS
  <2> HIDE DEF At, all, first
  <2> QED BY <2>3, <2>7, <2>8, <2>9
<1>5. \E p \in first : TRUE
  <2> DEFINE S == {i \in DOMAIN anchors : <<0, i>> \in fits}
             N == Len(anchors)
  <2>1. N \in Nat /\ N # 0 /\ DOMAIN anchors = 1..N
    BY AnchorRange
  <2>2. CASE S # {}
    <3>1. PICK m \in S : \A i \in S : m <= i
      <4>1. S \in SUBSET (1..N)
        BY <2>1
      <4> HIDE DEF S, N
      <4> QED BY <2>1, <2>2, <4>1, SmallestIndex
    <3>2. ASSUME NEW r \in fits PROVE NotAfter(<<0, m>>, r)
      <4>1. PICK k \in {0, 1}, i \in DOMAIN anchors : r = <<k, i>>
        OBVIOUS
      <4>2. k = 0 => m <= i
        BY <3>1, <3>2, <4>1
      <4> QED BY <4>1, <4>2 DEF NotAfter
    <3>3. <<0, m>> \in first
      BY <3>2
    <3> QED BY <3>3
  <2>3. CASE S = {}
    <3>1. 1 \in DOMAIN anchors /\ \A i \in DOMAIN anchors : 1 <= i
      BY <2>1
    <3>2. <<1, 1>> \in fits
      <4>1. At(<<1, 1>>) \in Int /\ now < At(<<1, 1>>)
        BY <1>2, <3>1
      <4> QED BY <3>1, <4>1
    <3>3. ASSUME NEW r \in fits PROVE NotAfter(<<1, 1>>, r)
      <4>1. PICK k \in {0, 1}, i \in DOMAIN anchors : r = <<k, i>>
        OBVIOUS
      <4>2. k = 1
        BY <2>3, <3>3, <4>1
      <4> QED BY <3>1, <4>1, <4>2 DEF NotAfter
    <3>4. <<1, 1>> \in first
      BY <3>2, <3>3
    <3> QED BY <3>4
  <2> QED BY <2>2, <2>3
<1>6. \A p \in first : At(p) \in NextAnchors(all, now)
  <2> TAKE p \in first
  <2>1. PICK k \in {0, 1}, i \in DOMAIN anchors : p = <<k, i>>
    OBVIOUS
  <2>2. At(p) \in all /\ At(p) >= now
    BY <1>2, <2>1
  <2>3. \A y \in all : y >= now => y >= At(p)
    BY <1>4
  <2> HIDE DEF all, At
  <2> QED BY <2>2, <2>3 DEF NextAnchors
<1>7. ASSUME NEW x \in NextAnchors(all, now)
      PROVE  \E p \in first : x = At(p)
  <2>1. PICK p \in first : TRUE
    BY <1>5
  <2>2. x \in all /\ x >= now /\ \A y \in all : y >= now => y >= x
    BY DEF NextAnchors
  <2>3. At(p) \in Int /\ At(p) \in all /\ At(p) >= now /\ x \in Int /\ x >= At(p)
    BY <1>4, <2>2
  <2>4. At(p) >= x
    BY <2>2, <2>3
  <2>5. x = At(p)
    <3> HIDE DEF At
    <3> QED BY <2>3, <2>4
  <2> QED BY <2>1, <2>5
<1>8. NextAnchorOnOrAfter(z, anchors, now) = {At(p) : p \in first}
  BY DEF NextAnchorOnOrAfter
<1>9. /\ NextAnchorOnOrAfter(z, anchors, now) = NextAnchors(all, now)
      /\ NextAnchorOnOrAfter(z, anchors, now) # {}
  <2> HIDE DEF At, first, all
  <2> QED BY <1>5, <1>6, <1>7, <1>8
<1> QED BY <1>9
----------------------------------------------------------------------------
(* The calendar *)

\* Time stays within its bounds and the timezone is one that can be loaded.
CalendarInv ==
  /\ clock \in Start..MaxTime
  /\ \E name \in DOMAIN Locations : cfg.location = Locations[name]

\* Whatever the name, normalize stores a location it could load.
LEMMA NormalizeLocation ==
  ASSUME NEW raw
  PROVE  \E name \in DOMAIN Locations : Normalize(raw).location = Locations[name]
BY ConfigAssumption DEF Normalize, LoadLocation

\* The invariant holds in every reachable state.
LEMMA CalendarInvariant == Spec => []CalendarInv
<1>1. Init => CalendarInv
  BY CalendarAssumption, NormalizeLocation DEF Init, CalendarInv
<1>2. CalendarInv /\ [Next]_vars => CalendarInv'
  <2> SUFFICES ASSUME CalendarInv, [Next]_vars PROVE CalendarInv'
    OBVIOUS
  <2>1. CASE Reconfigure
    BY <2>1, NormalizeLocation DEF Reconfigure, CalendarInv
  <2>2. CASE Tick
    BY <2>2, CalendarAssumption DEF Tick, CalendarInv
  <2>3. CASE UNCHANGED vars
    BY <2>3 DEF vars, CalendarInv
  <2> QED BY <2>1, <2>2, <2>3 DEF Next
<1> QED BY <1>1, <1>2, PTL DEF Spec

\* At every tick, with every configuration, dueSlot is given the slots that
\* AnchorLoop takes for granted (schedule.go:43-84).
THEOREM ScansAgreeCorrect == Spec => []ScansAgree
<1>1. CalendarInv => ScansAgree
  <2> SUFFICES ASSUME CalendarInv, NEW f \in ListAnchorAccounts,
                      AnchorList(AnchorsOf(cfg, f)),
                      Regular(cfg.location, AnchorsOf(cfg, f), Days)
               PROVE  /\ PreviousOf(cfg, f, clock) = PreviousAnchors(Slots(cfg, f), clock)
                      /\ NextOf(cfg, f, clock) = NextAnchors(Slots(cfg, f), clock)
    BY DEF ScansAgree
  <2>1. /\ cfg.location \in Zone /\ clock \in Int /\ Days \in SUBSET Int
        /\ \A k \in {-1, 0, 1} : DayOf(cfg.location, clock) + k \in Days
    BY CalendarAssumption DEF CalendarInv
  <2> QED BY <2>1, ScanFindsPrevious, ScanFindsNext DEF PreviousOf, NextOf, Slots
<1> QED BY <1>1, CalendarInvariant, PTL

----------------------------------------------------------------------------
(* The lists *)

\* A set of minutes of the day has a least one and a greatest one.
LEMMA LeastMinute ==
  ASSUME NEW n \in Nat, NEW S \in SUBSET (0..n), S # {}
  PROVE  /\ Min(S) \in S /\ \A m \in S : Min(S) <= m
         /\ \E top \in S : \A m \in S : m <= top
<1> DEFINE T == {m + 1 : m \in S}
<1>1. \A m \in S : m \in 0..n
  OBVIOUS
<1>2. T \in SUBSET (1..(n + 1)) /\ T # {} /\ n + 1 \in Nat
  <2>1. \A m \in S : m + 1 \in 1..(n + 1)
    BY <1>1
  <2>2. \A k \in T : k \in 1..(n + 1)
    BY <2>1
  <2>3. \E m \in S : m + 1 \in T
    OBVIOUS
  <2> HIDE DEF T
  <2> QED BY <2>2, <2>3
<1>3. /\ \E k \in T : \A l \in T : k <= l
      /\ \E k \in T : \A l \in T : l <= k
  <2> HIDE DEF T
  <2>1. \E k \in T : \A l \in T : k <= l
    BY <1>2, SmallestIndex
  <2>2. \E k \in T : \A l \in T : l <= k
    BY <1>2, LargestIndex
  <2> QED BY <2>1, <2>2
<1>4. \E low \in S : \A m \in S : low <= m
  <2>1. PICK low \in S : \A l \in T : low + 1 <= l
    BY <1>3
  <2>2. \A m \in S : low + 1 <= m + 1
    BY <2>1
  <2> QED BY <1>1, <2>2
<1>5. \E top \in S : \A m \in S : m <= top
  <2>1. PICK top \in S : \A l \in T : l <= top + 1
    BY <1>3
  <2>2. \A m \in S : m + 1 <= top + 1
    BY <2>1
  <2> QED BY <1>1, <2>2
<1>6. Min(S) \in S /\ \A m \in S : Min(S) <= m
  BY <1>4 DEF Min
<1> QED BY <1>5, <1>6

\* What parseAnchors accepts it returns in ascending order, every anchor in range
\* and every one from the list (config.go:310-346).
LEMMA ParsedAscends ==
  ASSUME NEW values \in Seq(AnchorText), ParsesAnchors(values)
  PROVE  /\ AnchorList(ParseAnchors(values))
         /\ \A k \in DOMAIN ParseAnchors(values) : ParseAnchors(values)[k] \in Times(values)
<1> DEFINE N == Len(values)
           minutes == Minutes(values)
           NotAbove(m) == {i \in DOMAIN minutes : minutes[i] <= m}
           Least(k) == {m \in Times(values) : Cardinality(NotAbove(m)) >= k}
           sorted == ParseAnchors(values)
<1>1. /\ N \in Nat /\ N # 0 /\ DOMAIN values = 1..N /\ DOMAIN minutes = 1..N
      /\ \A i \in 1..N : values[i] \in AnchorText
  BY EmptySeq, LenProperties, ElementOfSeq DEF ParsesAnchors, Minutes
<1>2. \A i \in 1..N : /\ minutes[i] = 60 * values[i].hour + values[i].minute
                      /\ minutes[i] \in 0..(DayLen - 1)
  <2> SUFFICES ASSUME NEW i \in 1..N
               PROVE  /\ minutes[i] = 60 * values[i].hour + values[i].minute
                      /\ minutes[i] \in 0..(DayLen - 1)
    OBVIOUS
  <2>1. values[i].hour \in 0..23 /\ values[i].minute \in 0..59
    BY <1>1 DEF ParsesAnchors
  <2>2. minutes[i] = 60 * values[i].hour + values[i].minute
    BY <1>1 DEF Minutes
  <2>3. 60 * values[i].hour + values[i].minute \in 0..(DayLen - 1)
    <3> DEFINE h == values[i].hour
               m == values[i].minute
    <3>1. h \in 0..23 /\ m \in 0..59
      BY <2>1
    <3> HIDE DEF h, m
    <3>2. 60 * h + m \in 0..(DayLen - 1)
      BY <3>1 DEF DayLen
    <3> QED BY <3>2 DEF h, m
  <2> HIDE DEF minutes
  <2> QED BY <2>2, <2>3
<1>3. /\ Times(values) = {minutes[i] : i \in DOMAIN minutes}
      /\ Times(values) \in SUBSET (0..(DayLen - 1))
  <2> HIDE DEF minutes
  <2> QED BY <1>1, <1>2 DEF Times
<1>4. \A m : IsFiniteSet(NotAbove(m)) /\ Cardinality(NotAbove(m)) \in Nat
  <2> SUFFICES ASSUME NEW m
               PROVE  IsFiniteSet(NotAbove(m)) /\ Cardinality(NotAbove(m)) \in Nat
    OBVIOUS
  <2>1. IsFiniteSet(1..N) /\ NotAbove(m) \in SUBSET (1..N)
    BY <1>1, FS_Interval
  <2>2. IsFiniteSet(NotAbove(m))
    <3> HIDE DEF NotAbove, N
    <3> QED BY <2>1, FS_Subset
  <2> QED BY <2>2, FS_CardinalityType
<1>5. sorted = [k \in 1..N |-> Min(Least(k))]
  BY <1>1, <1>3 DEF ParseAnchors
<1>6. ASSUME NEW k \in 1..N
      PROVE  /\ Least(k) \in SUBSET (0..(DayLen - 1)) /\ Least(k) # {}
  \* The last of all minutes has the whole list not above it.
  <2>1. Least(k) \in SUBSET (0..(DayLen - 1))
    BY <1>3
  <2>2. PICK top \in Times(values) : \A m \in Times(values) : m <= top
    <3>1. Times(values) # {} /\ DayLen - 1 \in Nat
      BY <1>1, <1>3 DEF DayLen
    <3> QED BY <1>3, <3>1, LeastMinute
  <2>3. NotAbove(top) = 1..N
    <3> HIDE DEF minutes
    <3> QED BY <1>1, <1>3, <2>2
  <2>4. Cardinality(NotAbove(top)) = N
    <3>1. Cardinality(1..N) = N
      <4> HIDE DEF N
      <4> QED BY <1>1, FS_Interval
    <3> QED BY <2>3, <3>1
  <2>5. top \in Least(k)
    <3> HIDE DEF NotAbove, minutes
    <3> QED BY <1>1, <2>4
  <2> QED BY <2>1, <2>5
<1>7. ASSUME NEW k \in 1..N
      PROVE  /\ sorted[k] \in Least(k) /\ \A m \in Least(k) : sorted[k] <= m
             /\ sorted[k] \in Times(values) /\ sorted[k] \in 0..(DayLen - 1)
  <2>1. sorted[k] = Min(Least(k))
    <3> HIDE DEF Least, sorted
    <3> QED BY <1>5
  <2>2. Min(Least(k)) \in Least(k) /\ \A m \in Least(k) : Min(Least(k)) <= m
    <3>1. DayLen - 1 \in Nat
      BY DEF DayLen
    <3> HIDE DEF Least
    <3> QED BY <1>6, <3>1, LeastMinute
  <2>3. Least(k) \subseteq Times(values)
    OBVIOUS
  <2> HIDE DEF Least, sorted
  <2> QED BY <1>3, <2>1, <2>2, <2>3
<1>8. ASSUME NEW k \in 1..N, NEW n \in 1..N, k <= n
      PROVE  sorted[k] <= sorted[n]
  <2>1. sorted[n] \in Least(n)
    BY <1>7
  <2>2. sorted[n] \in Least(k)
    <3> DEFINE c == Cardinality(NotAbove(sorted[n]))
    <3>1. c \in Nat /\ c >= n /\ sorted[n] \in Times(values)
      <4> HIDE DEF NotAbove, sorted
      <4> QED BY <1>4, <2>1
    <3>2. c >= k
      <4> HIDE DEF c
      <4> QED BY <1>1, <1>8, <3>1
    <3> QED BY <3>1, <3>2
  <2> HIDE DEF Least, sorted
  <2> QED BY <1>7, <2>2
<1>9. sorted \in Seq(0..(DayLen - 1)) /\ DOMAIN sorted = 1..N
  <2>1. sorted = [k \in 1..N |-> sorted[k]]
    <3> HIDE DEF Least
    <3> QED BY <1>5
  <2> DEFINE S == 0..(DayLen - 1)
  <2>2. \A k \in 1..N : sorted[k] \in S
    BY <1>7
  <2> HIDE DEF sorted, S, N
  <2>3. sorted \in [1..N -> S]
    BY <2>1, <2>2
  <2>4. sorted \in Seq(S)
    BY <1>1, <2>3, SeqDef
  <2> QED BY <2>1, <2>4 DEF S
<1>10. sorted # <<>>
  <2> HIDE DEF sorted, N
  <2> QED BY <1>1, <1>9, EmptySeq
<1> HIDE DEF sorted, N
<1> QED BY <1>7, <1>8, <1>9, <1>10 DEF AnchorList, sorted

\* The stored configuration is one that the operator wrote, parsed.
StoredInv == \E raw \in Raws : Normalizes(raw) /\ cfg = Normalize(raw)

\* It stays so: a configuration with an error is not stored (lifecycle.go).
LEMMA StoredInvariant == Spec => []StoredInv
<1>1. Init => StoredInv
  BY DEF Init, StoredInv
<1>2. StoredInv /\ [Next]_vars => StoredInv'
  BY DEF StoredInv, Next, vars, Reconfigure, Tick
<1> QED BY <1>1, <1>2, PTL DEF Spec

\* The first of the overrides with a property has it.
LEMMA FirstOverride ==
  ASSUME NEW N \in Nat, NEW D \in SUBSET (1..N), D # {}
  PROVE  {i \in D : \A j \in 1..(i - 1) : j \notin D} # {}
<1>1. PICK m \in D : \A k \in D : m <= k
  BY SmallestIndex
<1>2. ASSUME NEW j \in 1..(m - 1) PROVE j \notin D
  BY <1>1
<1> QED BY <1>2

\* An account has no anchors, or has those of a list that parses and that is
\* written for it: its own, or else its provider's, or else the one of all
\* (anchorsForAccount, config.go:377-402).
LEMMA ListOfAccount ==
  ASSUME StoredInv, NEW f \in ListAnchorAccounts, AnchorsOf(cfg, f) # <<>>
  PROVE  \E values \in Seq(AnchorText) :
           /\ ParsesAnchors(values) /\ AnchorsOf(cfg, f) = ParseAnchors(values)
           /\ Times(values) \subseteq AskedFor(f)
<1>1. PICK raw \in Raws : Normalizes(raw) /\ cfg = Normalize(raw)
  BY DEF StoredInv
<1>2. /\ raw \in Raw /\ cfg.raw = raw /\ f.provider \in Providers
      /\ cfg.anchorTimes = ParseAnchors(AnchorsOrDefault(raw))
      /\ DOMAIN cfg.providerAnchors = OwnAnchors(raw)
      /\ \A p \in OwnAnchors(raw) :
           cfg.providerAnchors[p] = ParseAnchors(raw.providers[p].anchors)
  BY <1>1, CalendarAssumption DEF Normalize, ListAnchorAccounts
<1>3. /\ raw.anchors \in Seq(AnchorText)
      /\ \A p \in Providers : raw.providers[p].anchors \in Seq(AnchorText)
      /\ raw.overrides \in Seq([id : Ids, enabled : Switch, anchors : Seq(AnchorText)])
  BY <1>2 DEF Raw
<1> DEFINE overrides == raw.overrides
           N == Len(overrides)
           Decides(i) == /\ overrides[i].id = f.id
                         /\ \/ overrides[i].enabled = "off"
                            \/ ParsesAnchors(overrides[i].anchors)
           D == {i \in DOMAIN overrides : Decides(i)}
           first == {i \in DOMAIN overrides :
                       Decides(i) /\ \A j \in 1..(i - 1) : ~Decides(j)}
           own == {i \in DOMAIN overrides :
                     overrides[i].id = f.id /\ ParsesAnchors(overrides[i].anchors)}
<1>4. /\ N \in Nat /\ DOMAIN overrides = 1..N
      /\ \A i \in 1..N : overrides[i].anchors \in Seq(AnchorText)
  <2> DEFINE Override == [id : Ids, enabled : Switch, anchors : Seq(AnchorText)]
  <2>1. \A o \in Override : o.anchors \in Seq(AnchorText)
    OBVIOUS
  <2>2. overrides \in Seq(Override)
    BY <1>3
  <2> HIDE DEF Override, overrides
  <2>3. \A i \in 1..N : overrides[i] \in Override
    BY <2>2, ElementOfSeq
  <2> QED BY <2>1, <2>2, <2>3, LenProperties
<1>5. AnchorsOf(cfg, f) = AnchorsForAccount(cfg, f.id, f.provider)
  BY DEF AnchorsOf
<1>6. CASE first # {}
  <2> DEFINE i == CHOOSE i \in first : TRUE
  <2>1. i \in first
    BY <1>6
  <2>2. AnchorsOf(cfg, f) = IF overrides[i].enabled = "off" THEN <<>>
                            ELSE ParseAnchors(overrides[i].anchors)
    BY <1>2, <1>5, <1>6 DEF AnchorsForAccount
  <2>3. overrides[i].enabled # "off" /\ AnchorsOf(cfg, f) = ParseAnchors(overrides[i].anchors)
    BY <2>2
  <2>4. i \in own /\ i \in 1..N
    <3>1. i \in DOMAIN overrides /\ Decides(i)
      <4> HIDE DEF i, Decides
      <4> QED BY <2>1
    <3> HIDE DEF i
    <3> QED BY <1>4, <2>3, <3>1
  <2>5. Times(overrides[i].anchors) \subseteq AskedFor(f)
    <3>1. cfg.raw = raw
      BY <1>2
    <3>2. own # {} => AskedFor(f) = UNION {Times(overrides[j].anchors) : j \in own}
      BY <3>1 DEF AskedFor
    <3> HIDE DEF i, own
    <3> QED BY <2>4, <3>2
  <2> QED BY <1>4, <2>3, <2>4, <2>5
<1>7. CASE first = {}
  <2>1. own = {}
    <3>1. D = {}
      <4>1. first = {i \in D : \A j \in 1..(i - 1) : j \notin D}
        BY <1>4
      <4>2. D \in SUBSET (1..N)
        BY <1>4
      <4> HIDE DEF D, first, N
      <4> QED BY <1>4, <1>7, <4>1, <4>2, FirstOverride
    <3> QED BY <3>1
  <2>2. AnchorsOf(cfg, f) = IF f.provider \in OwnAnchors(raw)
                              THEN ParseAnchors(raw.providers[f.provider].anchors)
                              ELSE ParseAnchors(AnchorsOrDefault(raw))
    BY <1>2, <1>5, <1>7 DEF AnchorsForAccount
  <2>3. AskedFor(f) = IF f.provider \in OwnAnchors(raw)
                        THEN Times(raw.providers[f.provider].anchors)
                        ELSE Times(AnchorsOrDefault(raw))
    BY <1>2, <2>1 DEF AskedFor, Times
  <2>4. /\ AnchorsOrDefault(raw) \in Seq(AnchorText)
        /\ ParsesAnchors(AnchorsOrDefault(raw))
        /\ f.provider \in OwnAnchors(raw) =>
             ParsesAnchors(raw.providers[f.provider].anchors)
    BY <1>1, <1>3, ConfigAssumption DEF AnchorsOrDefault, Normalizes
  <2> QED BY <1>2, <1>3, <2>2, <2>3, <2>4
<1> QED BY <1>6, <1>7

\* Whichever of the four places an account's list comes from, it reaches the scans
\* in range and ascending.
THEOREM ListsAscendCorrect == Spec => []ListsAscend
<1>1. StoredInv => ListsAscend
  BY ListOfAccount, ParsedAscends DEF ListsAscend
<1> QED BY <1>1, StoredInvariant, PTL

\* The moment of an anchor shows the anchor on the clock.
LEMMA ShowsAnchor ==
  ASSUME NEW z, NEW d \in Int, NEW a \in 0..(DayLen - 1),
         Exists(z, d * DayLen + a)
  PROVE  WallTime(z, WallClock(z, d, a)) % DayLen = a
<1>1. WallTime(z, WallClock(z, d, a)) = d * 1440 + a
  BY DEF Exists, WallClock, DayLen
<1>2. a \in 0..1439
  BY DEF DayLen
<1>3. (d * 1440 + a) % 1440 = a
  BY <1>2
<1> QED BY <1>1, <1>3 DEF DayLen

\* Whatever the operator writes and rewrites, every slot that dueSlot looks at is
\* at a time of day written for its account: none is fired at a time nobody asked
\* for, before, on or after a change of the clocks that leaps over none.
THEOREM SlotsAskedForCorrect == Spec => []SlotsAskedFor
<1>1. ASSUME CalendarInv, StoredInv PROVE SlotsAskedFor
  <2> DEFINE z == cfg.location
  <2> SUFFICES ASSUME NEW f \in ListAnchorAccounts,
                      Regular(z, AnchorsOf(cfg, f), Days),
                      NEW p \in PreviousOf(cfg, f, clock) \union NextOf(cfg, f, clock)
               PROVE  WallTime(z, p) % DayLen \in AskedFor(f)
    BY DEF SlotsAskedFor
  <2> DEFINE anchors == AnchorsOf(cfg, f)
             D == DayOf(z, clock)
  <2>1. /\ z \in Zone /\ clock \in Int /\ Days \in SUBSET Int
        /\ \A k \in {-1, 0, 1} : D + k \in Days
    BY <1>1, CalendarAssumption DEF CalendarInv
  <2>2. PICK k \in {-1, 0, 1}, i \in DOMAIN anchors :
          p = Candidate(z, anchors, clock, <<k, i>>)
    <3>1. ASSUME NEW place \in {-1, 0} \X DOMAIN anchors
                               \union {0, 1} \X DOMAIN anchors
          PROVE  \E k \in {-1, 0, 1}, i \in DOMAIN anchors : place = <<k, i>>
      OBVIOUS
    <3>2. \E place \in {-1, 0} \X DOMAIN anchors \union {0, 1} \X DOMAIN anchors :
            p = Candidate(z, anchors, clock, place)
      BY DEF PreviousOf, NextOf, PreviousAnchorOnOrBefore, NextAnchorOnOrAfter
    <3> HIDE DEF z, anchors
    <3> QED BY <3>1, <3>2
  <2>3. anchors # <<>>
    BY <2>2
  <2>4. PICK values \in Seq(AnchorText) :
          /\ ParsesAnchors(values) /\ anchors = ParseAnchors(values)
          /\ Times(values) \subseteq AskedFor(f)
    BY <1>1, <2>3, ListOfAccount
  <2>5. AnchorList(anchors) /\ anchors[i] \in AskedFor(f)
    BY <2>2, <2>4, ParsedAscends
  <2>6. p = WallClock(z, D + k, anchors[i])
    BY <2>1, <2>2, <2>5, Places
  <2>7. Exists(z, (D + k) * DayLen + anchors[i]) /\ D + k \in Int
    BY <2>1, <2>2, RegularAt
  <2>8. anchors[i] \in 0..(DayLen - 1)
    <3> HIDE DEF anchors
    <3>1. anchors \in Seq(0..(DayLen - 1)) /\ i \in 1..Len(anchors)
      BY <2>2, <2>5, LenProperties DEF AnchorList
    <3> QED BY <3>1, ElementOfSeq
  <2> HIDE DEF z, anchors, D
  <2>9. WallTime(z, p) % DayLen = anchors[i]
    BY <2>6, <2>7, <2>8, ShowsAnchor
  <2> QED BY <2>5, <2>9
<1>2. CalendarInv /\ StoredInv => SlotsAskedFor
  BY <1>1
<1> QED BY <1>2, CalendarInvariant, StoredInvariant, PTL

----------------------------------------------------------------------------
(* As time goes by *)

\* A timezone in which no slot is met twice: no day begins twice on the given days,
\* no anchor that spring leaps over is taken back into an earlier day, and less
\* than a day is leapt over.  Midnight itself may be leapt over, as in Havana.
Forward(zone, anchors, days) ==
  /\ zone.after - zone.before < DayLen
  /\ \A d \in days :
       /\ ~(/\ zone.change + zone.after < d * DayLen
            /\ d * DayLen < zone.change + zone.before)
       /\ LET s == DayOf(zone, TimeDate(zone, d * DayLen)) IN
          \A i \in DOMAIN anchors : DayOf(zone, WallClock(zone, s, anchors[i])) >= s

\* A day that has begun, and that does not begin twice, is never again to come.
LEMMA NoReturn ==
  ASSUME NEW z \in Zone, NEW t \in Int, NEW u \in Int, t <= u, NEW b \in Int,
         b <= WallTime(z, t),
         ~(z.change + z.after < b /\ b < z.change + z.before)
  PROVE  b <= WallTime(z, u)
BY DEF Zone, WallTime, OffsetAt

\* A midnight that is leapt over is taken on its day or on the day before, and then
\* the midnight before it exists.
LEMMA MidnightTaken ==
  ASSUME NEW z \in Zone, z.after - z.before < DayLen, NEW d \in Int
  PROVE  LET s == DayOf(z, TimeDate(z, d * DayLen)) IN
         /\ s \in Int /\ (s = d \/ s = d - 1)
         /\ s = d - 1 => DayOf(z, TimeDate(z, (d - 1) * DayLen)) = d - 1
<1> DEFINE w == d * 1440
           v == (d - 1) * 1440
           s == DayOf(z, TimeDate(z, w))
           r == DayOf(z, TimeDate(z, v))
<1>1. w \in Int /\ v \in Int /\ v = w - 1440
  OBVIOUS
<1>2. /\ WallTime(z, TimeDate(z, w)) < w + 1440
      /\ w - 1440 < WallTime(z, TimeDate(z, w))
      /\ WallTime(z, TimeDate(z, w)) < w => WallTime(z, TimeDate(z, v)) = v
  <2> HIDE DEF w
  <2> QED BY <1>1 DEF Zone, WallTime, TimeDate, OffsetAt, DayLen
<1>3. /\ s \in Int /\ s * 1440 <= WallTime(z, TimeDate(z, w))
      /\ WallTime(z, TimeDate(z, w)) < (s + 1) * 1440
      /\ r \in Int /\ r * 1440 <= WallTime(z, TimeDate(z, v))
      /\ WallTime(z, TimeDate(z, v)) < (r + 1) * 1440
      /\ WallTime(z, TimeDate(z, w)) \in Int
  <2>1. TimeDate(z, w) \in Int /\ TimeDate(z, v) \in Int
    BY <1>1, TimeDateInt
  <2> HIDE DEF w, v
  <2> QED BY <2>1, DayBounds DEF DayLen
<1> HIDE DEF s, r
<1>4. s = d \/ s = d - 1
  BY <1>2, <1>3
<1>5. s = d - 1 => r = d - 1
  BY <1>2, <1>3
<1> QED BY <1>3, <1>4, <1>5 DEF s, r, DayLen

\* The place that a scan back from now stops at, and what it says of the others.
LEMMA ScanStops ==
  ASSUME NEW z \in Zone, NEW anchors, NEW now \in Int,
         NEW p \in PreviousAnchorOnOrBefore(z, anchors, now)
  PROVE  \E x \in Int : \E i \in DOMAIN anchors :
           /\ x = DayOf(z, now) \/ x = DayOf(z, now) - 1
           /\ p = WallClock(z, DayOf(z, TimeDate(z, x * DayLen)), anchors[i])
           /\ p <= now
           /\ \A y \in Int : \A j \in DOMAIN anchors :
                /\ y = DayOf(z, now) \/ y = DayOf(z, now) - 1
                /\ WallClock(z, DayOf(z, TimeDate(z, y * DayLen)), anchors[j]) <= now
                => y < x \/ (y = x /\ j <= i)
<1> DEFINE D == DayOf(z, now)
           At(y, j) == WallClock(z, DayOf(z, TimeDate(z, y * DayLen)), anchors[j])
           fits == {r \in {-1, 0} \X DOMAIN anchors : Candidate(z, anchors, now, r) <= now}
<1>1. PICK place \in fits :
        /\ p = Candidate(z, anchors, now, place)
        /\ \A r \in fits : NotAfter(r, place)
  BY DEF PreviousAnchorOnOrBefore
<1>2. PICK k \in {-1, 0}, i \in DOMAIN anchors : place = <<k, i>>
  OBVIOUS
<1>3. D \in Int
  BY DayBounds
<1>4. \A m \in {-1, 0}, j \in DOMAIN anchors :
        Candidate(z, anchors, now, <<m, j>>) = At(D + m, j)
  BY DEF Candidate, ScanDay
<1> DEFINE x == D + k
<1>5. x \in Int /\ (x = D \/ x = D - 1) /\ p = At(x, i)
  <2>1. p = At(x, i)
    BY <1>1, <1>2, <1>4
  <2> HIDE DEF D, At
  <2> QED BY <1>3, <2>1
<1>6. p <= now
  BY <1>1
<1>7. ASSUME NEW y \in Int, NEW j \in DOMAIN anchors, y = D \/ y = D - 1, At(y, j) <= now
      PROVE  y < x \/ (y = x /\ j <= i)
  <2> DEFINE m == y - D
  <2>1. m \in {-1, 0} /\ D + m = y
    <3> HIDE DEF D
    <3> QED BY <1>3, <1>7
  <2>2. <<m, j>> \in fits
    <3> HIDE DEF m, D
    <3>1. Candidate(z, anchors, now, <<m, j>>) = At(y, j)
      BY <1>4, <2>1
    <3> HIDE DEF At
    <3> QED BY <1>7, <2>1, <3>1
  <2>3. m < k \/ (m = k /\ j <= i)
    <3> HIDE DEF m, fits
    <3>1. NotAfter(<<m, j>>, <<k, i>>)
      BY <1>1, <1>2, <2>2
    <3> QED BY <3>1 DEF NotAfter
  <2> HIDE DEF D, At
  <2> QED BY <1>3, <2>1, <2>3
<1> HIDE DEF x, D, At
<1> QED BY <1>5, <1>6, <1>7 DEF D, At

\* From one moment to a later one the scan does not go back.
LEMMA PreviousGoesForward ==
  ASSUME NEW z \in Zone, NEW anchors, NEW days \in SUBSET Int,
         Forward(z, anchors, days), \A i \in DOMAIN anchors : i \in Int /\ anchors[i] \in Int,
         NEW t \in Int, NEW u \in Int, t <= u,
         \A k \in {-1, 0, 1} : DayOf(z, t) + k \in days,
         \A k \in {-1, 0, 1} : DayOf(z, u) + k \in days,
         NEW p \in PreviousAnchorOnOrBefore(z, anchors, t),
         NEW q \in PreviousAnchorOnOrBefore(z, anchors, u)
  PROVE  p <= q
<1> DEFINE D == DayOf(z, t)
           E == DayOf(z, u)
           Taken(y) == DayOf(z, TimeDate(z, y * DayLen))
           At(y, j) == WallClock(z, Taken(y), anchors[j])
<1>1. PICK x \in Int, i \in DOMAIN anchors :
        /\ x = D \/ x = D - 1
        /\ p = At(x, i) /\ p <= t
        /\ \A y \in Int : \A j \in DOMAIN anchors :
             (y = D \/ y = D - 1) /\ At(y, j) <= t => y < x \/ (y = x /\ j <= i)
  BY ScanStops
<1>2. PICK y \in Int, j \in DOMAIN anchors :
        /\ y = E \/ y = E - 1
        /\ q = At(y, j) /\ q <= u
        /\ \A d \in Int : \A m \in DOMAIN anchors :
             (d = E \/ d = E - 1) /\ At(d, m) <= u => d < y \/ (d = y /\ m <= j)
  BY ScanStops
<1>3. /\ D \in Int /\ E \in Int /\ D \in days /\ D + 1 \in days /\ y \in days
  <2>1. D \in Int /\ E \in Int
    BY DayBounds
  <2>2. /\ D + 0 \in days /\ D + 1 \in days /\ E + 0 \in days /\ E + (-1) \in days
    OBVIOUS
  <2> HIDE DEF D, E
  <2>3. D + 0 = D /\ E + 0 = E /\ E + (-1) = E - 1
    BY <2>1
  <2> QED BY <1>2, <2>1, <2>2, <2>3
<1>4. ASSUME NEW d \in days, NEW a \in Int, NEW b \in Int, a <= b, d * DayLen <= WallTime(z, a)
      PROVE  d * DayLen <= WallTime(z, b)
  <2>1. d * DayLen \in Int
    BY DEF DayLen
  <2>2. ~(z.change + z.after < d * DayLen /\ d * DayLen < z.change + z.before)
    BY DEF Forward
  <2> QED BY <1>4, <2>1, <2>2, NoReturn
<1>5. /\ D * DayLen <= WallTime(z, t) /\ WallTime(z, t) < (D + 1) * DayLen
      /\ E * DayLen <= WallTime(z, u) /\ WallTime(z, u) < (E + 1) * DayLen
      /\ WallTime(z, t) \in Int /\ WallTime(z, u) \in Int
  BY DayBounds
<1>6. D <= E
  <2>1. D * DayLen <= WallTime(z, u)
    BY <1>3, <1>4, <1>5
  <2> HIDE DEF D, E
  <2> QED BY <1>3, <1>5, <2>1 DEF DayLen
<1>7. \A d \in Int : Taken(d) \in Int
  BY TimeDateInt, DayBounds DEF DayLen
<1>8. \A d \in Int : \A m \in DOMAIN anchors : At(d, m) \in Int
  <2> SUFFICES ASSUME NEW d \in Int, NEW m \in DOMAIN anchors PROVE At(d, m) \in Int
    OBVIOUS
  <2>1. Taken(d) * DayLen + anchors[m] \in Int
    <3> HIDE DEF Taken
    <3> QED BY <1>7 DEF DayLen
  <2> HIDE DEF Taken
  <2> QED BY <2>1, TimeDateInt DEF WallClock
<1>9. p \in Int /\ q \in Int
  <2> HIDE DEF At
  <2> QED BY <1>1, <1>2, <1>8
<1> SUFFICES ASSUME q < p PROVE FALSE
  BY <1>9
\* One of the two days is in reach of both scans: they see the same places.
<1>10. CASE y <= D
  <2> HIDE DEF D, E, At, Taken
  <2>1. (y = D \/ y = D - 1) /\ (x = E \/ x = E - 1 \/ x < y)
    BY <1>1, <1>2, <1>3, <1>6, <1>10
  <2>2. y < x \/ (y = x /\ j <= i)
    <3>1. At(y, j) <= t
      BY <1>1, <1>2, <1>9
    <3> QED BY <1>1, <2>1, <3>1
  <2>3. x < y \/ (x = y /\ i <= j)
    <3>1. At(x, i) <= u
      BY <1>1, <1>9
    <3>2. x = E \/ x = E - 1
      BY <1>1, <2>1, <2>2
    <3> QED BY <1>2, <3>1, <3>2
  <2>4. x = y /\ i = j
    BY <2>2, <2>3
  <2> QED BY <1>1, <1>2, <1>9, <2>4
\* A later day's slot can be earlier only if its midnight is taken back into this day.
<1>11. CASE y > D
  <2>1. /\ Taken(y) = y \/ Taken(y) = y - 1
        /\ Taken(y) = y - 1 => Taken(y - 1) = y - 1
    <3>1. z.after - z.before < DayLen
      BY DEF Forward
    <3> QED BY <3>1, MidnightTaken
  <2>2. DayOf(z, q) >= Taken(y)
    BY <1>2, <1>3 DEF Forward
  <2>3. Taken(y) <= D
    <3> SUFFICES ASSUME Taken(y) >= D + 1 PROVE FALSE
      <4> HIDE DEF Taken, D
      <4> QED BY <1>3, <1>7
    <3>1. (D + 1) * DayLen <= WallTime(z, q)
      <4>1. DayOf(z, q) \in Int /\ DayOf(z, q) * DayLen <= WallTime(z, q)
            /\ WallTime(z, q) \in Int
        BY <1>9, DayBounds
      <4>2. DayOf(z, q) >= D + 1
        <5> HIDE DEF Taken, D
        <5> QED BY <1>3, <1>7, <2>2, <4>1
      <4> HIDE DEF D
      <4> QED BY <1>3, <4>1, <4>2 DEF DayLen
    <3>2. q <= t
      BY <1>1, <1>9
    <3>3. (D + 1) * DayLen <= WallTime(z, t)
      BY <1>3, <1>4, <1>9, <3>1, <3>2
    <3> HIDE DEF D
    <3> QED BY <1>3, <1>5, <3>3 DEF DayLen
  <2> HIDE DEF D, E, Taken
  <2>4. y = D + 1 /\ Taken(y) = D /\ Taken(D) = D
    <3>1. y = D + 1 /\ Taken(y) = y - 1
      BY <1>3, <1>11, <2>1, <2>3
    <3>2. y - 1 = D
      BY <1>3, <3>1
    <3> QED BY <2>1, <3>1, <3>2
  <2>5. \A m \in DOMAIN anchors : At(D, m) = At(y, m)
    BY <2>4
  <2> HIDE DEF At
  <2>6. x = D /\ j <= i
    <3>1. At(D, j) <= t
      BY <1>1, <1>2, <1>9, <2>5
    <3>2. D < x \/ (D = x /\ j <= i)
      BY <1>1, <1>3, <3>1
    <3> QED BY <1>1, <1>3, <3>2
  <2>7. At(y, i) <= u /\ p = At(y, i)
    BY <1>1, <1>9, <2>5, <2>6
  <2>8. i <= j
    BY <1>2, <2>7
  <2>9. i = j
    BY <2>6, <2>8
  <2> QED BY <1>2, <1>9, <2>7, <2>9
<1> QED BY <1>3, <1>10, <1>11

\* The timezones in which the operator may have written anchors bring none of them
\* round again.
AllForward ==
  \A raw \in Raws : Normalizes(raw) =>
    \A f \in ListAnchorAccounts :
      Forward(Normalize(raw).location, AnchorsOf(Normalize(raw), f), Days)

\* The slot that dueSlot looks at never goes back, from one tick to any later one
\* and over the change of the clocks, if no midnight comes twice.
THEOREM SlotsGoForwardCorrect ==
  ASSUME AllForward
  PROVE  Spec => SlotsGoForward
<1>1. ASSUME CalendarInv, CalendarInv', StoredInv, [Next]_vars, cfg' = cfg,
             NEW f \in ListAnchorAccounts,
             NEW p \in PreviousOf(cfg, f, clock), NEW q \in PreviousOf(cfg, f, clock')
      PROVE  p <= q
  <2> DEFINE z == cfg.location
             anchors == AnchorsOf(cfg, f)
  <2>1. /\ z \in Zone /\ clock \in Int /\ clock' \in Int /\ Days \in SUBSET Int
        /\ \A k \in {-1, 0, 1} : DayOf(z, clock) + k \in Days
        /\ \A k \in {-1, 0, 1} : DayOf(z, clock') + k \in Days
    BY <1>1, CalendarAssumption DEF CalendarInv
  <2>2. clock <= clock'
    BY <1>1, <2>1, CalendarAssumption DEF Next, Reconfigure, Tick, vars
  <2>3. Forward(z, anchors, Days)
    BY <1>1 DEF StoredInv, AllForward
  <2>4. \A i \in DOMAIN anchors : i \in Int /\ anchors[i] \in Int
    <3>1. CASE anchors = <<>>
      <4> HIDE DEF anchors
      <4> QED BY <3>1
    <3>2. CASE anchors # <<>>
      <4>1. AnchorList(anchors)
        BY <1>1, <3>2, ListOfAccount, ParsedAscends
      <4> HIDE DEF anchors
      <4> QED BY <4>1, AnchorRange
    <3> QED BY <3>1, <3>2
  <2>5. /\ p \in PreviousAnchorOnOrBefore(z, anchors, clock)
        /\ q \in PreviousAnchorOnOrBefore(z, anchors, clock')
    BY <1>1 DEF PreviousOf
  <2> HIDE DEF z, anchors
  <2> QED BY <2>1, <2>2, <2>3, <2>4, <2>5, PreviousGoesForward
<1>2. CalendarInv /\ CalendarInv' /\ StoredInv /\ [Next]_vars =>
        [cfg' = cfg => \A f \in ListAnchorAccounts :
           \A p \in PreviousOf(cfg, f, clock), q \in PreviousOf(cfg, f, clock') : p <= q]_vars
  BY <1>1
<1> QED BY <1>2, CalendarInvariant, StoredInvariant, PTL DEF Spec, SlotsGoForward
=============================================================================
