--------------------------- MODULE MCSlotCalendar ---------------------------
(***************************************************************************)
(* Small instances of SlotCalendar for TLC: real offsets, real hours, and  *)
(* a change of the clocks on day 4.                                        *)
(***************************************************************************)
EXTENDS SlotCalendar, TLC

MCAt(day, hour) == day * DayLen + hour * 60
MCZone(before, after, change) ==
  [before |-> before * 60, after |-> after * 60, change |-> change]

\* East, west and on the meridian; forward and back; at midnight in Havana.
MCLocations ==
  [n \in {"UTC"}            |-> MCZone(0, 0, 0)] @@
  [n \in {"Shanghai"}       |-> MCZone(8, 8, 0)] @@
  [n \in {"Berlin spring"}  |-> MCZone(1, 2, MCAt(4, 1))] @@
  [n \in {"Berlin autumn"}  |-> MCZone(2, 1, MCAt(4, 1))] @@
  [n \in {"London autumn"}  |-> MCZone(1, 0, MCAt(4, 1))] @@
  [n \in {"New York spring"}|-> MCZone(-5, -4, MCAt(4, 7))] @@
  [n \in {"New York autumn"}|-> MCZone(-4, -5, MCAt(4, 6))] @@
  [n \in {"Havana spring"}  |-> MCZone(-5, -4, MCAt(4, 5))] @@
  [n \in {"Havana autumn"}  |-> MCZone(-4, -5, MCAt(4, 5))]

MCText(text, hour, minute) == [text |-> text, hour |-> hour, minute |-> minute]

\* Out of order; an hour that autumn repeats, and one that spring leaps over.
MCDefaults == <<MCText("06:30", 6, 30), MCText("16:30", 16, 30)>>
MCEarly    == <<MCText("23:45", 23, 45), MCText("00:30", 0, 30), MCText("01:30", 1, 30)>>
MCLeapt    == <<MCText("01:45", 1, 45), MCText("02:30", 2, 30), MCText("03:15", 3, 15)>>
MCTwice    == <<MCText("6:30", 6, 30), MCText("06:30", 6, 30)>>
MCBad      == <<MCText("24:00", 24, 0)>>

MCDurations == [f \in {"poll-interval"} |-> 30]

MCIds == {"a", "b", "c"}
MCFiles == {[id |-> "a", provider |-> "claude"], [id |-> "b", provider |-> "codex"],
            [id |-> "c", provider |-> "other"]}

MCSection(enabled, anchors) == [enabled |-> enabled, anchors |-> anchors]
MCOverride(id, enabled, anchors) ==
  [id |-> id, enabled |-> enabled, anchors |-> anchors]

MCPlain(timezone, anchors) ==
  [enabled |-> TRUE, timezone |-> timezone,
   durations |-> [f \in {"poll-interval"} |-> Unset], anchors |-> anchors,
   providers |-> [p \in {"claude", "codex"} |-> MCSection("unset", <<>>)],
   include |-> {}, exclude |-> {}, overrides |-> <<>>]

\* One global list; a provider's own; an account's own, after one that does not
\* parse; accounts and the plugin switched off.
MCRawsIn(timezone) ==
  {MCPlain(timezone, l) : l \in {<<>>, MCEarly, MCLeapt, MCTwice}} \union
  {[MCPlain(timezone, <<>>) EXCEPT !.providers["codex"] = MCSection("on", MCEarly)],
   [MCPlain(timezone, MCLeapt) EXCEPT
      !.providers["claude"] = MCSection("on", MCTwice),
      !.overrides = <<MCOverride("a", "unset", MCBad), MCOverride("b", "off", <<>>),
                      MCOverride("a", "on", MCEarly)>>],
   [MCPlain(timezone, <<>>) EXCEPT !.include = {"a", "b"}, !.exclude = {"a"}]}

\* A timezone that is not known, a list and a duration that do not parse.
MCRaws ==
  UNION {MCRawsIn(n) : n \in DOMAIN MCLocations} \union
  {MCPlain("Mars", <<>>), MCPlain("", MCBad), [MCPlain("", <<>>) EXCEPT !.enabled = FALSE],
   [MCPlain("", <<>>) EXCEPT !.durations["poll-interval"] = -1],
   [MCPlain("", <<>>) EXCEPT !.providers["codex"].anchors = MCBad]}

MCHavana == {MCPlain("Havana spring", <<>>)}

MCStart == MCAt(2, 0)
MCMaxTime == MCAt(6, 0)
MCDays == 0..8

\* Time ends at MaxTime in the model only.
AtHorizon == clock = MaxTime /\ UNCHANGED vars
MCSpec == Init /\ [][Next \/ AtHorizon]_vars
=============================================================================
