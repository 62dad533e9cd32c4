---------------------------- MODULE AnchorConfig ----------------------------
(***************************************************************************)
(* The configuration (config.go): from what YAML decodes to what the rest  *)
(* of the program reads, and which anchors it means for which account.     *)
(* Of a string only what the code makes of it is kept: IDs are IDs up to   *)
(* case and space, a duration that does not parse is -1, an anchor is a    *)
(* record of its text and of the two numbers Sscanf reads from it (-1 if   *)
(* it reads none); blank entries, which only providers' lists may have,    *)
(* are left out.                                                           *)
(***************************************************************************)
EXTENDS Integers, Sequences, FiniteSetsExt

CONSTANTS
  Ids,               \* credential IDs
  Providers,         \* keys of providerSpecs
  DefaultOn,         \* providers that run unless they are switched off: Claude
  Locations,         \* what time.LoadLocation knows, by name
  DefaultTimezone,
  DefaultAnchors,
  DefaultDurations   \* by name of the field

Switch == {"unset", "on", "off"}
Unset == -2          \* of a duration

AnchorText == [text : STRING, hour : Int, minute : Int]

\* What yaml.Unmarshal may leave in a Config.
Raw ==
  [enabled : BOOLEAN, timezone : STRING,
   durations : [DOMAIN DefaultDurations -> Int],
   anchors : Seq(AnchorText),
   providers : [Providers -> [enabled : Switch, anchors : Seq(AnchorText)]],
   include : SUBSET Ids, exclude : SUBSET Ids,
   overrides : Seq([id : Ids, enabled : Switch, anchors : Seq(AnchorText)])]

ASSUME ConfigAssumption ==
  /\ DefaultOn \subseteq Providers
  /\ {"UTC", DefaultTimezone} \subseteq DOMAIN Locations
  /\ DefaultAnchors \in Seq(AnchorText)

----------------------------------------------------------------------------
(* parseAnchors *)

ParsesAnchors(values) ==
  /\ values # <<>>
  /\ \A i \in DOMAIN values : values[i].hour \in 0..23 /\ values[i].minute \in 0..59
  /\ \A i, j \in DOMAIN values : values[i].text = values[j].text => i = j

Minutes(values) == [i \in DOMAIN values |-> 60 * values[i].hour + values[i].minute]

\* Mutant: in the order of the list.
ParseUnsorted(values) == Minutes(values)

\* Sorted: the k-th is the least with k of the list not above it.
ParseAnchors(values) ==
  LET minutes == Minutes(values)
      NotAbove(m) == {i \in DOMAIN minutes : minutes[i] <= m}
  IN [k \in DOMAIN minutes |->
        Min({m \in {minutes[i] : i \in DOMAIN minutes} : Cardinality(NotAbove(m)) >= k})]

----------------------------------------------------------------------------
(* normalize *)

ParseDurationOr(value, fallback) == IF value = Unset THEN fallback ELSE value

AnchorsOrDefault(raw) ==
  IF raw.anchors = <<>> THEN DefaultAnchors ELSE raw.anchors

OwnAnchors(raw) == {p \in Providers : raw.providers[p].anchors # <<>>}

\* Every error of normalize, and so of parseConfig.
Normalizes(raw) ==
  /\ \A f \in DOMAIN DefaultDurations :
       ParseDurationOr(raw.durations[f], DefaultDurations[f]) >= 0
  /\ ParsesAnchors(AnchorsOrDefault(raw))
  /\ \A p \in OwnAnchors(raw) : ParsesAnchors(raw.providers[p].anchors)

\* An unset timezone is the default, an unknown one is UTC.
LoadLocation(name) ==
  IF name = "" THEN Locations[DefaultTimezone]
  ELSE IF name \in DOMAIN Locations THEN Locations[name] ELSE Locations["UTC"]

Normalize(raw) ==
  [raw             |-> raw,
   location        |-> LoadLocation(raw.timezone),
   durations       |-> [f \in DOMAIN DefaultDurations |->
                          ParseDurationOr(raw.durations[f], DefaultDurations[f])],
   anchorTimes     |-> ParseAnchors(AnchorsOrDefault(raw)),
   providerAnchors |-> [p \in OwnAnchors(raw) |->
                          ParseAnchors(raw.providers[p].anchors)]]

----------------------------------------------------------------------------
(* What the program asks of a configuration *)

ProviderEnabled(cfg, provider) ==
  \/ cfg.raw.providers[provider].enabled = "on"
  \/ cfg.raw.providers[provider].enabled = "unset" /\ provider \in DefaultOn

AppliesTo(cfg, id) ==
  /\ cfg.raw.include = {} \/ id \in cfg.raw.include
  /\ id \notin cfg.raw.exclude

\* Mutant: the provider's list comes before the account's.
ProviderListFirst(cfg, id, provider) ==
  IF provider \in DOMAIN cfg.providerAnchors THEN cfg.providerAnchors[provider]
  ELSE cfg.anchorTimes

\* The first override of the account that switches it off or has a list that
\* parses; then the provider's list; then the global one.
AnchorsForAccount(cfg, id, provider) ==
  LET overrides == cfg.raw.overrides
      Decides(i) == /\ overrides[i].id = id
                    /\ \/ overrides[i].enabled = "off"
                       \/ ParsesAnchors(overrides[i].anchors)
      first == {i \in DOMAIN overrides :
                  Decides(i) /\ \A j \in 1..(i - 1) : ~Decides(j)}
  IN IF first # {}
       THEN LET o == overrides[CHOOSE i \in first : TRUE] IN
            IF o.enabled = "off" THEN <<>> ELSE ParseAnchors(o.anchors)
     ELSE IF provider \in DOMAIN cfg.providerAnchors
       THEN cfg.providerAnchors[provider]
     ELSE cfg.anchorTimes
=============================================================================
