----------------------------- MODULE UsageSensor -----------------------------
(***************************************************************************)
(* The sensor from a response's headers to the ledger: usage.handle        *)
(* (sensor_usage.go), the Anthropic headers (providers.go) and the windows *)
(* of a Codex response (codex_window.go), which Go reads from maps and     *)
(* hence in any order.  The host calls usage.handle from several threads,  *)
(* for records that it holds back, reorders and loses.                     *)
(*                                                                         *)
(* A header is the name of its window, the field it ends with, and its     *)
(* number; one that does not parse is as good as absent.  The status words *)
(* that go with a reset are display data and left out.                     *)
(***************************************************************************)
EXTENDS Integers, FiniteSets

CONSTANTS
  Accounts,
  Names,           \* header namespaces, one for each window
  Claude, Codex,   \* provider IDs; a record may come from another provider
  Short, Weekly,   \* the Names of Anthropic's two windows
  Responses,       \* what providers answer: [acct, provider, windows]
  Configs,         \* [minutes, tolerance] as stored, 0 if not set
  Threads,         \* host threads that call usage.handle
  MaxResponses,    \* bound: responses
  MaxTime          \* bound: the last instant

CodexTargetWindowMinutes    == 300
CodexWindowToleranceMinutes == 60

NoWindow == "none"

Fields == {"minutes", "at", "in"}

\* One window of a response: its length in minutes, the time left of it when it
\* was served, and which headers tell of it.
Window == [minutes : Nat, left : Nat, told : SUBSET Fields]

Response == [acct : Accounts, provider : STRING, windows : [Names -> Window]]

\* A response on its way to usage.handle, with the instant it was served.
Message == [acct : Accounts, provider : STRING, windows : [Names -> Window],
            served : Nat]

ASSUME SensorAssumption ==
  /\ Responses \subseteq Response
  /\ Configs \subseteq [minutes : Nat, tolerance : Nat] /\ Configs # {}
  /\ {Short, Weekly} \subseteq Names /\ Short # Weekly
  /\ NoWindow \notin Names /\ Claude # Codex /\ MaxTime \in Nat
  /\ \A r \in Responses :
       r.provider = Claude /\ "at" \in r.windows[Short].told =>
         r.windows[Short].minutes = CodexTargetWindowMinutes

VARIABLES
  clock, cfg,
  sent,            \* history: every response so far
  pending,         \* the records not delivered (nor lost)
  call,            \* per thread, its call of usage.handle
  resetsAt,        \* ledger: ResetsAt per account, 0 if never seen
  sevenDay         \* ledger: SevenDayReset

vars == <<clock, cfg, sent, pending, call, resetsAt, sevenDay>>
ledgerVars == <<resetsAt, sevenDay>>
hostVars == <<clock, cfg, sent, pending>>

Idle == [pc |-> "idle"]

Init ==
  /\ clock = 1 /\ cfg \in Configs
  /\ sent = {} /\ pending = {}
  /\ call = [t \in Threads |-> Idle]
  /\ resetsAt = [a \in Accounts |-> 0] /\ sevenDay = [a \in Accounts |-> 0]

----------------------------------------------------------------------------
(* The environment *)

Respond ==
  /\ Cardinality(sent) < MaxResponses
  /\ \E r \in Responses :
       LET m == [acct |-> r.acct, provider |-> r.provider, windows |-> r.windows,
                 served |-> clock]
       IN sent' = sent \union {m} /\ pending' = pending \union {m}
  /\ UNCHANGED <<clock, cfg, call, ledgerVars>>

Advance ==
  /\ clock < MaxTime /\ clock' = clock + 1
  /\ UNCHANGED <<cfg, sent, pending, call, ledgerVars>>

Reconfigure ==
  /\ cfg' \in Configs \ {cfg}
  /\ UNCHANGED <<clock, sent, pending, call, ledgerVars>>

----------------------------------------------------------------------------
(* usage.handle *)

Number(m, name, field) ==
  IF field = "minutes" THEN m.windows[name].minutes
  ELSE m.windows[name].left + (IF field = "at" THEN m.served ELSE 0)

\* The headers of the record, which a map ranges over in any order.
Headers(m) == {h \in Names \X Fields : h[2] \in m.windows[h[1]].told}

\* configStore and the clock are read before the headers.
NewCall(m) ==
  [pc |-> "parse", msg |-> m, cfg |-> cfg, observedAt |-> clock,
   left |-> Headers(m), todo |-> {},
   minutes |-> [n \in Names |-> 0], ends |-> [n \in Names |-> 0],
   best |-> NoWindow, longest |-> NoWindow, reset |-> 0, weekly |-> 0]

\* observeClaudeUsage: two headers, each looked up by its exact name.
ClaudeReset(m, name) ==
  IF <<name, "at">> \in Headers(m) THEN Number(m, name, "at") ELSE 0

\* Nothing is done for a provider that specFor does not know.
Receive(t) ==
  /\ call[t] = Idle
  /\ \E m \in pending :
       /\ pending' = pending \ {m}
       /\ \/ m.provider = Codex /\ call' = [call EXCEPT ![t] = NewCall(m)]
          \/ /\ m.provider = Claude
             /\ call' = [call EXCEPT ![t] =
                  [NewCall(m) EXCEPT !.pc = "weekly", !.left = {},
                                     !.weekly = ClaudeReset(m, Weekly),
                                     !.reset = ClaudeReset(m, Short)]]
          \/ m.provider \notin {Claude, Codex} /\ UNCHANGED call
  /\ UNCHANGED <<clock, cfg, sent, ledgerVars>>

\* What a header makes of the windows read so far: an absolute reset outranks a
\* relative one, whichever is read first.
Parsed(k, name, field) ==
  LET value == Number(k.msg, name, field)
      minutes == IF field = "minutes" THEN value ELSE k.minutes[name]
      end == IF field = "at" THEN value
             ELSE IF field = "in" /\ k.ends[name] = 0 THEN k.observedAt + value
             ELSE k.ends[name]
  IN [k EXCEPT !.left = @ \ {<<name, field>>}, !.minutes[name] = minutes,
               !.ends[name] = end]

ReadHeader(t) ==
  /\ call[t].pc = "parse"
  /\ \E h \in call[t].left : call' = [call EXCEPT ![t] = Parsed(@, h[1], h[2])]
  /\ UNCHANGED <<hostVars, ledgerVars>>

\* Mutant: a window is kept without a length or without a reset.
HalfWindows(k) == {n \in Names : k.minutes[n] > 0 \/ k.ends[n] > 0}

\* A window without a length or without a reset is dropped.
CompleteWindows(k) == {n \in Names : k.minutes[n] > 0 /\ k.ends[n] > 0}

HeadersRead(t) ==
  /\ call[t].pc = "parse" /\ call[t].left = {}
  /\ call' = [call EXCEPT ![t] = [@ EXCEPT !.pc = "scan", !.todo = CompleteWindows(call[t])]]
  /\ UNCHANGED <<hostVars, ledgerVars>>

Target(c) == IF c.minutes > 0 THEN c.minutes ELSE CodexTargetWindowMinutes
Tolerance(c) == IF c.tolerance > 0 THEN c.tolerance ELSE CodexWindowToleranceMinutes

Delta(c, minutes) ==
  IF minutes < Target(c) THEN Target(c) - minutes ELSE minutes - Target(c)

\* Mutant: the length is not compared with the tolerance.
AnyLength(c, minutes) == TRUE

Matches(c, minutes) == Delta(c, minutes) <= Tolerance(c)

\* Mutant: of equally close windows the first one stays.
CloserOnly(k, n) ==
  /\ Matches(k.cfg, k.minutes[n])
  /\ \/ k.best = NoWindow
     \/ Delta(k.cfg, k.minutes[n]) < Delta(k.cfg, k.minutes[k.best])

\* The closest length, and of equally close ones the earliest reset.
Better(k, n) ==
  /\ Matches(k.cfg, k.minutes[n])
  /\ \/ k.best = NoWindow
     \/ Delta(k.cfg, k.minutes[n]) < Delta(k.cfg, k.minutes[k.best])
     \/ /\ Delta(k.cfg, k.minutes[n]) = Delta(k.cfg, k.minutes[k.best])
        /\ k.ends[n] < k.ends[k.best]

Longer(k, n) == k.longest = NoWindow \/ k.minutes[n] > k.minutes[k.longest]

Compared(k, n) ==
  [k EXCEPT !.todo = @ \ {n}, !.best = IF Better(k, n) THEN n ELSE @,
            !.longest = IF Longer(k, n) THEN n ELSE @]

ScanWindow(t) ==
  /\ call[t].pc = "scan"
  /\ \E n \in call[t].todo : call' = [call EXCEPT ![t] = Compared(@, n)]
  /\ UNCHANGED <<hostVars, ledgerVars>>

\* Mutant: the longest window is shown even if it is the one that was picked.
ShownAlways(k) == IF k.longest = NoWindow THEN 0 ELSE k.ends[k.longest]

\* SecondaryReset.
Shown(k) ==
  IF k.longest = NoWindow \/ k.longest = k.best THEN 0 ELSE k.ends[k.longest]

Scanned(k) ==
  [k EXCEPT !.pc = "weekly", !.weekly = Shown(k),
            !.reset = IF k.best = NoWindow THEN 0 ELSE k.ends[k.best]]

WindowsScanned(t) ==
  /\ call[t].pc = "scan" /\ call[t].todo = {}
  /\ call' = [call EXCEPT ![t] = Scanned(@)]
  /\ UNCHANGED <<hostVars, ledgerVars>>

\* observeSevenDayReset and then observeReset, each under the ledger's lock.
RecordWeekly(t) ==
  /\ call[t].pc = "weekly"
  /\ sevenDay' = IF call[t].weekly = 0 THEN sevenDay
                 ELSE [sevenDay EXCEPT ![call[t].msg.acct] = call[t].weekly]
  /\ call' = [call EXCEPT ![t].pc = "short"]
  /\ UNCHANGED <<hostVars, resetsAt>>

RecordReset(t) ==
  /\ call[t].pc = "short"
  /\ resetsAt' = IF call[t].reset = 0 THEN resetsAt
                 ELSE [resetsAt EXCEPT ![call[t].msg.acct] = call[t].reset]
  /\ call' = [call EXCEPT ![t] = Idle]
  /\ UNCHANGED <<hostVars, sevenDay>>

HandleUsage(t) ==
  Receive(t) \/ ReadHeader(t) \/ HeadersRead(t) \/ ScanWindow(t)
    \/ WindowsScanned(t) \/ RecordWeekly(t) \/ RecordReset(t)

Next == Respond \/ Advance \/ Reconfigure \/ \E t \in Threads : HandleUsage(t)

Spec == Init /\ [][Next]_vars

----------------------------------------------------------------------------
(* Properties *)

Call ==
  [pc : {"parse", "scan", "weekly", "short"}, msg : sent, cfg : Configs,
   observedAt : 1..clock, left : SUBSET (Names \X Fields), todo : SUBSET Names,
   minutes : [Names -> Nat], ends : [Names -> Nat],
   best : Names \union {NoWindow}, longest : Names \union {NoWindow},
   reset : Nat, weekly : Nat]

\* The type of the state; a window that is compared has a length and a reset
\* ("a window without a length cannot be matched", codex_window.go:196-197).
SensorTypeOK ==
  /\ clock \in Nat \ {0} /\ cfg \in Configs
  /\ sent \subseteq Message /\ pending \subseteq sent
  /\ call \in [Threads -> Call \union {Idle}]
  /\ \A t \in Threads :
       call[t].pc = "scan" =>
         \A n \in call[t].todo : call[t].minutes[n] > 0 /\ call[t].ends[n] > 0
  /\ resetsAt \in [Accounts -> Nat] /\ sevenDay \in [Accounts -> Nat]

\* What the response says, in no order: the windows it tells enough of, and the
\* end of one as it looks at the time of the call.
Told(m) == {n \in Names : /\ "minutes" \in m.windows[n].told
                          /\ m.windows[n].minutes > 0
                          /\ {"at", "in"} \intersect m.windows[n].told # {}}

EndSeen(k, n) ==
  (IF "at" \in k.msg.windows[n].told THEN k.msg.served ELSE k.observedAt)
    + k.msg.windows[n].left

\* The lengths that a configuration lets pass for the one to anchor.
Accepted(c) == (Target(c) - Tolerance(c))..(Target(c) + Tolerance(c))

Nearest(k) ==
  LET Off(n) == Delta(k.cfg, k.msg.windows[n].minutes)
      matching == {n \in Told(k.msg) : k.msg.windows[n].minutes \in Accepted(k.cfg)}
  IN {n \in matching : \A o \in matching : Off(n) <= Off(o)}

\* In whatever order the two maps are ranged over and the configuration changes,
\* the reset of a Codex response is the earliest of the windows closest to the
\* target, and none if no length is within the tolerance (codex_window.go:91-92).
NearestWindowTaken ==
  \A t \in Threads :
    LET k == call[t] IN
    k.pc \in {"weekly", "short"} /\ k.msg.provider = Codex =>
      IF Nearest(k) = {} THEN k.reset = 0
      ELSE /\ k.reset \in {EndSeen(k, n) : n \in Nearest(k)}
           /\ \A n \in Nearest(k) : k.reset <= EndSeen(k, n)

\* The window that is longer than every other of the response, if there is one.
Longest(m) ==
  {n \in Told(m) : \A o \in Told(m) \ {n} : m.windows[o].minutes < m.windows[n].minutes}

\* In whatever order the two maps are ranged over, the reset of the one window that
\* is longer than all others is shown, also if no window is to be anchored, and it
\* is not shown twice if that is the window to anchor (codex_window.go:53-54, 105-109).
WeeklyShown ==
  \A t \in Threads :
    LET k == call[t] IN
    k.pc \in {"weekly", "short"} /\ k.msg.provider = Codex =>
      \A n \in Longest(k.msg) :
        /\ n \notin Nearest(k) => k.weekly = EndSeen(k, n)
        /\ Nearest(k) = {n} => k.weekly = 0

\* The lengths of the window to anchor: Anthropic's five hours, and what a stored
\* configuration lets pass for it.
Rolling == {l \in Nat : \/ l = CodexTargetWindowMinutes
                        \/ \E c \in Configs : l \in Accepted(c)}

\* The sensor implements SensorPromise: whatever is late, lost, reordered or
\* handled at the same time, and however the maps are ranged over.
Promise == INSTANCE SensorPromise WITH
  Accounts <- Accounts, Message <- Message, Rolling <- Rolling, clock <- clock,
  sent <- sent, resetsAt <- resetsAt, sevenDay <- sevenDay

SensorKeepsPromise == Promise!Spec

----------------------------------------------------------------------------
(* What the repository says of the sensor and the sensor does not do: the   *)
(* run that checks this expects a counterexample.                           *)

\* "SecondaryReset is the longer (weekly) window, tracked for display only"
\* (providers.go:45): if both resets are told, the one shown is of a longer window.
ShownIsLonger ==
  \A t \in Threads :
    LET k == call[t]
        Length(n) == k.msg.windows[n].minutes
    IN /\ k.pc \in {"weekly", "short"} /\ k.msg.provider = Codex
       /\ k.weekly # 0 /\ k.reset # 0
       => \E n \in Told(k.msg), o \in Nearest(k) :
            /\ k.weekly = EndSeen(k, n) /\ k.reset = EndSeen(k, o)
            /\ Length(o) < Length(n)
=============================================================================
