------------------------- MODULE UsageSensor_proofs -------------------------
(***************************************************************************)
(* Proofs about UsageSensor: which window of a response is taken does not  *)
(* depend on the order of the maps, and the sensor implements              *)
(* SensorPromise, for any responses, configurations and number of threads. *)
(***************************************************************************)
EXTENDS UsageSensor, TLAPS

HasRead(k, n, f) == f \in k.msg.windows[n].told /\ <<n, f>> \notin k.left

\* What the headers read so far amount to, in whatever order they were read.
ReadSoFar(k) ==
  \A n \in Names :
    /\ k.minutes[n] = IF HasRead(k, n, "minutes") THEN k.msg.windows[n].minutes ELSE 0
    /\ k.ends[n] = IF HasRead(k, n, "at") THEN k.msg.served + k.msg.windows[n].left
                   ELSE IF HasRead(k, n, "in") THEN k.observedAt + k.msg.windows[n].left
                   ELSE 0

Seen(k) == Told(k.msg) \ k.todo

BestOfSeen(k) ==
  IF k.best = NoWindow THEN \A n \in Seen(k) : ~Matches(k.cfg, k.minutes[n])
  ELSE /\ k.best \in Seen(k) /\ Matches(k.cfg, k.minutes[k.best])
       /\ \A n \in Seen(k) : Matches(k.cfg, k.minutes[n]) =>
            \/ Delta(k.cfg, k.minutes[k.best]) < Delta(k.cfg, k.minutes[n])
            \/ /\ Delta(k.cfg, k.minutes[k.best]) = Delta(k.cfg, k.minutes[n])
               /\ k.ends[k.best] <= k.ends[n]

LongestOfSeen(k) ==
  IF k.longest = NoWindow THEN Seen(k) = {}
  ELSE /\ k.longest \in Seen(k)
       /\ \A n \in Seen(k) : k.minutes[n] <= k.minutes[k.longest]

\* What NearestWindowTaken says of one call.
Picked(k) ==
  IF Nearest(k) = {} THEN k.reset = 0
  ELSE /\ k.reset \in {EndSeen(k, n) : n \in Nearest(k)}
       /\ \A n \in Nearest(k) : k.reset <= EndSeen(k, n)

\* What WeeklyShown says of one call.
ShownRight(k) ==
  \A n \in Longest(k.msg) :
    /\ n \notin Nearest(k) => k.weekly = EndSeen(k, n)
    /\ Nearest(k) = {n} => k.weekly = 0

\* The two figures are ends of windows that the response names.
Founded(k) ==
  /\ k.reset # 0 => \E n \in Names : /\ k.msg.windows[n].minutes \in Rolling
                                     /\ k.reset = EndSeen(k, n)
  /\ k.weekly # 0 => \E n \in Names : k.weekly = EndSeen(k, n)

CallInv(k) ==
  /\ k.msg.served <= k.observedAt
  /\ k.pc = "parse" => /\ k.left \subseteq Headers(k.msg) /\ ReadSoFar(k)
                       /\ k.best = NoWindow /\ k.longest = NoWindow
  /\ k.pc = "scan" => /\ k.left = {} /\ ReadSoFar(k)
                      /\ k.todo \subseteq Told(k.msg)
                      /\ BestOfSeen(k) /\ LongestOfSeen(k)
  /\ k.pc \in {"weekly", "short"} =>
       Founded(k) /\ (k.msg.provider = Codex => Picked(k) /\ ShownRight(k))

SentOK ==
  \A m \in sent :
    /\ m.served \in 1..clock
    /\ m.provider = Claude /\ "at" \in m.windows[Short].told =>
         m.windows[Short].minutes = CodexTargetWindowMinutes

IInv ==
  /\ SensorTypeOK /\ SentOK
  /\ \A t \in Threads : call[t] # Idle => CallInv(call[t])

----------------------------------------------------------------------------
(* One call *)

\* A call of the sensor starts with nothing read.
LEMMA NewCallOK ==
  ASSUME IInv, NEW m \in sent
  PROVE  NewCall(m) \in Call /\ (m.provider = Codex => CallInv(NewCall(m)))
<1> DEFINE k == NewCall(m)
<1>1. m \in Message /\ m.served \in 1..clock /\ clock \in Nat \ {0} /\ cfg \in Configs
  BY DEF IInv, SensorTypeOK, SentOK
<1>2. Headers(m) \subseteq Names \X Fields
  BY DEF Headers
<1>3. k \in Call
  BY <1>1, <1>2 DEF NewCall, Call
<1>4. ReadSoFar(k)
  <2> SUFFICES ASSUME NEW n \in Names, NEW f \in Fields PROVE ~HasRead(k, n, f)
    BY DEF ReadSoFar, NewCall, Fields
  <2> QED BY DEF HasRead, NewCall, Headers
<1> QED BY <1>1, <1>3, <1>4 DEF CallInv, NewCall

\* A Claude record tells both of its windows at once.
LEMMA ClaudeCallOK ==
  ASSUME IInv, NEW m \in sent, m.provider = Claude, NEW k,
         k = [NewCall(m) EXCEPT !.pc = "weekly", !.left = {},
                                !.weekly = ClaudeReset(m, Weekly),
                                !.reset = ClaudeReset(m, Short)]
  PROVE  k \in Call /\ CallInv(k) /\ k.pc = "weekly"
<1>1. /\ m \in Message /\ m.served \in 1..clock /\ clock \in Nat \ {0}
      /\ "at" \in m.windows[Short].told =>
           m.windows[Short].minutes = CodexTargetWindowMinutes
  BY DEF IInv, SensorTypeOK, SentOK
<1>2. Short \in Names /\ Weekly \in Names /\ Claude # Codex
  BY SensorAssumption
<1>3. ASSUME NEW n \in Names
      PROVE  /\ ClaudeReset(m, n) \in Nat
             /\ ClaudeReset(m, n) # 0 =>
                  /\ "at" \in m.windows[n].told
                  /\ ClaudeReset(m, n) = m.served + m.windows[n].left
  BY <1>1 DEF ClaudeReset, Number, Headers, Fields, Message, Window
<1>4. NewCall(m) \in Call /\ NewCall(m).msg = m /\ NewCall(m).observedAt = clock
  BY NewCallOK DEF NewCall
<1>5. /\ k \in Call /\ k.pc = "weekly" /\ k.msg = m /\ k.observedAt = clock
      /\ k.weekly = ClaudeReset(m, Weekly) /\ k.reset = ClaudeReset(m, Short)
  BY <1>2, <1>3, <1>4 DEF Call
<1>6. Founded(k)
  BY <1>1, <1>2, <1>3, <1>5 DEF Founded, EndSeen, Rolling, CodexTargetWindowMinutes
<1> QED BY <1>1, <1>2, <1>5, <1>6 DEF CallInv

\* Reading one header keeps what is known of the headers read so far.
LEMMA ParsedOK ==
  ASSUME NEW k \in Call, CallInv(k), k.pc = "parse", k.msg \in Message,
         k.msg.served \in Nat \ {0}, k.observedAt \in Nat \ {0},
         NEW n \in Names, NEW f \in Fields, <<n, f>> \in k.left
  PROVE  Parsed(k, n, f) \in Call /\ CallInv(Parsed(k, n, f))
<1> DEFINE w == k.msg.windows[n]
           value == Number(k.msg, n, f)
           minutes == IF f = "minutes" THEN value ELSE k.minutes[n]
           end == IF f = "at" THEN value
                  ELSE IF f = "in" /\ k.ends[n] = 0 THEN k.observedAt + value
                  ELSE k.ends[n]
<1>1. w.minutes \in Nat /\ w.left \in Nat
  BY DEF Message, Window
<1>2. /\ f = "minutes" => value = w.minutes
      /\ f = "at" => value = k.msg.served + w.left
      /\ f = "in" => value = w.left
      /\ value \in Nat
  BY <1>1 DEF Number, Message
<1>3. /\ k.left \subseteq Headers(k.msg) /\ ReadSoFar(k)
      /\ k.best = NoWindow /\ k.longest = NoWindow /\ k.msg.served <= k.observedAt
  BY DEF CallInv
<1>4. f \in w.told
  BY <1>3 DEF Headers
<1>5. k.minutes \in [Names -> Nat] /\ k.ends \in [Names -> Nat]
      /\ k.left \ {<<n, f>>} \in SUBSET (Names \X Fields)
  BY DEF Call
<1>6. minutes \in Nat /\ end \in Nat
  BY <1>2, <1>5
<1> HIDE DEF value, minutes, end
<1>7. PICK p : p = [k EXCEPT !.left = k.left \ {<<n, f>>}, !.minutes[n] = minutes,
                             !.ends[n] = end]
  OBVIOUS
<1>8. /\ p \in Call /\ p.pc = k.pc /\ p.left = k.left \ {<<n, f>>} /\ p.msg = k.msg
      /\ p.observedAt = k.observedAt /\ p.best = k.best /\ p.longest = k.longest
      /\ p.minutes = [k.minutes EXCEPT ![n] = minutes]
      /\ p.ends = [k.ends EXCEPT ![n] = end]
  <2> DEFINE ms == [k.minutes EXCEPT ![n] = minutes]
             es == [k.ends EXCEPT ![n] = end]
  <2>1. p = [k EXCEPT !.left = k.left \ {<<n, f>>}, !.minutes = ms, !.ends = es]
    BY <1>7 DEF Call
  <2>2. ms \in [Names -> Nat] /\ es \in [Names -> Nat]
    BY <1>5, <1>6
  <2> HIDE DEF ms, es
  <2>3. /\ p \in Call /\ p.pc = k.pc /\ p.left = k.left \ {<<n, f>>} /\ p.msg = k.msg
        /\ p.observedAt = k.observedAt /\ p.best = k.best /\ p.longest = k.longest
        /\ p.minutes = ms /\ p.ends = es
    BY <1>5, <2>1, <2>2 DEF Call
  <2> QED BY <2>3 DEF ms, es
<1>9. p = Parsed(k, n, f)
  BY <1>7, Zenon DEF Parsed, value, minutes, end
<1>10. ASSUME NEW o \in Names, o # n, NEW g
       PROVE  HasRead(p, o, g) <=> HasRead(k, o, g)
  BY <1>5, <1>8, <1>10 DEF HasRead
<1>11. \A g \in Fields : HasRead(p, n, g) <=> HasRead(k, n, g) \/ g = f
  BY <1>4, <1>5, <1>8 DEF HasRead
<1>12. /\ minutes = IF HasRead(p, n, "minutes") THEN w.minutes ELSE 0
       /\ end = IF HasRead(p, n, "at") THEN k.msg.served + w.left
                ELSE IF HasRead(p, n, "in") THEN k.observedAt + w.left ELSE 0
  <2>1. k.minutes[n] = IF HasRead(k, n, "minutes") THEN w.minutes ELSE 0
    BY <1>3 DEF ReadSoFar
  <2>2. k.ends[n] = IF HasRead(k, n, "at") THEN k.msg.served + w.left
                    ELSE IF HasRead(k, n, "in") THEN k.observedAt + w.left ELSE 0
    BY <1>3 DEF ReadSoFar
  <2>3. k.msg.served + w.left # 0 /\ k.observedAt + w.left # 0
    BY <1>1
  <2>4. ~HasRead(k, n, f)
    BY DEF HasRead
  <2> QED BY <1>2, <1>11, <2>1, <2>2, <2>3, <2>4 DEF minutes, end, Fields
<1>13. ReadSoFar(p)
  <2> SUFFICES ASSUME NEW o \in Names
               PROVE /\ p.minutes[o] = IF HasRead(p, o, "minutes")
                          THEN p.msg.windows[o].minutes ELSE 0
                     /\ p.ends[o] = IF HasRead(p, o, "at")
                          THEN p.msg.served + p.msg.windows[o].left
                          ELSE IF HasRead(p, o, "in")
                            THEN p.observedAt + p.msg.windows[o].left ELSE 0
    BY DEF ReadSoFar
  <2>1. CASE o = n
    BY <1>5, <1>8, <1>12, <2>1
  <2>2. CASE o # n
    BY <1>3, <1>5, <1>8, <1>10, <2>2 DEF ReadSoFar
  <2> QED BY <2>1, <2>2
<1>14. CallInv(p)
  BY <1>3, <1>8, <1>13 DEF CallInv
<1> QED BY <1>8, <1>9, <1>14

\* Once all headers are read, the complete windows are those the provider told.
LEMMA ToldIsComplete ==
  ASSUME NEW k \in Call, k.msg \in Message, k.msg.served \in Nat \ {0},
         k.observedAt \in Nat \ {0}, ReadSoFar(k), k.left = {}
  PROVE  /\ CompleteWindows(k) = Told(k.msg)
         /\ \A n \in Told(k.msg) : /\ k.minutes[n] = k.msg.windows[n].minutes
                                   /\ k.ends[n] = EndSeen(k, n)
<1> SUFFICES ASSUME NEW n \in Names
             PROVE  /\ n \in CompleteWindows(k) <=> n \in Told(k.msg)
                    /\ n \in Told(k.msg) => /\ k.minutes[n] = k.msg.windows[n].minutes
                                            /\ k.ends[n] = EndSeen(k, n)
  BY DEF CompleteWindows, Told
<1> DEFINE w == k.msg.windows[n]
<1>1. w.minutes \in Nat /\ w.left \in Nat
  BY DEF Message, Window
<1>2. /\ k.minutes[n] = IF "minutes" \in w.told THEN w.minutes ELSE 0
      /\ k.ends[n] = IF "at" \in w.told THEN k.msg.served + w.left
                     ELSE IF "in" \in w.told THEN k.observedAt + w.left ELSE 0
  BY DEF ReadSoFar, HasRead
<1> QED BY <1>1, <1>2 DEF CompleteWindows, Told, EndSeen

\* The distance of a window from the target is a number, and bounded if accepted.
LEMMA DeltaType ==
  ASSUME NEW c \in Configs, NEW m \in Nat
  PROVE  /\ Delta(c, m) \in Nat
         /\ Target(c) \in Nat /\ Tolerance(c) \in Nat
         /\ Matches(c, m) <=> m \in Accepted(c)
<1>1. c.minutes \in Nat /\ c.tolerance \in Nat
  BY SensorAssumption
<1>2. Target(c) \in Nat /\ Tolerance(c) \in Nat
  BY <1>1 DEF Target, Tolerance, CodexTargetWindowMinutes, CodexWindowToleranceMinutes
<1> QED BY <1>2 DEF Delta, Matches, Accepted

\* Comparing one more window keeps the better and the longer one of two, well typed
\* (codex_window.go:78-98).
LEMMA ComparedOK ==
  ASSUME NEW k \in Call, CallInv(k), k.pc = "scan", NEW n \in k.todo
  PROVE  Compared(k, n) \in Call /\ CallInv(Compared(k, n))
<1> DEFINE best == IF Better(k, n) THEN n ELSE k.best
           longest == IF Longer(k, n) THEN n ELSE k.longest
           D(o) == Delta(k.cfg, k.minutes[o])
           M(o) == Matches(k.cfg, k.minutes[o])
<1>1. /\ k.left = {} /\ ReadSoFar(k) /\ k.todo \subseteq Told(k.msg)
      /\ BestOfSeen(k) /\ LongestOfSeen(k) /\ k.msg.served <= k.observedAt
  BY DEF CallInv
<1>2. /\ k.todo \subseteq Names /\ k.cfg \in Configs
      /\ k.minutes \in [Names -> Nat] /\ k.ends \in [Names -> Nat]
      /\ k.best \in Names \union {NoWindow} /\ k.longest \in Names \union {NoWindow}
      /\ NoWindow \notin Names
  BY SensorAssumption DEF Call
<1>3. \A o \in Names : D(o) \in Nat
  BY <1>2, DeltaType
<1>4. best \in Names \union {NoWindow} /\ longest \in Names \union {NoWindow}
      /\ k.todo \ {n} \in SUBSET Names
  BY <1>2
<1> HIDE DEF best, longest, D, M
<1>5. PICK p : p = [k EXCEPT !.todo = k.todo \ {n}, !.best = best, !.longest = longest]
  OBVIOUS
<1>6. /\ p \in Call /\ p.pc = "scan" /\ p.left = k.left /\ p.msg = k.msg
      /\ p.cfg = k.cfg /\ p.observedAt = k.observedAt /\ p.minutes = k.minutes
      /\ p.ends = k.ends /\ p.todo = k.todo \ {n} /\ p.best = best
      /\ p.longest = longest
  BY <1>4, <1>5 DEF Call
<1>7. p = Compared(k, n)
  BY <1>5, Zenon DEF Compared, best, longest
<1>8. Seen(p) = Seen(k) \union {n} /\ Seen(k) \subseteq Names /\ n \in Names
  BY <1>1, <1>2, <1>6 DEF Seen, Told
<1>9. BestOfSeen(p)
  <2>1. IF k.best = NoWindow THEN \A o \in Seen(k) : ~M(o)
        ELSE /\ k.best \in Seen(k) /\ M(k.best)
             /\ \A o \in Seen(k) : M(o) =>
                  D(k.best) < D(o) \/ (D(k.best) = D(o) /\ k.ends[k.best] <= k.ends[o])
    BY <1>1 DEF BestOfSeen, D, M
  <2>2. best = IF /\ M(n)
                  /\ \/ k.best = NoWindow \/ D(n) < D(k.best)
                     \/ D(n) = D(k.best) /\ k.ends[n] < k.ends[k.best]
               THEN n ELSE k.best
    BY DEF best, Better, D, M
  <2>3. IF best = NoWindow THEN \A o \in Seen(p) : ~M(o)
        ELSE /\ best \in Seen(p) /\ M(best)
             /\ \A o \in Seen(p) : M(o) =>
                  D(best) < D(o) \/ (D(best) = D(o) /\ k.ends[best] <= k.ends[o])
    <3>1. CASE k.best = NoWindow
      BY <1>2, <1>3, <1>8, <2>1, <2>2, <3>1
    <3>2. CASE k.best # NoWindow /\ best = n
      BY <1>2, <1>3, <1>8, <2>1, <2>2, <3>2
    <3>3. CASE k.best # NoWindow /\ best = k.best /\ best # n
      BY <1>2, <1>3, <1>8, <2>1, <2>2, <3>3
    <3> QED BY <2>2, <3>1, <3>2, <3>3
  <2> QED BY <1>6, <2>3 DEF BestOfSeen, D, M
<1>10. LongestOfSeen(p)
  BY <1>1, <1>2, <1>6, <1>8 DEF LongestOfSeen, longest, Longer
<1>11. ReadSoFar(p)
  BY <1>1, <1>6 DEF ReadSoFar, HasRead
<1>12. CallInv(p)
  BY <1>1, <1>6, <1>9, <1>10, <1>11 DEF CallInv
<1> QED BY <1>6, <1>7, <1>12

\* The end of the scan over the windows keeps what is known of the call.
LEMMA ScannedOK ==
  ASSUME NEW k \in Call, CallInv(k), k.pc = "scan", k.todo = {},
         k.msg \in Message, k.msg.served \in Nat \ {0}, k.observedAt \in Nat \ {0}
  PROVE  Scanned(k) \in Call /\ CallInv(Scanned(k))
<1> DEFINE reset == IF k.best = NoWindow THEN 0 ELSE k.ends[k.best]
<1>1. /\ k.left = {} /\ ReadSoFar(k) /\ BestOfSeen(k) /\ LongestOfSeen(k)
      /\ k.msg.served <= k.observedAt
  BY DEF CallInv
<1>2. /\ k.cfg \in Configs /\ k.minutes \in [Names -> Nat] /\ k.ends \in [Names -> Nat]
      /\ k.best \in Names \union {NoWindow} /\ k.longest \in Names \union {NoWindow}
      /\ NoWindow \notin Names /\ Told(k.msg) \subseteq Names
  BY SensorAssumption DEF Call, Told
<1>3. \A n \in Told(k.msg) : /\ k.minutes[n] = k.msg.windows[n].minutes
                             /\ k.ends[n] = EndSeen(k, n)
  BY <1>1, ToldIsComplete
<1>4. reset \in Nat /\ Shown(k) \in Nat
  BY <1>2 DEF Shown
<1> HIDE DEF reset
<1>5. PICK p : p = [k EXCEPT !.pc = "weekly", !.weekly = Shown(k), !.reset = reset]
  OBVIOUS
<1>6. /\ p \in Call /\ p.pc = "weekly" /\ p.msg = k.msg /\ p.cfg = k.cfg
      /\ p.observedAt = k.observedAt /\ p.weekly = Shown(k) /\ p.reset = reset
  BY <1>4, <1>5 DEF Call
<1>7. p = Scanned(k)
  BY <1>5, Zenon DEF Scanned, reset
<1>8. Seen(k) = Told(k.msg)
  BY DEF Seen
<1>9. \A n \in Names : EndSeen(p, n) = EndSeen(k, n)
  BY <1>6 DEF EndSeen
<1>10. \A n \in Told(k.msg) :
         Matches(k.cfg, k.minutes[n]) <=> k.msg.windows[n].minutes \in Accepted(k.cfg)
  BY <1>2, <1>3, DeltaType
<1> DEFINE D(n) == Delta(k.cfg, k.msg.windows[n].minutes)
           matching == {n \in Told(k.msg) : k.msg.windows[n].minutes \in Accepted(k.cfg)}
<1>11. Nearest(p) = {n \in matching : \A o \in matching : D(n) <= D(o)}
  BY <1>6 DEF Nearest
<1>12. \A n \in Told(k.msg) : D(n) \in Nat /\ EndSeen(k, n) \in Nat
  BY <1>2, <1>3, DeltaType
<1>13. IF k.best = NoWindow THEN matching = {}
       ELSE /\ k.best \in matching
            /\ \A n \in matching :
                 \/ D(k.best) < D(n)
                 \/ D(k.best) = D(n) /\ EndSeen(k, k.best) <= EndSeen(k, n)
  BY <1>1, <1>2, <1>3, <1>8, <1>10 DEF BestOfSeen
<1>14. \A n \in matching : n \in Told(k.msg)
  OBVIOUS
<1> HIDE DEF D, matching
<1>15. Picked(p)
  <2>1. CASE k.best = NoWindow
    BY <1>6, <1>11, <1>13, <2>1 DEF Picked, reset
  <2>2. CASE k.best # NoWindow
    <3>1. k.best \in matching /\ reset = EndSeen(k, k.best)
      BY <1>3, <1>13, <1>14, <2>2 DEF reset
    <3>2. k.best \in Nearest(p)
      BY <1>11, <1>12, <1>13, <1>14, <2>2
    <3>3. \A n \in Nearest(p) : n \in matching /\ D(k.best) = D(n)
      BY <1>11, <1>12, <1>13, <1>14, <2>2, <3>1
    <3>4. \A n \in Nearest(p) : reset <= EndSeen(k, n)
      BY <1>12, <1>13, <1>14, <2>2, <3>1, <3>3
    <3>5. \A n \in Nearest(p) : n \in Names
      BY <1>2, <1>14, <3>3
    <3> QED BY <1>6, <1>9, <3>1, <3>2, <3>4, <3>5 DEF Picked
  <2> QED BY <2>1, <2>2
<1>16. Founded(p)
  <2>1. ASSUME p.reset # 0
        PROVE  \E n \in Names : /\ p.msg.windows[n].minutes \in Rolling
                                /\ p.reset = EndSeen(p, n)
    <3>1. k.best # NoWindow /\ k.best \in matching /\ k.best \in Names
          /\ reset = EndSeen(k, k.best)
      BY <1>2, <1>3, <1>6, <1>13, <1>14, <2>1 DEF reset
    <3>2. k.msg.windows[k.best].minutes \in Rolling
      BY <1>2, <3>1 DEF matching, Rolling, Message, Window
    <3> QED BY <1>6, <1>9, <3>1, <3>2
  <2>2. ASSUME p.weekly # 0
        PROVE  \E n \in Names : p.weekly = EndSeen(p, n)
    <3>1. k.longest # NoWindow /\ p.weekly = k.ends[k.longest]
      BY <1>6, <2>2 DEF Shown
    <3>2. k.longest \in Told(k.msg)
      BY <1>1, <1>8, <3>1 DEF LongestOfSeen
    <3> QED BY <1>2, <1>3, <1>9, <3>1, <3>2
  <2> QED BY <2>1, <2>2 DEF Founded
<1>17. ShownRight(p)
  <2> SUFFICES ASSUME NEW n \in Longest(k.msg)
               PROVE  /\ n \notin Nearest(p) => p.weekly = EndSeen(p, n)
                      /\ Nearest(p) = {n} => p.weekly = 0
    BY <1>6 DEF ShownRight
  <2>1. /\ n \in Told(k.msg) /\ n \in Names
        /\ \A o \in Told(k.msg) \ {n} :
             k.msg.windows[o].minutes < k.msg.windows[n].minutes
    BY <1>2 DEF Longest
  <2>2. k.longest = n
    BY <1>1, <1>2, <1>3, <1>8, <2>1 DEF LongestOfSeen
  <2>3. k.best # NoWindow => k.best \in Nearest(p)
    BY <1>11, <1>12, <1>13, <1>14
  <2>4. k.best = NoWindow => Nearest(p) = {}
    BY <1>11, <1>13
  <2>5. k.longest = k.best => p.weekly = 0
    BY <1>6 DEF Shown
  <2>6. k.longest # k.best => p.weekly = EndSeen(p, n)
    BY <1>2, <1>3, <1>6, <1>9, <2>1, <2>2 DEF Shown
  <2>7. n # NoWindow
    BY <1>2, <2>1
  <2> QED BY <2>2, <2>3, <2>4, <2>5, <2>6, <2>7, Zenon
<1> QED BY <1>1, <1>6, <1>7, <1>15, <1>16, <1>17 DEF CallInv

----------------------------------------------------------------------------
(* The steps *)

\* A call stays one while time passes and records are sent.
LEMMA CallsStay ==
  ASSUME sent \subseteq sent', clock \in Nat, clock' \in Nat, clock <= clock'
  PROVE  Call \subseteq Call'
BY DEF Call

\* A thread goes on within usage.handle.
LEMMA CallMoves ==
  ASSUME IInv, NEW t \in Threads, NEW k \in Call, CallInv(k),
         k.pc = "scan" => \A n \in k.todo : k.minutes[n] > 0 /\ k.ends[n] > 0,
         call' = [call EXCEPT ![t] = k],
         UNCHANGED <<clock, cfg, sent>>, pending' \subseteq pending,
         resetsAt' \in [Accounts -> Nat], sevenDay' \in [Accounts -> Nat]
  PROVE  IInv'
<1>1. Call' = Call
  BY DEF Call
<1>2. SensorTypeOK'
  BY <1>1 DEF IInv, SensorTypeOK
<1>3. SentOK'
  BY DEF IInv, SentOK
<1>4. \A s \in Threads : call'[s] # Idle => CallInv(call'[s])
  BY DEF IInv, SensorTypeOK
<1> QED BY <1>2, <1>3, <1>4 DEF IInv

\* What a step finds of the call it goes on with.
LEMMA CallFound ==
  ASSUME IInv, NEW t \in Threads, call[t].pc # "idle"
  PROVE  /\ call[t] \in Call /\ CallInv(call[t])
         /\ call[t].msg \in sent /\ call[t].msg \in Message
         /\ call[t].msg.acct \in Accounts
         /\ call[t].msg.served \in Nat \ {0} /\ call[t].observedAt \in 1..clock
<1>1. call[t] \in Call /\ CallInv(call[t])
  BY DEF IInv, SensorTypeOK, Idle
<1>2. call[t].msg \in sent /\ call[t].observedAt \in 1..clock
  BY <1>1 DEF Call
<1> QED BY <1>1, <1>2 DEF IInv, SensorTypeOK, SentOK, Message

\* Nothing is sent and nothing stored at the start.
LEMMA InitIInv == Init => IInv
BY SensorAssumption DEF Init, IInv, SensorTypeOK, SentOK, Idle

\* Every step of a thread, and of the world around it, preserves the invariant.
LEMMA NextIInv == IInv /\ [Next]_vars => IInv'
<1> SUFFICES ASSUME IInv, [Next]_vars PROVE IInv'
  OBVIOUS
<1>1. SensorTypeOK /\ SentOK /\ clock \in Nat \ {0}
  BY DEF IInv, SensorTypeOK
<1>2. CASE UNCHANGED vars
  <2>1. Call' = Call
    BY <1>2 DEF Call, vars
  <2> QED BY <1>2, <2>1 DEF IInv, SensorTypeOK, SentOK, vars, ledgerVars
<1>3. CASE Respond
  <2>1. PICK r \in Responses : sent' = sent \union
          {[acct |-> r.acct, provider |-> r.provider, windows |-> r.windows,
            served |-> clock]}
    BY <1>3 DEF Respond
  <2>2. Call \subseteq Call'
    BY <1>1, <1>3, <2>1, CallsStay DEF Respond
  <2>3. sent' \subseteq Message
    BY <1>1, <2>1, SensorAssumption DEF SensorTypeOK, Message, Response
  <2>4. SensorTypeOK'
    BY <1>1, <1>3, <2>2, <2>3 DEF Respond, SensorTypeOK, ledgerVars
  <2>5. SentOK'
    BY <1>1, <1>3, <2>1, SensorAssumption DEF Respond, SentOK
  <2> QED BY <1>3, <2>4, <2>5 DEF IInv, Respond
<1>4. CASE Advance
  <2>1. Call \subseteq Call'
    BY <1>1, <1>4, CallsStay DEF Advance
  <2> QED BY <1>1, <1>4, <2>1 DEF Advance, IInv, SensorTypeOK, SentOK, ledgerVars
<1>5. CASE Reconfigure
  <2>1. Call' = Call
    BY <1>5 DEF Reconfigure, Call
  <2> QED BY <1>5, <2>1 DEF Reconfigure, IInv, SensorTypeOK, SentOK, ledgerVars
<1>6. ASSUME NEW t \in Threads, HandleUsage(t) PROVE IInv'
  <2>1. CASE Receive(t)
    <3>1. PICK m \in pending :
            /\ pending' = pending \ {m}
            /\ \/ m.provider = Codex /\ call' = [call EXCEPT ![t] = NewCall(m)]
               \/ /\ m.provider = Claude
                  /\ call' = [call EXCEPT ![t] =
                       [NewCall(m) EXCEPT !.pc = "weekly", !.left = {},
                                          !.weekly = ClaudeReset(m, Weekly),
                                          !.reset = ClaudeReset(m, Short)]]
               \/ m.provider \notin {Claude, Codex} /\ UNCHANGED call
      BY <2>1 DEF Receive
    <3>2. m \in sent /\ m \in Message
      BY <1>1 DEF SensorTypeOK
    <3>3. NewCall(m) \in Call /\ (m.provider = Codex => CallInv(NewCall(m)))
      BY <3>2, NewCallOK
    <3>4. CASE m.provider = Codex /\ call' = [call EXCEPT ![t] = NewCall(m)]
      <4>1. NewCall(m).pc = "parse"
        BY DEF NewCall
      <4> QED BY <1>1, <2>1, <3>1, <3>3, <3>4, <4>1, CallMoves
              DEF Receive, ledgerVars, SensorTypeOK
    <3>5. CASE m.provider = Claude /\ m.provider # Codex
      <4> DEFINE k == [NewCall(m) EXCEPT !.pc = "weekly", !.left = {},
                                         !.weekly = ClaudeReset(m, Weekly),
                                         !.reset = ClaudeReset(m, Short)]
      <4>1. call' = [call EXCEPT ![t] = k]
        BY <3>1, <3>5
      <4>2. k \in Call /\ CallInv(k) /\ k.pc = "weekly"
        BY <1>1, <3>2, <3>3, <3>5, ClaudeCallOK
      <4> QED BY <1>1, <2>1, <3>1, <4>1, <4>2, CallMoves
              DEF Receive, ledgerVars, SensorTypeOK
    <3>6. CASE UNCHANGED call
      <4>1. Call' = Call
        BY <2>1 DEF Receive, Call
      <4> QED BY <2>1, <3>1, <3>6, <4>1
              DEF Receive, IInv, SensorTypeOK, SentOK, ledgerVars
    <3> QED BY <3>1, <3>4, <3>5, <3>6, SensorAssumption
  <2>2. CASE ReadHeader(t)
    <3>1. call[t].pc = "parse"
      BY <2>2 DEF ReadHeader
    <3>2. PICK h \in call[t].left :
            call' = [call EXCEPT ![t] = Parsed(call[t], h[1], h[2])]
      BY <2>2 DEF ReadHeader
    <3>3. call[t] \in Call /\ CallInv(call[t])
      BY <3>1, CallFound
    <3>4. h = <<h[1], h[2]>> /\ h[1] \in Names /\ h[2] \in Fields
      BY <3>3 DEF Call
    <3>5. call[t].observedAt \in Nat \ {0}
      BY <1>1, <3>1, CallFound
    <3>6. /\ Parsed(call[t], h[1], h[2]) \in Call
          /\ CallInv(Parsed(call[t], h[1], h[2]))
      BY <3>1, <3>2, <3>3, <3>4, <3>5, CallFound, ParsedOK
    <3>7. Parsed(call[t], h[1], h[2]).pc = "parse"
      BY <3>1, <3>3 DEF Parsed, Call
    <3> QED BY <1>1, <2>2, <3>2, <3>6, <3>7, CallMoves
            DEF ReadHeader, hostVars, ledgerVars, SensorTypeOK
  <2>3. CASE HeadersRead(t)
    <3> DEFINE k == [call[t] EXCEPT !.pc = "scan", !.todo = CompleteWindows(call[t])]
    <3>1. /\ call[t].pc = "parse" /\ call[t].left = {} /\ call' = [call EXCEPT ![t] = k]
      BY <2>3 DEF HeadersRead
    <3>2. call[t] \in Call /\ CallInv(call[t]) /\ call[t].observedAt \in Nat \ {0}
      BY <1>1, <3>1, CallFound
    <3>3. CompleteWindows(call[t]) \in SUBSET Names
      BY DEF CompleteWindows
    <3>4. /\ k \in Call /\ k.pc = "scan" /\ k.todo = CompleteWindows(call[t])
          /\ k.left = {} /\ k.msg = call[t].msg /\ k.observedAt = call[t].observedAt
          /\ k.minutes = call[t].minutes /\ k.ends = call[t].ends
          /\ k.best = call[t].best /\ k.longest = call[t].longest
      BY <3>1, <3>2, <3>3 DEF Call
    <3>5. /\ ReadSoFar(call[t]) /\ call[t].best = NoWindow /\ call[t].longest = NoWindow
          /\ call[t].msg.served <= call[t].observedAt
      BY <3>1, <3>2 DEF CallInv
    <3>6. k.todo = Told(k.msg)
      BY <3>1, <3>2, <3>4, <3>5, CallFound, ToldIsComplete
    <3> HIDE DEF k
    <3>7. ReadSoFar(k)
      BY <3>1, <3>4, <3>5 DEF ReadSoFar, HasRead
    <3>8. BestOfSeen(k) /\ LongestOfSeen(k)
      BY <3>4, <3>5, <3>6 DEF BestOfSeen, LongestOfSeen, Seen
    <3>9. CallInv(k)
      BY <3>4, <3>5, <3>6, <3>7, <3>8 DEF CallInv
    <3>10. \A n \in k.todo : k.minutes[n] > 0 /\ k.ends[n] > 0
      BY <3>4 DEF CompleteWindows
    <3> QED BY <1>1, <2>3, <3>1, <3>4, <3>9, <3>10, CallMoves
            DEF HeadersRead, hostVars, ledgerVars, SensorTypeOK
  <2>4. CASE ScanWindow(t)
    <3>1. call[t].pc = "scan"
      BY <2>4 DEF ScanWindow
    <3>2. PICK n \in call[t].todo : call' = [call EXCEPT ![t] = Compared(call[t], n)]
      BY <2>4 DEF ScanWindow
    <3>3. call[t] \in Call /\ CallInv(call[t])
      BY <3>1, CallFound
    <3>4. Compared(call[t], n) \in Call /\ CallInv(Compared(call[t], n))
      BY <3>1, <3>2, <3>3, ComparedOK
    <3>5. /\ Compared(call[t], n).todo \subseteq call[t].todo
          /\ Compared(call[t], n).minutes = call[t].minutes
          /\ Compared(call[t], n).ends = call[t].ends
      BY <3>3 DEF Compared, Call
    <3>6. \A o \in call[t].todo : call[t].minutes[o] > 0 /\ call[t].ends[o] > 0
      BY <1>1, <3>1 DEF SensorTypeOK
    <3> QED BY <1>1, <2>4, <3>2, <3>4, <3>5, <3>6, CallMoves
            DEF ScanWindow, hostVars, ledgerVars, SensorTypeOK
  <2>5. CASE WindowsScanned(t)
    <3>1. /\ call[t].pc = "scan" /\ call[t].todo = {}
          /\ call' = [call EXCEPT ![t] = Scanned(call[t])]
      BY <2>5 DEF WindowsScanned
    <3>2. call[t] \in Call /\ CallInv(call[t]) /\ call[t].observedAt \in Nat \ {0}
      BY <1>1, <3>1, CallFound
    <3>3. Scanned(call[t]) \in Call /\ CallInv(Scanned(call[t]))
      BY <3>1, <3>2, CallFound, ScannedOK
    <3>4. Scanned(call[t]).pc = "weekly"
      BY <3>2 DEF Scanned, Call
    <3> QED BY <1>1, <2>5, <3>1, <3>3, <3>4, CallMoves
            DEF WindowsScanned, hostVars, ledgerVars, SensorTypeOK
  <2>6. CASE RecordWeekly(t)
    <3> DEFINE k == [call[t] EXCEPT !.pc = "short"]
    <3>1. call[t].pc = "weekly" /\ call[t] \in Call /\ CallInv(call[t])
      BY <2>6, CallFound DEF RecordWeekly
    <3>2. /\ k \in Call /\ k.pc = "short" /\ k.msg = call[t].msg /\ k.cfg = call[t].cfg
          /\ k.observedAt = call[t].observedAt /\ k.reset = call[t].reset
          /\ k.weekly = call[t].weekly
      BY <3>1 DEF Call
    <3>3. call' = [call EXCEPT ![t] = k]
      BY <2>6 DEF RecordWeekly
    <3> HIDE DEF k
    <3>4. \A n : EndSeen(k, n) = EndSeen(call[t], n)
      BY <3>2 DEF EndSeen
    <3>5. Nearest(k) = Nearest(call[t])
      BY <3>2 DEF Nearest
    <3>6. ShownRight(call[t]) => ShownRight(k)
      BY <3>2, <3>4, <3>5 DEF ShownRight
    <3>7. CallInv(k)
      BY <3>1, <3>2, <3>4, <3>5, <3>6 DEF CallInv, Founded, Picked
    <3>8. sevenDay' \in [Accounts -> Nat]
      BY <1>1, <2>6, <3>1, CallFound DEF RecordWeekly, SensorTypeOK, Call
    <3> QED BY <1>1, <2>6, <3>2, <3>3, <3>7, <3>8, CallMoves
            DEF RecordWeekly, hostVars, SensorTypeOK
  <2>7. CASE RecordReset(t)
    <3>1. call[t].pc = "short" /\ call[t] \in Call /\ call[t].msg.acct \in Accounts
      BY <2>7, CallFound DEF RecordReset
    <3>2. resetsAt' \in [Accounts -> Nat]
      BY <1>1, <2>7, <3>1 DEF RecordReset, SensorTypeOK, Call
    <3>3. Call' = Call
      BY <2>7 DEF RecordReset, hostVars, Call
    <3>4. Idle.pc = "idle"
      BY DEF Idle
    <3>5. SensorTypeOK'
      BY <1>1, <2>7, <3>2, <3>3, <3>4 DEF RecordReset, hostVars, SensorTypeOK
    <3> QED BY <1>1, <2>7, <3>5 DEF RecordReset, hostVars, IInv, SentOK, SensorTypeOK
  <2> QED BY <1>6, <2>1, <2>2, <2>3, <2>4, <2>5, <2>6, <2>7 DEF HandleUsage
<1> QED BY <1>2, <1>3, <1>4, <1>5, <1>6 DEF Next

----------------------------------------------------------------------------
(* The theorems *)

\* In every reachable state a call has read what the headers it has taken say, and
\* the window it prefers is the best of those compared (codex_window.go:78-98).
THEOREM SensorInvariant == Spec => []IInv
BY InitIInv, NextIInv, PTL DEF Spec

\* A call compares complete windows only, and keeps to its type.
THEOREM SensorTypeCorrect == Spec => []SensorTypeOK
BY SensorInvariant, PTL DEF IInv

\* However the two maps of a response are ranged over, the same reset is taken:
\* the earliest of the windows closest to the configured length.
THEOREM NearestTaken == Spec => []NearestWindowTaken
<1>1. IInv => NearestWindowTaken
  <2> SUFFICES ASSUME IInv, NEW t \in Threads, call[t].pc \in {"weekly", "short"},
                      call[t].msg.provider = Codex
               PROVE  Picked(call[t])
    BY DEF NearestWindowTaken, Picked
  <2> QED BY CallFound DEF CallInv
<1> QED BY <1>1, SensorInvariant, PTL

\* Whatever the order of the maps, the one window that is longer than all others of
\* the response is shown, unless it is the one to anchor.
THEOREM WeeklyShownCorrect == Spec => []WeeklyShown
<1>1. IInv => WeeklyShown
  <2> SUFFICES ASSUME IInv, NEW t \in Threads, call[t].pc \in {"weekly", "short"},
                      call[t].msg.provider = Codex
               PROVE  ShownRight(call[t])
    BY DEF WeeklyShown, ShownRight
  <2> QED BY CallFound DEF CallInv
<1> QED BY <1>1, SensorInvariant, PTL

\* A figure of a call under way is one that SensorPromise lets the ledger take.
LEMMA FigureFound ==
  ASSUME IInv, NEW t \in Threads, call[t].pc \in {"weekly", "short"},
         NEW n \in Names, NEW lengths, call[t].msg.windows[n].minutes \in lengths,
         NEW r, r = EndSeen(call[t], n)
  PROVE  Promise!Figure(call[t].msg.acct, r, lengths)
<1> DEFINE m == call[t].msg
<1>1. /\ call[t] \in Call /\ CallInv(call[t]) /\ m \in sent /\ m \in Message
      /\ m.served \in Nat \ {0} /\ call[t].observedAt \in 1..clock
  BY CallFound
<1>2. n \in DOMAIN m.windows /\ m.windows[n].left \in Nat /\ clock \in Nat
  BY <1>1 DEF Message, Window, IInv, SensorTypeOK
<1>3. m.served <= call[t].observedAt
  BY <1>1 DEF CallInv
<1>4. r \in Promise!Ends(m, n)
  BY <1>1, <1>2, <1>3 DEF Promise!Ends, EndSeen
<1> QED BY <1>1, <1>2, <1>4 DEF Promise!Figure

\* The sensor implements SensorPromise: what the ledger holds for scheduling is
\* the end of a window of the anchored length, exact or late by the delay.
THEOREM SensorImplementsPromise == Spec => SensorKeepsPromise
<1>1. Init => Promise!Init
  BY DEF Init, Promise!Init
<1>2. IInv /\ [Next]_vars => [Promise!Next]_(Promise!promiseVars)
  <2> SUFFICES ASSUME IInv, [Next]_vars PROVE [Promise!Next]_(Promise!promiseVars)
    OBVIOUS
  <2>1. SensorTypeOK
    BY DEF IInv
  <2>2. CASE UNCHANGED vars
    BY <2>2 DEF vars, ledgerVars, Promise!promiseVars
  <2>3. CASE Respond
    <3>1. PICK r \in Responses : sent' = sent \union
            {[acct |-> r.acct, provider |-> r.provider, windows |-> r.windows,
              served |-> clock]}
      BY <2>3 DEF Respond
    <3>2. \A m \in sent' \ sent : m \in Message /\ m.served = clock
      BY <2>1, <3>1, SensorAssumption DEF SensorTypeOK, Message, Response
    <3> QED BY <2>3, <3>1, <3>2 DEF Respond, ledgerVars, Promise!Next, Promise!Respond
  <2>4. CASE Advance
    BY <2>1, <2>4 DEF Advance, SensorTypeOK, ledgerVars, Promise!Next, Promise!Pass
  <2>5. CASE Reconfigure
    BY <2>5 DEF Reconfigure, ledgerVars, Promise!promiseVars
  <2>6. ASSUME NEW t \in Threads, HandleUsage(t)
        PROVE  [Promise!Next]_(Promise!promiseVars)
    <3>1. CASE UNCHANGED <<clock, sent, resetsAt, sevenDay>>
      BY <3>1 DEF Promise!promiseVars
    <3>2. CASE RecordWeekly(t) /\ call[t].weekly # 0
      <4> DEFINE a == call[t].msg.acct
      <4>1. /\ sevenDay' = [sevenDay EXCEPT ![a] = call[t].weekly]
            /\ UNCHANGED <<clock, sent, resetsAt>> /\ call[t].pc = "weekly"
        BY <3>2 DEF RecordWeekly, hostVars
      <4>2. a \in Accounts /\ call[t] \in Call /\ CallInv(call[t])
            /\ call[t].msg \in Message
        BY <4>1, CallFound
      <4>3. PICK n \in Names : call[t].weekly = EndSeen(call[t], n)
        BY <3>2, <4>1, <4>2 DEF CallInv, Founded
      <4>4. call[t].msg.windows[n].minutes \in Nat
        BY <4>2 DEF Message, Window
      <4>5. Promise!Figure(a, call[t].weekly, Nat)
        BY <4>1, <4>3, <4>4, FigureFound
      <4>6. sevenDay'[a] = call[t].weekly
        BY <2>1, <4>1, <4>2 DEF SensorTypeOK
      <4>7. Promise!Show(a)
        BY <4>1, <4>5, <4>6 DEF Promise!Show
      <4> QED BY <4>2, <4>7 DEF Promise!Next
    <3>3. CASE RecordReset(t) /\ call[t].reset # 0
      <4> DEFINE a == call[t].msg.acct
      <4>1. /\ resetsAt' = [resetsAt EXCEPT ![a] = call[t].reset]
            /\ UNCHANGED <<clock, sent, sevenDay>> /\ call[t].pc = "short"
        BY <3>3 DEF RecordReset, hostVars
      <4>2. a \in Accounts /\ call[t] \in Call /\ CallInv(call[t])
        BY <4>1, CallFound
      <4>3. PICK n \in Names : /\ call[t].msg.windows[n].minutes \in Rolling
                               /\ call[t].reset = EndSeen(call[t], n)
        BY <3>3, <4>1, <4>2 DEF CallInv, Founded
      <4>4. Promise!Figure(a, call[t].reset, Rolling)
        BY <4>1, <4>3, FigureFound
      <4>5. resetsAt'[a] = call[t].reset
        BY <2>1, <4>1, <4>2 DEF SensorTypeOK
      <4>6. Promise!Learn(a)
        BY <4>1, <4>4, <4>5 DEF Promise!Learn
      <4> QED BY <4>2, <4>6 DEF Promise!Next
    <3> QED BY <2>6, <3>1, <3>2, <3>3
            DEF HandleUsage, Receive, ReadHeader, HeadersRead, ScanWindow,
                WindowsScanned, RecordWeekly, RecordReset, hostVars, ledgerVars
  <2> QED BY <2>2, <2>3, <2>4, <2>5, <2>6 DEF Next
<1> QED BY <1>1, <1>2, SensorInvariant, PTL DEF Spec, SensorKeepsPromise, Promise!Spec
=============================================================================
