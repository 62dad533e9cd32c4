--------------------------- MODULE Pinning_proofs ---------------------------
(***************************************************************************)
(* The pin is honoured, for any number of accounts, callers and            *)
(* configurations.                                                         *)
(***************************************************************************)
EXTENDS Pinning, TLAPS

\* What the pin takes: every configuration claims the slot, all agree on the name
\* of the header, and the host grants the slot that is claimed.
PinConditions ==
  /\ \A c \in Configs : ShouldClaimScheduler(c)
  /\ \A c, d \in Configs : Fold[c.header] = Fold[d.header]
  /\ Grants \subseteq {TRUE}

\* The host has the slot granted once it has the first answer, and keeps it.
SlotInv ==
  /\ answer \in {"none", "claim"}
  /\ registered \in BOOLEAN
  /\ registered => slot

\* A call is made with the header of a configuration, and once it has been picked
\* for, with the slot claimed and its account offered, it is with its account.
CallInv ==
  \A c \in Callers : call[c] # NoCall =>
    /\ call[c] \in Call
    /\ \E d \in Configs : call[c].header = d.header
    /\ call[c].pc = "picked" /\ call[c].offered /\ call[c].claimed =>
         call[c].by = call[c].acct

PinInv ==
  /\ cfg \in Configs /\ call = [c \in Callers |-> call[c]]
  /\ SlotInv /\ CallInv /\ MarkedWasServed

\* Under the conditions the host knows the scheduler from the start.
LEMMA PinInit == PinConditions /\ Init => PinInv
<1> SUFFICES ASSUME PinConditions, Init PROVE PinInv
  OBVIOUS
<1>1. answer = "claim"
  BY DEF Init, PinConditions, Answer
<1> QED
  BY <1>1 DEF Init, PinInv, SlotInv, CallInv, MarkedWasServed

\* A reconfiguration touches no call and does not take the claim back.
LEMMA ReconfigureKeepsPin ==
  ASSUME PinConditions, PinInv, Reconfigure PROVE PinInv'
<1>1. cfg' \in Configs /\ answer' = "claim"
  BY DEF Reconfigure, PinConditions, Answer
<1> QED
  BY <1>1 DEF Reconfigure, PinInv, SlotInv, CallInv, MarkedWasServed

\* Once the host has the answer, the scheduler slot is the plugin's.
LEMMA AnswerKeepsPin ==
  ASSUME PinConditions, PinInv, HostHasAnswer PROVE PinInv'
<1>1. slot' = TRUE /\ answer' = "none" /\ registered' = TRUE
  BY DEF HostHasAnswer, PinConditions, PinInv, SlotInv
<1>2. call' = call /\ marked' = marked /\ cfg' = cfg
  BY DEF HostHasAnswer
<1> QED
  BY <1>1, <1>2 DEF PinInv, SlotInv, CallInv, MarkedWasServed

\* A call starts with no credential picked.
LEMMA BeginKeepsPin ==
  ASSUME PinConditions, PinInv, NEW c \in Callers, BeginAnchor(c) PROVE PinInv'
<1> USE DEF PinInv, SlotInv
<1>1. PICK a \in Auths :
        call' = [call EXCEPT ![c] =
                   [pc |-> "begin", acct |-> a, header |-> cfg.header, by |-> NoAuth,
                    offered |-> FALSE, claimed |-> FALSE]]
  BY DEF BeginAnchor
<1>2. UNCHANGED <<cfg, answer, registered, slot, marked>>
  BY DEF BeginAnchor
<1>3. call'[c] \in Call /\ call'[c].header = cfg.header /\ call'[c].pc = "begin"
  BY <1>1, PinAssumption DEF Call, Config
<1>4. \A d \in Callers \ {c} : call'[d] = call[d]
  BY <1>1
<1>5. CallInv'
  BY <1>2, <1>3, <1>4 DEF CallInv
<1>6. call' = [d \in Callers |-> call'[d]]
  BY <1>1
<1> QED
  BY <1>2, <1>5, <1>6 DEF MarkedWasServed

\* What the host's pick leaves in the call (scheduler.go:57-102).
LEMMA PickTypes ==
  ASSUME NEW c \in Callers, HostPick(c), call[c] \in Call, registered \in BOOLEAN
  PROVE  \E offered \in Candidates, a \in Auths \union {NoAuth}, o \in BOOLEAN :
           LET k == [call[c] EXCEPT !.pc = "picked", !.by = a, !.claimed = registered,
                                    !.offered = o]
           IN /\ call' = [call EXCEPT ![c] = k]
              /\ k \in Call /\ k.header = call[c].header /\ k.acct = call[c].acct
              /\ k.by = a /\ k.claimed = registered /\ k.offered = o
              /\ o => call[c].acct \in offered
              /\ slot /\ SchedulerPick(call[c].header, call[c].acct, offered) # {} =>
                   a \in SchedulerPick(call[c].header, call[c].acct, offered)
<1>1. PICK offered \in Candidates :
        LET picked == IF slot THEN SchedulerPick(call[c].header, call[c].acct, offered)
                              ELSE {}
            allowed == IF picked # {} THEN picked
                       ELSE IF offered # {} THEN offered ELSE {NoAuth}
        IN \E a \in allowed :
             call' = [call EXCEPT ![c] =
                        [@ EXCEPT !.pc = "picked", !.by = a, !.claimed = registered,
                                  !.offered = call[c].acct \in offered]]
  BY DEF HostPick
<1> DEFINE o == call[c].acct \in offered
           picked == IF slot THEN SchedulerPick(call[c].header, call[c].acct, offered)
                             ELSE {}
           allowed == IF picked # {} THEN picked
                      ELSE IF offered # {} THEN offered ELSE {NoAuth}
           K(a) == [call[c] EXCEPT !.pc = "picked", !.by = a, !.claimed = registered,
                                   !.offered = o]
<1>2. PICK a \in allowed : call' = [call EXCEPT ![c] = K(a)]
  BY <1>1, Zenon
<1>3. offered \subseteq Auths
  BY PinAssumption
<1>4. SchedulerPick(call[c].header, call[c].acct, offered) \subseteq Auths
  BY <1>3 DEF SchedulerPick
<1>5. a \in Auths \union {NoAuth}
  <2> HIDE DEF K, o
  <2> QED BY <1>2, <1>3, <1>4
<1>6. slot /\ SchedulerPick(call[c].header, call[c].acct, offered) # {} =>
        a \in SchedulerPick(call[c].header, call[c].acct, offered)
  <2> HIDE DEF K, o
  <2> QED BY <1>2
<1>7. o \in BOOLEAN
  OBVIOUS
<1>8. o => call[c].acct \in offered
  OBVIOUS
<1> HIDE DEF o, allowed
<1>9. /\ K(a) \in Call /\ K(a).header = call[c].header /\ K(a).acct = call[c].acct
      /\ K(a).by = a /\ K(a).claimed = registered /\ K(a).offered = o
  BY <1>5, <1>7 DEF Call
<1> HIDE DEF K
<1> QED
  <2> USE DEF K
  <2> QED BY <1>2, <1>5, <1>6, <1>7, <1>8, <1>9, Zenon

\* Whatever the configuration has become, a host that knows of the claim asks the
\* plugin, and the plugin knows the header and finds the account if it is offered.
LEMMA PickKeepsPin ==
  ASSUME PinConditions, PinInv, NEW c \in Callers, HostPick(c) PROVE PinInv'
<1> USE DEF PinInv, SlotInv
<1>1. call[c] # NoCall
  BY DEF HostPick, NoCall
<1>2. call[c] \in Call /\ Fold[call[c].header] = Fold[cfg.header]
  BY <1>1 DEF CallInv, PinConditions
<1>3. PICK offered \in Candidates, a \in Auths \union {NoAuth}, o \in BOOLEAN :
        LET k == [call[c] EXCEPT !.pc = "picked", !.by = a, !.claimed = registered,
                                 !.offered = o]
        IN /\ call' = [call EXCEPT ![c] = k]
           /\ k \in Call /\ k.header = call[c].header /\ k.acct = call[c].acct
           /\ k.by = a /\ k.claimed = registered /\ k.offered = o
           /\ o => call[c].acct \in offered
           /\ slot /\ SchedulerPick(call[c].header, call[c].acct, offered) # {} =>
                a \in SchedulerPick(call[c].header, call[c].acct, offered)
  BY <1>2, PickTypes
<1>4. UNCHANGED <<cfg, answer, registered, slot, marked>>
  BY DEF HostPick
<1>5. /\ call'[c] \in Call /\ call'[c].header = call[c].header
      /\ call'[c].acct = call[c].acct /\ call'[c].by = a
      /\ call'[c].offered = o /\ call'[c].claimed = registered
  BY <1>3
<1>6. call[c].acct \in offered =>
        SchedulerPick(call[c].header, call[c].acct, offered) = {call[c].acct}
  BY <1>2 DEF SchedulerPick
<1>7. call'[c].offered /\ call'[c].claimed => call'[c].by = call'[c].acct
  BY <1>3, <1>5, <1>6
<1>8. \A d \in Callers \ {c} : call'[d] = call[d]
  BY <1>3
<1>9. CallInv'
  BY <1>1, <1>4, <1>5, <1>7, <1>8 DEF CallInv
<1>10. call' = [d \in Callers |-> call'[d]]
  BY <1>3
<1> QED
  BY <1>4, <1>9, <1>10 DEF MarkedWasServed

\* A call that returns marks the account whose credential served it.
LEMMA ReturnKeepsPin ==
  ASSUME PinInv, NEW c \in Callers, AnchorReturns(c) PROVE PinInv'
<1> USE DEF PinInv, SlotInv
<1>1. call[c] # NoCall /\ call[c].pc = "picked"
  BY DEF AnchorReturns, NoCall
<1>2. Mark(call[c]).offered /\ Mark(call[c]).claimed =>
        Mark(call[c]).by = Mark(call[c]).acct
  BY <1>1 DEF CallInv, Mark
<1>3. /\ UNCHANGED <<cfg, answer, registered, slot>>
      /\ call' = [call EXCEPT ![c] = NoCall]
  BY DEF AnchorReturns
<1>4. MarkedWasServed'
  BY <1>2 DEF AnchorReturns, MarkedWasServed
<1>5. CallInv'
  BY <1>3 DEF CallInv
<1> QED
  BY <1>3, <1>4, <1>5

\* Every step keeps the invariant of the pin.
LEMMA PinNext == PinConditions /\ PinInv /\ [Next]_vars => PinInv'
<1> SUFFICES ASSUME PinConditions, PinInv, [Next]_vars PROVE PinInv'
  OBVIOUS
<1>1. CASE UNCHANGED vars
  BY <1>1 DEF vars, PinInv, SlotInv, CallInv, MarkedWasServed
<1> QED
  BY <1>1, ReconfigureKeepsPin, AnswerKeepsPin, BeginKeepsPin, PickKeepsPin,
     ReturnKeepsPin DEF Next

\* If every configuration claims the slot and they agree on the header, and the host
\* grants the claim: the account that is marked is the one that served the request,
\* whatever is reconfigured meanwhile and whichever candidates are offered, unless
\* the account was not one of them or the host picked before it had the claim.
THEOREM MarkedWasServedCorrect ==
  ASSUME PinConditions PROVE Spec => []MarkedWasServed
<1>1. Init => PinInv
  BY PinInit
<1>2. PinInv /\ [Next]_vars => PinInv'
  BY PinNext
<1>3. PinInv => MarkedWasServed
  BY DEF PinInv
<1> QED
  BY <1>1, <1>2, <1>3, PTL DEF Spec

\* What is stored of a request is what anchorAccount and the host made of it, and
\* a request that failed marks nothing (anchor.go:92-106).
THEOREM PinTypeCorrect == Spec => []TypeOK
<1>1. Init => TypeOK
  BY PinAssumption DEF Init, TypeOK, Answer
<1>2. TypeOK /\ [Next]_vars => TypeOK'
  <2> SUFFICES ASSUME TypeOK, [Next]_vars PROVE TypeOK'
    OBVIOUS
  <2> USE DEF TypeOK
  <2>1. CASE Reconfigure
    BY <2>1 DEF Reconfigure, Answer
  <2>2. CASE HostHasAnswer
    BY <2>2, PinAssumption DEF HostHasAnswer
  <2>3. ASSUME NEW c \in Callers, BeginAnchor(c) PROVE TypeOK'
    <3>1. PICK a \in Auths :
            call' = [call EXCEPT ![c] =
                       [pc |-> "begin", acct |-> a, header |-> cfg.header,
                        by |-> NoAuth, offered |-> FALSE, claimed |-> FALSE]]
      BY <2>3 DEF BeginAnchor
    <3>2. [pc |-> "begin", acct |-> a, header |-> cfg.header, by |-> NoAuth,
           offered |-> FALSE, claimed |-> FALSE] \in Call
      BY PinAssumption DEF Call, Config
    <3> QED BY <2>3, <3>1, <3>2 DEF BeginAnchor
  <2>4. ASSUME NEW c \in Callers, HostPick(c) PROVE TypeOK'
    <3>1. call[c] \in Call
      BY <2>4 DEF HostPick, NoCall
    <3>2. PICK a \in Auths \union {NoAuth}, o \in BOOLEAN :
            LET k == [call[c] EXCEPT !.pc = "picked", !.by = a, !.claimed = registered,
                                     !.offered = o]
            IN call' = [call EXCEPT ![c] = k] /\ k \in Call
      BY <2>4, <3>1, PickTypes
    <3>3. call' \in [Callers -> Call \union {NoCall}]
      BY <3>2
    <3> QED BY <2>4, <3>3 DEF HostPick
  <2>5. ASSUME NEW c \in Callers, AnchorReturns(c) PROVE TypeOK'
    <3>1. call[c] \in Call
      BY <2>5 DEF AnchorReturns, NoCall
    <3>2. call[c].by # NoAuth => Mark(call[c]) \in
            [acct : Auths, by : Auths, offered : BOOLEAN, claimed : BOOLEAN]
      BY <3>1 DEF Call, Mark
    <3> QED BY <2>5, <3>2 DEF AnchorReturns
  <2>6. CASE UNCHANGED vars
    BY <2>6 DEF vars
  <2> QED BY <2>1, <2>2, <2>3, <2>4, <2>5, <2>6 DEF Next
<1> QED BY <1>1, <1>2, PTL DEF Spec
=============================================================================
