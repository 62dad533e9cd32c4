------------------------- MODULE AnchorOrder_proofs -------------------------
(***************************************************************************)
(* The plugin left to itself serves slots in order and none twice, and so  *)
(* implements SlotPromise.  A slot is marked only if the ledger's last key *)
(* is not its own; that this makes a second mark impossible rests on ticks *)
(* never going back: the slot of a tick is the latest one that has begun,  *)
(* so every slot marked before is that one or an earlier one.              *)
(***************************************************************************)
EXTENDS AnchorLoop_proofs

\* Every slot marked is an anchor that had begun at the latest tick.
MarkedInv ==
  \A a \in Accounts : \A i \in DOMAIN anchored[a] :
    anchored[a][i] \in cfg.anchors[a] /\ anchored[a][i] <= pass.tick

\* The ledger holds the key of the slot marked last.
LastKeyInv ==
  \A a \in Accounts : anchored[a] # <<>> =>
    ledger[a].lastKey = WindowKeyFor(anchored[a][Len(anchored[a])], cfg.zone)

OrderInv ==
  /\ pass.cfg = cfg
  /\ SlotsInOrder /\ MarkedInv /\ LastKeyInv /\ FreshInv

\* Nothing is marked at the start.
LEMMA InitOrderInv == Init => OrderInv
<1> SUFFICES ASSUME Init PROVE OrderInv
  OBVIOUS
<1>1. \A a \in Accounts : anchored[a] = <<>>
  BY DEF Init
<1>2. \A a \in Accounts : DOMAIN anchored[a] = {}
  BY <1>1
<1>3. pass.cfg = cfg /\ pc = "select" /\ task[Loop] = NoTask
  BY DEF Init, NewPass, Callers
<1> QED
  BY <1>1, <1>2, <1>3 DEF OrderInv, SlotsInOrder, MarkedInv, LastKeyInv, FreshInv

\* Ticks only go forward, and the configuration of a pass is the current one.
LEMMA PassGoesForward ==
  ASSUME TypeOK, ChoiceInv, pass.cfg = cfg, [AutoNext]_vars
  PROVE  pass'.tick >= pass.tick /\ pass'.tick \in Nat /\ pass'.cfg = cfg'
<1> USE DEF envVars, loopVars, managerVars, worldVars, history
<1>1. pass.tick \in Nat /\ tickBuf \in Nat /\ cfg \in Configs
  BY DEF TypeOK, ValuesOK, PassType
<1>2. ASSUME NextAccount PROVE pass'.tick = pass.tick /\ pass'.cfg = pass.cfg
  BY <1>2 DEF NextAccount, NewPass
<1>3. CASE Wake
  <2>1. pass'.tick = tickBuf /\ pass'.cfg = cfg /\ cfg' = cfg /\ tickBuf # 0
    BY <1>3 DEF Wake, NewPass
  <2> QED
    BY <1>1, <2>1 DEF ChoiceInv, TimeInv
<1>4. CASE Consider
  <2>1. pass'.tick = pass.tick /\ pass'.cfg = pass.cfg /\ cfg' = cfg
    BY <1>2, <1>4 DEF Consider, TypeOK, ValuesOK, PassType
  <2> QED
    BY <1>1, <2>1
<1>5. CASE CheckBackoff
  BY <1>1, <1>2, <1>5 DEF CheckBackoff
<1>6. CASE CheckLedger \/ CheckNext
  <2>1. pass'.tick = pass.tick /\ pass'.cfg = pass.cfg /\ cfg' = cfg
    BY <1>2, <1>6, DueSlotSteps, TypeValues DEF SlotChosen
  <2> QED
    BY <1>1, <2>1
<1>7. CASE CallAnchor \/ LoopDone \/ StaggerCancelled
  BY <1>1, <1>7 DEF CallAnchor, LoopDone, StaggerCancelled
<1>8. CASE AnchorReturned
  BY <1>1, <1>2, <1>8 DEF AnchorReturned
<1>9. [Next]_vars
  BY DEF Next
<1>10. cfg' = cfg
  BY MarkOrKeep, TypeValues
<1> QED
  BY <1>1, <1>3, <1>4, <1>5, <1>6, <1>7, <1>8, <1>9, <1>10, OthersKeepLoop
     DEF LoopStep

\* The anchors of a configuration are instants.
LEMMA AnchorInstants ==
  ASSUME TypeOK, NEW a \in Accounts
  PROVE  cfg.anchors[a] \in SUBSET (Nat \ {0})
<1>1. cfg \in Config
  BY ConstantsAssumption DEF TypeOK, ValuesOK
<1> QED
  BY <1>1 DEF Config

\* The slot being anchored comes after every slot marked.
LEMMA SlotIsLater ==
  ASSUME TypeOK, ChoiceInv, OrderInv, task[Loop] # NoTask
  PROVE  LET a == task[Loop].acct
             s == task[Loop].key.at
         IN /\ a \in Accounts /\ s \in Nat \ {0}
            /\ task[Loop].key = WindowKeyFor(s, cfg.zone)
            /\ s \in cfg.anchors[a] /\ s <= pass.tick
            /\ \A i \in DOMAIN anchored[a] : anchored[a][i] < s
<1> DEFINE a == task[Loop].acct
           s == task[Loop].key.at
           seq == anchored[a]
<1>1. /\ pc = "anchor" /\ a = CurrentAccount
      /\ task[Loop].key = pass.slot.key
  BY DEF ChoiceInv, TaskInv
<1>2. a \in Accounts /\ CurrentAnchors \in SUBSET Nat
  BY <1>1, CurrentTypes
<1>3. /\ s \in PreviousAnchors(cfg.anchors[a], pass.tick)
      /\ task[Loop].key = WindowKeyFor(s, cfg.zone)
  BY <1>1 DEF ChoiceInv, ChosenInv, OrderInv, CurrentAnchors
<1>4. cfg.anchors[a] \in SUBSET (Nat \ {0})
  BY <1>2, AnchorInstants
<1>5. /\ s \in cfg.anchors[a] /\ s \in Nat \ {0} /\ s <= pass.tick
      /\ \A y \in cfg.anchors[a] : y <= pass.tick => y <= s
  BY <1>3, <1>4 DEF PreviousAnchors
<1>6. seq \in Seq(Nat)
  BY <1>2 DEF TypeOK, ValuesOK
<1>7. ASSUME NEW i \in DOMAIN seq PROVE seq[i] < s
  <2>1. /\ Len(seq) \in Nat /\ DOMAIN seq = 1..Len(seq) /\ seq # <<>>
        /\ i \in 1..Len(seq) /\ Len(seq) \in DOMAIN seq
    BY <1>6, <1>7, LenProperties, EmptySeq
  <2>2. seq[i] \in Nat /\ seq[Len(seq)] \in Nat
    BY <1>6, <2>1, ElementOfSeq
  <2>3. seq[i] <= s /\ seq[Len(seq)] <= s
    BY <1>2, <1>5, <2>1 DEF OrderInv, MarkedInv
  <2>4. seq[Len(seq)] # s
    <3>1. ledger[a].lastKey = WindowKeyFor(seq[Len(seq)], cfg.zone)
      BY <1>2, <2>1 DEF OrderInv, LastKeyInv
    <3>2. ledger[a].lastKey # WindowKeyFor(s, cfg.zone)
      BY <1>1, <1>3 DEF OrderInv, FreshInv
    <3> QED
      BY <3>1, <3>2
  <2>5. i = Len(seq) \/ seq[i] < seq[Len(seq)]
    <3>1. i = Len(seq) \/ i < Len(seq)
      BY <2>1
    <3> QED
      BY <1>2, <2>1, <3>1 DEF OrderInv, SlotsInOrder
  <2> QED
    BY <1>5, <2>2, <2>3, <2>4, <2>5
<1> QED
  BY <1>2, <1>3, <1>5, <1>7

\* Marking the loop's slot keeps the order.
LEMMA MarkKeepsOrder ==
  ASSUME TypeOK, ChoiceInv, OrderInv, task[Loop] # NoTask,
         MarkTask(task[Loop]), Finish(Loop), UNCHANGED <<envVars, loopVars>>
  PROVE  OrderInv'
<1> DEFINE a == task[Loop].acct
           s == task[Loop].key.at
<1>1. /\ a \in Accounts /\ s \in Nat \ {0}
      /\ task[Loop].key = WindowKeyFor(s, cfg.zone)
      /\ s \in cfg.anchors[a] /\ s <= pass.tick
      /\ \A i \in DOMAIN anchored[a] : anchored[a][i] < s
  BY SlotIsLater
<1>2. anchored' = [anchored EXCEPT ![a] = Append(@, s)]
  BY <1>1 DEF MarkTask, WindowKeyFor
<1>3. anchored'[a] = Append(anchored[a], s) /\ anchored[a] \in Seq(Nat)
  BY <1>1, <1>2 DEF TypeOK, ValuesOK
<1>4. \A b \in Accounts \ {a} : anchored'[b] = anchored[b] /\ ledger'[b] = ledger[b]
  BY <1>2 DEF MarkTask, SetEntry, TypeOK, ValuesOK
<1>5. ledger'[a].lastKey = WindowKeyFor(s, cfg.zone)
  BY <1>1 DEF MarkTask, SetEntry, MarkAnchored, TypeOK, ValuesOK, Entry
<1> DEFINE old == anchored[a]
           new == anchored'[a]
<1>6. /\ Len(old) \in Nat /\ DOMAIN old = 1..Len(old)
      /\ Len(new) = Len(old) + 1 /\ DOMAIN new = 1..(Len(old) + 1)
      /\ new[Len(old) + 1] = s
      /\ \A i \in 1..Len(old) : new[i] = old[i]
  BY <1>1, <1>3, AppendProperties, LenProperties
<1>7. /\ pc' = pc /\ pass' = pass /\ cfg' = cfg
      /\ task'[Loop] = NoTask /\ pc = "anchor"
  BY DEF envVars, loopVars, Finish, TypeOK, ValuesOK, Callers, ChoiceInv, TaskInv
<1>8. \A i, j \in DOMAIN new : i < j => new[i] < new[j]
  <2> SUFFICES ASSUME NEW i \in DOMAIN new, NEW j \in DOMAIN new, i < j
               PROVE  new[i] < new[j]
    OBVIOUS
  <2>1. i \in 1..Len(old)
    BY <1>6
  <2>2. CASE j = Len(old) + 1
    BY <1>1, <1>6, <2>1, <2>2
  <2>3. CASE j # Len(old) + 1
    <3>0. j \in 1..(Len(old) + 1) /\ Len(old) \in Nat
      BY <1>6
    <3>1. j \in 1..Len(old) /\ new[i] = old[i] /\ new[j] = old[j]
      <4>1. j \in 1..Len(old)
        BY <2>3, <3>0
      <4> QED
        BY <1>6, <2>1, <4>1
    <3>2. i \in DOMAIN old /\ j \in DOMAIN old
      BY <1>6, <2>1, <3>1
    <3>3. old[i] < old[j]
      BY <1>1, <3>2 DEF OrderInv, SlotsInOrder
    <3> QED
      BY <3>1, <3>3
  <2> QED
    BY <2>2, <2>3
<1>9. \A i \in DOMAIN new : new[i] \in cfg.anchors[a] /\ new[i] <= pass.tick
  <2> SUFFICES ASSUME NEW i \in DOMAIN new
               PROVE  new[i] \in cfg.anchors[a] /\ new[i] <= pass.tick
    OBVIOUS
  <2>1. CASE i = Len(old) + 1
    BY <1>1, <1>6, <2>1
  <2>2. CASE i # Len(old) + 1
    <3>1. i \in DOMAIN old /\ new[i] = old[i]
      BY <1>6, <2>2
    <3> QED
      BY <1>1, <3>1 DEF OrderInv, MarkedInv
  <2> QED
    BY <2>1, <2>2
<1>10. SlotsInOrder'
  BY <1>4, <1>8 DEF SlotsInOrder, OrderInv
<1>11. MarkedInv'
  BY <1>4, <1>7, <1>9 DEF MarkedInv, OrderInv
<1>12. LastKeyInv'
  BY <1>4, <1>5, <1>6, <1>7 DEF LastKeyInv, OrderInv
<1> QED
  BY <1>7, <1>10, <1>11, <1>12 DEF OrderInv, FreshInv

\* Every step of the plugin left to itself keeps the order of the marks.
LEMMA NextOrderInv ==
  ASSUME TypeOK, ChoiceInv, OrderInv, [AutoNext]_vars
  PROVE  OrderInv'
<1>1. CASE /\ task[Loop] # NoTask /\ MarkTask(task[Loop]) /\ Finish(Loop)
           /\ UNCHANGED <<envVars, loopVars>>
  BY <1>1, MarkKeepsOrder
<1>2. CASE /\ UNCHANGED <<cfg, anchored>>
           /\ \A a \in Accounts : ledger'[a].lastKey = ledger[a].lastKey
  <2>1. /\ pass'.cfg = cfg' /\ pass'.tick >= pass.tick
        /\ pass.tick \in Nat /\ pass'.tick \in Nat
    BY PassGoesForward DEF OrderInv, TypeOK, ValuesOK, PassType
  <2>2. SlotsInOrder' /\ LastKeyInv'
    BY <1>2 DEF OrderInv, SlotsInOrder, LastKeyInv
  <2>3. MarkedInv'
    <3> SUFFICES ASSUME NEW a \in Accounts, NEW i \in DOMAIN anchored[a]
                 PROVE  anchored[a][i] \in cfg.anchors[a] /\ anchored[a][i] <= pass'.tick
      BY <1>2, <2>1 DEF MarkedInv, OrderInv
    <3>1. anchored[a][i] \in cfg.anchors[a] /\ anchored[a][i] <= pass.tick
      BY DEF OrderInv, MarkedInv
    <3>2. anchored[a][i] \in Nat
      BY <3>1, AnchorInstants
    <3> QED
      BY <2>1, <3>1, <3>2
  <2>4. FreshInv'
    BY <1>2, FreshKept, TypeValues DEF OrderInv
  <2> QED
    BY <2>1, <2>2, <2>3, <2>4 DEF OrderInv
<1> QED
  BY <1>1, <1>2, MarkOrKeep, TypeValues

\* The order of the marks holds in every reachable state.
LEMMA OrderInvariant == AutoSpec => [](TypeOK /\ ChoiceInv /\ OrderInv)
<1>1. AutoSpec => [](TypeOK /\ ChoiceInv)
  BY AutoImpliesSpec, ChoiceInvariant, PTL
<1>2. Init => OrderInv
  BY InitOrderInv
<1>3. TypeOK /\ ChoiceInv /\ OrderInv /\ [AutoNext]_vars => OrderInv'
  BY NextOrderInv
<1> QED
  BY <1>1, <1>2, <1>3, PTL DEF AutoSpec

\* Left to itself, the plugin marks the slots of an account in order and none of
\* them twice, whatever the delays, failures and late observations.
THEOREM SlotsInOrderCorrect == AutoSpec => []SlotsInOrder
<1>1. OrderInv => SlotsInOrder
  BY DEF OrderInv
<1> QED
  BY <1>1, OrderInvariant, PTL

----------------------------------------------------------------------------
(* The plugin left to itself implements SlotPromise *)

\* A loop that starts has served no slot.
LEMMA InitPromise == Init => Promise!Init
  BY DEF Init, Promise!Init

\* A step marks one slot, lets time pass, or changes nothing that SlotPromise sees.
LEMMA StepPromise ==
  ASSUME TypeOK, ChoiceInv, OrderInv, [AutoNext]_vars
  PROVE  [Promise!Next]_(Promise!promiseVars)
<1> USE DEF Promise!promiseVars
<1>1. CASE /\ task[Loop] # NoTask /\ MarkTask(task[Loop]) /\ Finish(Loop)
           /\ UNCHANGED <<envVars, loopVars>>
  <2> DEFINE a == task[Loop].acct
             s == task[Loop].key.at
  <2>1. /\ a \in Accounts /\ s \in Nat \ {0}
        /\ task[Loop].key = WindowKeyFor(s, cfg.zone)
        /\ s <= pass.tick
        /\ \A i \in DOMAIN anchored[a] : anchored[a][i] < s
    BY <1>1, SlotIsLater
  <2>2. anchored' = [anchored EXCEPT ![a] = Append(@, s)]
    BY <1>1, <2>1 DEF MarkTask, WindowKeyFor
  <2>3. s \in 1..clock /\ s <= clock
    <3>1. clock \in Nat /\ pass.tick \in Nat /\ pass.tick <= clock
      BY DEF ChoiceInv, TimeInv, TypeOK, ValuesOK, PassType
    <3> QED
      BY <2>1, <3>1
  <2>4. Promise!Anchor(a, s)
    BY <1>1, <2>1, <2>2, <2>3 DEF Promise!Anchor, envVars
  <2> QED
    BY <2>1, <2>3, <2>4 DEF Promise!Next
<1>2. CASE UNCHANGED anchored
  <2>1. ASSUME NEW d \in Steps, Advance(d) PROVE Promise!Pass
    <3>1. d \in Nat \ {0} /\ clock' = clock + d /\ clock \in Nat
      BY <2>1, ConstantsAssumption DEF Advance, TypeOK, ValuesOK
    <3> QED
      BY <1>2, <3>1 DEF Promise!Pass
  <2>2. CASE LoopStep \/ LoopDone \/ StaggerCancelled
    BY <1>2, <2>2 DEF LoopStep, LoopDone, StaggerCancelled, Wake, Consider,
       CheckBackoff, CheckLedger, CheckNext, CallAnchor, AnchorReturned, envVars
  <2>3. [Next]_vars
    BY DEF Next
  <2> QED
    BY <1>2, <2>1, <2>2, <2>3, OthersKeepLoop DEF Promise!Next
<1> QED
  BY <1>1, <1>2, MarkOrKeep, TypeValues

\* Every behaviour of the plugin left to itself is one that SlotPromise allows.
THEOREM PromiseKeptCorrect == AutoSpec => PromiseKept
<1>1. Init => Promise!Init
  BY InitPromise
<1>2. TypeOK /\ ChoiceInv /\ OrderInv /\ [AutoNext]_vars
        => [Promise!Next]_(Promise!promiseVars)
  BY StepPromise
<1> QED
  BY <1>1, <1>2, OrderInvariant, PTL DEF AutoSpec, PromiseKept, Promise!Spec
=============================================================================
