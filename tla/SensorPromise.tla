---------------------------- MODULE SensorPromise ----------------------------
(***************************************************************************)
(* What the usage sensor promises, and nothing of how: the reset it keeps  *)
(* for an account is the end of a window of the anchored length that a     *)
(* response to this account told of, exact if the response named the       *)
(* instant, and else late by no more than the record took to arrive.       *)
(* Windows of other lengths are shown and never anchored off               *)
(* (README.md:51-56, sensor_usage.go:60-62).                               *)
(***************************************************************************)
EXTENDS Integers

CONSTANTS
  Accounts,
  Message,     \* responses: [acct, served, windows: name -> [minutes, left, told]]
  Rolling      \* the window lengths that count as the one to anchor

VARIABLES
  clock,
  sent,        \* the responses so far
  resetsAt,    \* per account, the reset to schedule by; 0 if none
  sevenDay     \* per account, the reset to show; 0 if none

promiseVars == <<clock, sent, resetsAt, sevenDay>>

\* What the window n of the message m, read by now, may have told of its end.
Ends(m, n) ==
  LET end == m.served + m.windows[n].left
  IN IF "at" \in m.windows[n].told THEN {end} ELSE end..(end + clock - m.served)

\* r is the end of a window of such a length in a response to this account.
Figure(a, r, lengths) ==
  \E m \in sent :
    m.acct = a /\ \E n \in DOMAIN m.windows :
                    m.windows[n].minutes \in lengths /\ r \in Ends(m, n)

Init ==
  /\ clock \in Nat /\ sent = {}
  /\ resetsAt = [a \in Accounts |-> 0] /\ sevenDay = [a \in Accounts |-> 0]

Pass == clock' \in Nat /\ clock' > clock /\ UNCHANGED <<sent, resetsAt, sevenDay>>

Respond ==
  /\ sent \subseteq sent'
  /\ \A m \in sent' \ sent : m \in Message /\ m.served = clock
  /\ UNCHANGED <<clock, resetsAt, sevenDay>>

Learn(a) ==
  /\ resetsAt' = [resetsAt EXCEPT ![a] = resetsAt'[a]]
  /\ Figure(a, resetsAt'[a], Rolling)
  /\ UNCHANGED <<clock, sent, sevenDay>>

Show(a) ==
  /\ sevenDay' = [sevenDay EXCEPT ![a] = sevenDay'[a]]
  /\ Figure(a, sevenDay'[a], Nat)
  /\ UNCHANGED <<clock, sent, resetsAt>>

Next == Pass \/ Respond \/ \E a \in Accounts : Learn(a) \/ Show(a)

Spec == Init /\ [][Next]_promiseVars
=============================================================================
