---------------------------- MODULE SlotPromise -----------------------------
(***************************************************************************)
(* What the plugin promises of its slots, and nothing of how: an account   *)
(* is anchored for a slot only once the slot has begun, slots are served   *)
(* in order, and no slot is ever served twice (README.md:66-68, state.go's *)
(* ledger).  A slot is named by its instant.                               *)
(***************************************************************************)
EXTENDS Integers, Sequences

CONSTANT Accounts

VARIABLES
  clock,
  anchored      \* per account, the slots served, oldest first

promiseVars == <<clock, anchored>>

Init == clock \in Nat /\ anchored = [a \in Accounts |-> <<>>]

Pass == clock' \in Nat /\ clock' > clock /\ UNCHANGED anchored

Anchor(a, s) ==
  /\ s <= clock
  /\ \A i \in DOMAIN anchored[a] : anchored[a][i] < s
  /\ anchored' = [anchored EXCEPT ![a] = Append(@, s)]
  /\ UNCHANGED clock

Next == Pass \/ \E a \in Accounts, s \in 1..clock : Anchor(a, s)

Spec == Init /\ [][Next]_promiseVars
=============================================================================
