------------------------------ MODULE Pinning ------------------------------
(***************************************************************************)
(* Which account a request of the plugin is served by (scheduler.go), for  *)
(* the accounts of one provider.  host.model.execute takes no account, so  *)
(* anchorAccount names it in a header, the pin; the host, if it has given  *)
(* the plugin its scheduler slot, asks scheduler.pick, and otherwise picks *)
(* itself.  The header is named by the configuration, which may change at  *)
(* any time in between.                                                    *)
(***************************************************************************)
EXTENDS Naturals, FiniteSets

CONSTANTS
  Auths,           \* credential IDs of the provider
  NoAuth,          \* none of them
  Callers,         \* goroutines that call anchorAccount
  Names,           \* header names, as spelled
  Fold,            \* what strings.EqualFold tells apart of a name
  Configs,         \* configurations the operator may store
  Candidates,      \* sets of credentials the host may offer for a pick
  Grants,          \* whether the host grants the slot that is claimed
  ProbeOnStart     \* the loop may send requests as soon as it starts

Config == [mode : {"always", "never", "auto"}, include : SUBSET Auths,
           exclude : SUBSET Auths, header : Names]

ASSUME PinAssumption ==
  /\ NoAuth \notin Auths
  /\ Fold \in [Names -> Names]
  /\ Configs \subseteq Config /\ Configs # {}
  /\ Candidates \subseteq SUBSET Auths
  /\ Grants \subseteq BOOLEAN /\ ProbeOnStart \in BOOLEAN

VARIABLES
  cfg,             \* configStore
  answer,          \* the answer to register or reconfigure on its way to the host
  registered,      \* the host has had the answer to register
  slot,            \* the host asks the plugin to pick
  call,            \* per caller, its running call of anchorAccount
  marked           \* history: the last call that marked its account, if any

vars == <<cfg, answer, registered, slot, call, marked>>

\* by: who serves the request.  offered: its account was among the candidates when
\* the host picked.  claimed: the host had the answer to register by then.
Call == [pc : {"begin", "picked"}, acct : Auths, header : Names,
         by : Auths \union {NoAuth}, offered : BOOLEAN, claimed : BOOLEAN]
NoCall == [pc |-> "idle"]

\* appliesTo: the include list, if there is one, then the exclude list.
AppliesTo(c, a) == (c.include = {} \/ a \in c.include) /\ a \notin c.exclude

\* shouldClaimScheduler; an include list names no account twice.
ShouldClaimScheduler(c) ==
  \/ c.mode = "always"
  \/ c.mode = "auto" /\ (c.include = {} \/ Cardinality(c.include) > 1)

Answer(c) == IF ShouldClaimScheduler(c) THEN "claim" ELSE "decline"

\* plugin.register has stored the configuration and started the loop; the answer
\* that claims the slot comes after.
Init ==
  /\ cfg \in Configs /\ answer = Answer(cfg)
  /\ registered = FALSE /\ slot = FALSE
  /\ call = [c \in Callers |-> NoCall] /\ marked = {}

----------------------------------------------------------------------------
(* Registration *)

Reconfigure ==
  /\ answer = "none"
  /\ cfg' \in Configs /\ answer' = Answer(cfg')
  /\ UNCHANGED <<registered, slot, call, marked>>

HostHasAnswer ==
  /\ answer # "none" /\ answer' = "none" /\ registered' = TRUE
  /\ \E granted \in Grants : slot' = (answer = "claim" /\ (slot \/ granted))
  /\ UNCHANGED <<cfg, call, marked>>

----------------------------------------------------------------------------
(* A call of anchorAccount, and the host's pick *)

\* The pass or the trigger has loaded the configuration, and with it the name of
\* the header.  The accounts are listed whether they are available or not.
BeginAnchor(c) ==
  /\ call[c] = NoCall /\ (registered \/ ProbeOnStart)
  /\ \E a \in {x \in Auths : AppliesTo(cfg, x)} :
       call' = [call EXCEPT ![c] =
                  [pc |-> "begin", acct |-> a, header |-> cfg.header, by |-> NoAuth,
                   offered |-> FALSE, claimed |-> FALSE]]
  /\ UNCHANGED <<cfg, answer, registered, slot, marked>>

\* Mutant: header names are compared as they are spelled.
PickExact(header, pin, offered) == {a \in offered : header = cfg.header /\ a = pin}

\* handleSchedulerPick for a request of the plugin's own, with the
\* configuration of the moment: the pinned credential if it is offered.
SchedulerPick(header, pin, offered) ==
  {a \in offered : Fold[header] = Fold[cfg.header] /\ a = pin}

\* The host picks: what the plugin says, else any credential it offered.
HostPick(c) ==
  /\ call[c].pc = "begin"
  /\ \E offered \in Candidates :
       LET picked == IF slot THEN SchedulerPick(call[c].header, call[c].acct, offered)
                             ELSE {}
           allowed == IF picked # {} THEN picked
                      ELSE IF offered # {} THEN offered ELSE {NoAuth}
       IN \E a \in allowed :
            call' = [call EXCEPT ![c] =
                       [@ EXCEPT !.pc = "picked", !.by = a, !.claimed = registered,
                                 !.offered = call[c].acct \in offered]]
  /\ UNCHANGED <<cfg, answer, registered, slot, marked>>

\* What the ledger is told of a call, and what it is not told.
Mark(k) == [acct |-> k.acct, by |-> k.by, offered |-> k.offered, claimed |-> k.claimed]

\* Mutant: the status of the response is not looked at.
AnchorReturnsUnchecked(c) ==
  /\ call[c].pc = "picked"
  /\ marked' = {Mark(call[c])}
  /\ call' = [call EXCEPT ![c] = NoCall]
  /\ UNCHANGED <<cfg, answer, registered, slot>>

\* The request failed, or was served and marks the account it was meant for.
AnchorReturns(c) ==
  /\ call[c].pc = "picked"
  /\ \/ UNCHANGED marked
     \/ /\ call[c].by # NoAuth
        /\ marked' = {Mark(call[c])}
  /\ call' = [call EXCEPT ![c] = NoCall]
  /\ UNCHANGED <<cfg, answer, registered, slot>>

Next ==
  \/ Reconfigure \/ HostHasAnswer
  \/ \E c \in Callers : BeginAnchor(c) \/ HostPick(c) \/ AnchorReturns(c)

Spec == Init /\ [][Next]_vars

----------------------------------------------------------------------------
(* Properties *)

\* Every variable has the values the code can store in it.
TypeOK ==
  /\ cfg \in Configs /\ answer \in {"none", "claim", "decline"}
  /\ registered \in BOOLEAN /\ slot \in BOOLEAN
  /\ call \in [Callers -> Call \union {NoCall}]
  /\ marked \subseteq [acct : Auths, by : Auths, offered : BOOLEAN, claimed : BOOLEAN]

\* The account that is marked as anchored is the one whose window the request
\* opened, however the configuration changes while requests are under way ("the
\* plugin carries the target in a custom header and its own Scheduler capability
\* honours it", README.md:61-63).  Two cases are excepted: the account was not among
\* the candidates, for which handleSchedulerPick logs "pin not in candidates" and
\* leaves the pick to the host (scheduler.go:92-101), and the host picked before it
\* had the answer that claims the slot, as a probe at start may see it do
\* (metadata.go:64).
MarkedWasServed == \A m \in marked : m.offered /\ m.claimed => m.by = m.acct
=============================================================================
