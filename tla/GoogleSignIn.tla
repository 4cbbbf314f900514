---------------------------- MODULE GoogleSignIn ----------------------------
(***************************************************************************)
(* The sign-in to Google AI Pro (builder/google-ai-pro/login.ts, and        *)
(* startLogin of pool.ts): a person starts it, a proxy of its own waits for *)
(* Google's answer, and the record the proxy writes becomes the person's    *)
(* model account.                                                           *)
(*                                                                         *)
(* Simplifications.                                                         *)
(*  - A sign-in is named by a number.                                       *)
(*  - A proxy that exits by itself is one that never gets its record.       *)
(*  - The close of the Hub, which drains the requests and then closes every *)
(*    proxy, is left out, and what a refused callback address is.           *)
(***************************************************************************)
EXTENDS Naturals, FiniteSets

CONSTANTS
  Accounts,
  MaxSignIns \* bound: sign-ins started

ASSUME BoundAssumption == MaxSignIns \in Nat

VARIABLES
  starting,  \* whether a start has the one place
  current,   \* the last sign-in that was handed out, or 0
  start,     \* start[n]: where the call that starts it is
  by,        \* by[n]: whose it is
  replaces,  \* replaces[n]: the sign-in it replaces, or 0
  outcome,   \* outcome[n]: what a person reads of it
  proxy,     \* proxy[n]: its process and directory
  record,    \* the sign-ins whose proxy has the person's record
  settling,  \* settling[n]: where the one look at its outcome is
  connected, \* the sign-ins whose record became a model account
  lost       \* history: those of them one of whose looks lost the database's answer

call == <<start, by, replaces>>
store == <<connected, lost>>
vars == <<starting, current, call, outcome, proxy, record, settling, store>>

SignIns == 1..MaxSignIns
Unused == {n \in SignIns : start[n] = "off"}
Fresh == CHOOSE n \in Unused : TRUE
At(n, place) == start' = [start EXCEPT ![n] = place] /\ UNCHANGED <<by, replaces>>
Waits(n) == n # 0 /\ outcome[n] = "waiting"

TypeOK ==
  /\ starting \in BOOLEAN /\ current \in SignIns \cup {0}
  /\ start \in [SignIns -> {"off", "replacing", "launching", "asking", "handed", "refused"}]
  /\ by \in [SignIns -> Accounts \cup {0}] /\ replaces \in [SignIns -> SignIns \cup {0}]
  /\ outcome \in [SignIns -> {"none", "waiting", "succeeded", "failed", "expired"}]
  /\ proxy \in [SignIns -> {"none", "running", "closing", "closed"}]
  /\ settling \in [SignIns -> {"none", "reading", "connecting", "connected", "finishing"}]
  /\ record \subseteq SignIns /\ connected \subseteq record /\ lost \subseteq connected
  /\ \A n \in SignIns : settling[n] = "finishing" => outcome[n] # "waiting"
  /\ starting => \E n \in SignIns : start[n] \in {"launching", "asking"}

Init ==
  /\ starting = FALSE /\ current = 0
  /\ start = [n \in SignIns |-> "off"] /\ by = [n \in SignIns |-> 0] /\ replaces = [n \in SignIns |-> 0]
  /\ outcome = [n \in SignIns |-> "none"] /\ proxy = [n \in SignIns |-> "none"]
  /\ record = {} /\ settling = [n \in SignIns |-> "none"] /\ connected = {} /\ lost = {}

\* finish: the first outcome stays; its proxy is closed, whoever closed it before.
KeepsProxy(n) == UNCHANGED proxy \* broken: the outcome is set and the proxy left to the timer that was cleared
CloseProxy(n) == proxy' = [proxy EXCEPT ![n] = IF @ = "running" THEN "closing" ELSE @]
FinishOver(n, o) == outcome' = [outcome EXCEPT ![n] = o] /\ CloseProxy(n) \* broken: the last outcome stays
Finish(n, o) == outcome' = [outcome EXCEPT ![n] = IF @ = "waiting" THEN o ELSE @] /\ CloseProxy(n)

-----------------------------------------------------------------------------
\* start

\* Busy while another start has the place, or another person's sign-in waits; one's own is replaced,
\* and the start waits for its proxy to be gone.
Start(a) ==
  LET n == Fresh IN
  /\ Unused # {} /\ ~starting
  /\ \/ /\ ~Waits(current)
        /\ starting' = TRUE /\ start' = [start EXCEPT ![n] = "launching"]
        /\ UNCHANGED <<replaces, outcome, proxy>>
     \/ /\ Waits(current) /\ by[current] = a
        /\ Finish(current, "expired")
        /\ start' = [start EXCEPT ![n] = "replacing"] /\ replaces' = [replaces EXCEPT ![n] = current]
        /\ UNCHANGED starting
  /\ by' = [by EXCEPT ![n] = a]
  /\ UNCHANGED <<current, record, settling, store>>
Replaces(n) ==
  /\ start[n] = "replacing" /\ proxy[replaces[n]] = "closed"
  /\ starting' = TRUE /\ At(n, "launching")
  /\ UNCHANGED <<current, outcome, proxy, record, settling, store>>
Launches(n) ==
  /\ start[n] = "launching"
  /\ \/ proxy' = [proxy EXCEPT ![n] = "running"] /\ At(n, "asking") /\ UNCHANGED starting
     \/ At(n, "refused") /\ starting' = FALSE /\ UNCHANGED proxy
  /\ UNCHANGED <<current, outcome, record, settling, store>>

\* The proxy gives the address to sign in at, and the person has it; or it is closed and the start fails.
Asks(n) ==
  /\ start[n] = "asking" /\ starting' = FALSE
  /\ \/ At(n, "handed") /\ current' = n /\ outcome' = [outcome EXCEPT ![n] = "waiting"] /\ UNCHANGED proxy
     \/ At(n, "refused") /\ CloseProxy(n) /\ UNCHANGED <<current, outcome>>
  /\ UNCHANGED <<record, settling, store>>

-----------------------------------------------------------------------------
\* The sign-in

\* Google's answer reaches the proxy that waits for it.
SignsIn(n) ==
  /\ proxy[n] = "running" /\ start[n] = "handed" /\ record' = record \cup {n}
  /\ UNCHANGED <<starting, current, call, outcome, proxy, settling, store>>

\* status and complete: of a sign-in that waits; looks that come together share one. Only the current one is
\* found, but complete looks after the proxy has answered it, when a start may have taken the place. The proxy
\* may refuse what a person pasted.
Look(n) ==
  /\ Waits(n) /\ settling[n] = "none"
  /\ settling' = [settling EXCEPT ![n] = "reading"]
  /\ UNCHANGED <<starting, current, call, outcome, proxy, record, store>>
Refused(n) ==
  /\ Waits(n) /\ Finish(n, "failed")
  /\ UNCHANGED <<starting, current, call, record, settling, store>>

\* settle: the record decides; without one it waits on, or the proxy says it failed. A directory that is gone fails the look.
Reads(n) ==
  /\ settling[n] = "reading"
  /\ \/ /\ n \in record /\ proxy[n] # "closed"
        /\ settling' = [settling EXCEPT ![n] = "connecting"] /\ UNCHANGED <<outcome, proxy>>
     \/ n \notin record /\ settling' = [settling EXCEPT ![n] = "finishing"] /\ Finish(n, "failed")
     \/ /\ n \notin record \/ proxy[n] = "closed"
        /\ settling' = [settling EXCEPT ![n] = "none"] /\ UNCHANGED <<outcome, proxy>>
  /\ UNCHANGED <<starting, current, call, record, store>>
DeniedUnread(n) == Finish(n, "succeeded") \* broken: the connection's answer is not read
Denied(n) == Finish(n, "failed")
\* The transaction commits, refuses the person, or fails, which ends the look and not the sign-in.
Connects(n) ==
  /\ settling[n] = "connecting"
  /\ \/ settling' = [settling EXCEPT ![n] = "connected"] /\ connected' = connected \cup {n} /\ UNCHANGED <<outcome, proxy>>
     \/ settling' = [settling EXCEPT ![n] = "finishing"] /\ Denied(n) /\ UNCHANGED connected
     \/ settling' = [settling EXCEPT ![n] = "none"] /\ UNCHANGED <<outcome, proxy, connected>>
  /\ UNCHANGED <<starting, current, call, record, lost>>
\* What committed is answered, or the answer is lost, which is a failure too.
Told(n) ==
  /\ settling[n] = "connected"
  /\ \/ settling' = [settling EXCEPT ![n] = "finishing"] /\ Finish(n, "succeeded") /\ UNCHANGED lost
     \/ settling' = [settling EXCEPT ![n] = "none"] /\ lost' = lost \cup {n} /\ UNCHANGED <<outcome, proxy>>
  /\ UNCHANGED <<starting, current, call, record, connected>>
Settles(n) ==
  /\ settling[n] = "finishing" /\ proxy[n] = "closed"
  /\ settling' = [settling EXCEPT ![n] = "none"]
  /\ UNCHANGED <<starting, current, call, outcome, proxy, record, store>>

\* Five minutes after it was handed out; what ended it before cleared the timer.
Expires(n) ==
  /\ Waits(n) /\ Finish(n, "expired")
  /\ UNCHANGED <<starting, current, call, record, settling, store>>
Closes(n) ==
  /\ proxy[n] = "closing" /\ proxy' = [proxy EXCEPT ![n] = "closed"]
  /\ UNCHANGED <<starting, current, call, outcome, record, settling, store>>

Work(n) == Replaces(n) \/ Launches(n) \/ Asks(n)
Settling(n) == Reads(n) \/ Connects(n) \/ Told(n) \/ Settles(n)
Next ==
  \/ \E a \in Accounts : Start(a)
  \/ \E n \in SignIns :
       \/ Work(n) \/ SignsIn(n) \/ Look(n) \/ Refused(n) \/ Settling(n)
       \/ Expires(n) \/ Closes(n)

\* Every call has a deadline, and the timer fires.
Fairness == \A n \in SignIns : WF_vars(Work(n)) /\ WF_vars(Settling(n)) /\ WF_vars(Expires(n)) /\ WF_vars(Closes(n))
Spec == Init /\ [][Next]_vars /\ Fairness

-----------------------------------------------------------------------------
\* Properties

\* However starts replace each other and looks overlap with the timer, every proxy of a sign-in is
\* closed, and no sign-in waits forever: the current one, the one that lost its place, the one refused.
SignInsEnd == \A n \in SignIns : start[n] # "off" ~> proxy[n] \in {"none", "closed"} /\ ~Waits(n) /\ start[n] \in {"handed", "refused"}

\* A person is told it succeeded only when the account is connected, whatever the timer, a replacement or a pasted
\* address did meanwhile; and once it is connected the sign-in waits only for the answer of the look that connected
\* it, or because that answer was lost.
OutcomeSaysConnected ==
  \A n \in SignIns :
    /\ outcome[n] = "succeeded" => n \in connected
    /\ n \in connected /\ Waits(n) => settling[n] = "connected" \/ n \in lost

\* What a person was told of an ended sign-in stays, though its look, its timer, a pasted address and the
\* next start may each end it while another is under way (login.ts finish).
OutcomeIsFinal == [][\A n \in SignIns : outcome[n] \in {"succeeded", "failed", "expired"} => outcome'[n] = outcome[n]]_vars

\* What login.ts says of itself: one sign-in at a time for the whole installation, from its start to its outcome.
OneSignInAtATime == Cardinality({n \in SignIns : start[n] \in {"launching", "asking"} \/ Waits(n)}) <= 1
=============================================================================
