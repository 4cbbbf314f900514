------------------------ MODULE GoogleSignIn_proofs ------------------------
(***************************************************************************)
(* Proofs about the sign-ins to Google AI Pro, for any number of people and *)
(* sign-ins: types, what a person is told, and that it stays.               *)
(***************************************************************************)
EXTENDS GoogleSignIn, TLAPS

Types ==
  /\ starting \in BOOLEAN /\ current \in SignIns \cup {0}
  /\ start \in [SignIns -> {"off", "replacing", "launching", "asking", "handed", "refused"}]
  /\ by \in [SignIns -> Accounts \cup {0}] /\ replaces \in [SignIns -> SignIns \cup {0}]
  /\ outcome \in [SignIns -> {"none", "waiting", "succeeded", "failed", "expired"}]
  /\ proxy \in [SignIns -> {"none", "running", "closing", "closed"}]
  /\ settling \in [SignIns -> {"none", "reading", "connecting", "connected", "finishing"}]
  /\ record \subseteq SignIns /\ connected \subseteq record /\ lost \subseteq connected

\* A start has the place only while it launches or asks.
Placed == starting => \E n \in SignIns : start[n] \in {"launching", "asking"}

\* Only a sign-in that was handed out has an outcome, a look or a record.
Handed ==
  \A n \in SignIns :
    /\ start[n] = "handed" <=> outcome[n] # "none"
    /\ settling[n] # "none" => start[n] = "handed"
    /\ n \in record => start[n] = "handed"
    /\ settling[n] \in {"connecting", "connected"} => n \in record

\* It succeeded only if the account is connected, and a connected one waits for its look's answer, or lost it.
Says ==
  \A n \in SignIns :
    /\ n \in connected /\ outcome[n] = "waiting" => settling[n] = "connected" \/ n \in lost
    /\ settling[n] = "connected" => n \in connected
    /\ outcome[n] = "succeeded" => n \in connected
    /\ settling[n] = "finishing" => outcome[n] # "waiting"

Inv == Types /\ Placed /\ Handed /\ Says

LEMMA SignInIsNotZero == 0 \notin SignIns
  BY BoundAssumption DEF SignIns

LEMMA FreshUnused == Unused # {} => Fresh \in SignIns /\ start[Fresh] = "off"
  BY DEF Unused, Fresh

\* What a start does, with its number and the sign-in it replaces named.
LEMMA StartDoes ==
  ASSUME NEW a \in Accounts, Types, Start(a)
  PROVE  \E n \in SignIns :
           /\ start[n] = "off" /\ ~starting /\ by' = [by EXCEPT ![n] = a]
           /\ UNCHANGED <<current, record, settling, connected, lost>>
           /\ \/ /\ starting' = TRUE /\ start' = [start EXCEPT ![n] = "launching"]
                 /\ UNCHANGED <<replaces, outcome, proxy>>
              \/ \E m \in SignIns :
                   /\ outcome[m] = "waiting" /\ Finish(m, "expired")
                   /\ start' = [start EXCEPT ![n] = "replacing"] /\ replaces' = [replaces EXCEPT ![n] = m]
                   /\ UNCHANGED starting
  BY FreshUnused DEF Start, Waits, Types, store

-----------------------------------------------------------------------------
(* Each step keeps the invariant *)

LEMMA StartKeeps == ASSUME Inv, NEW a \in Accounts, Start(a) PROVE Inv'
<1> USE DEF Inv, Types
<1>1. PICK n \in SignIns :
        /\ start[n] = "off" /\ ~starting /\ by' = [by EXCEPT ![n] = a]
        /\ UNCHANGED <<current, record, settling, connected, lost>>
        /\ \/ /\ starting' = TRUE /\ start' = [start EXCEPT ![n] = "launching"]
              /\ UNCHANGED <<replaces, outcome, proxy>>
           \/ \E m \in SignIns :
                /\ outcome[m] = "waiting" /\ Finish(m, "expired")
                /\ start' = [start EXCEPT ![n] = "replacing"] /\ replaces' = [replaces EXCEPT ![n] = m]
                /\ UNCHANGED starting
  BY StartDoes
<1>2. CASE starting' = TRUE /\ start' = [start EXCEPT ![n] = "launching"] /\ UNCHANGED <<replaces, outcome, proxy>>
  BY <1>1, <1>2 DEF Placed, Handed, Says
<1>3. ASSUME NEW m \in SignIns, outcome[m] = "waiting", Finish(m, "expired"), UNCHANGED starting,
             start' = [start EXCEPT ![n] = "replacing"], replaces' = [replaces EXCEPT ![n] = m] PROVE Inv'
  <2>1. Types'
    BY <1>1, <1>3 DEF Finish, CloseProxy
  <2>2. Placed' /\ Handed' /\ Says'
    BY <1>1, <1>3 DEF Finish, CloseProxy, Placed, Handed, Says
  <2> QED BY <2>1, <2>2
<1> QED BY <1>1, <1>2, <1>3

LEMMA WorkKeeps == ASSUME Inv, NEW n \in SignIns, Work(n) PROVE Inv'
<1> USE DEF Inv, Types, Work, Replaces, Launches, Asks, At, CloseProxy, store
<1>1. Types'
  OBVIOUS
<1>2. Placed'
  BY DEF Placed
<1>3. Handed'
  BY DEF Handed
<1>4. Says'
  BY DEF Says, Handed
<1> QED BY <1>1, <1>2, <1>3, <1>4

LEMMA SettlingKeeps == ASSUME Inv, NEW n \in SignIns, Settling(n) PROVE Inv'
<1> USE DEF Inv, Types, call, store, Finish, CloseProxy, Denied
<1>1. CASE Reads(n)
  <2>1. Types'
    BY <1>1 DEF Reads
  <2>2. Placed' /\ Handed'
    BY <1>1 DEF Reads, Placed, Handed
  <2>3. Says'
    BY <1>1 DEF Reads, Says
  <2> QED BY <2>1, <2>2, <2>3
<1>2. CASE Connects(n)
  <2>1. Types'
    BY <1>2 DEF Connects, Handed
  <2>2. Placed' /\ Handed'
    BY <1>2 DEF Connects, Placed, Handed
  <2>3. Says'
    BY <1>2 DEF Connects, Says
  <2> QED BY <2>1, <2>2, <2>3
<1>3. CASE Settles(n)
  BY <1>3 DEF Settles, Placed, Handed, Says
<1>4. CASE Told(n)
  <2>1. Types'
    BY <1>4 DEF Told, Says
  <2>2. Placed' /\ Handed'
    BY <1>4 DEF Told, Placed, Handed
  <2>3. Says'
    BY <1>4 DEF Told, Says
  <2> QED BY <2>1, <2>2, <2>3
<1> QED BY <1>1, <1>2, <1>3, <1>4 DEF Settling

LEMMA RestKeeps ==
  ASSUME Inv, NEW n \in SignIns, SignsIn(n) \/ Look(n) \/ Refused(n) \/ Expires(n) \/ Closes(n) PROVE Inv'
<1> USE DEF Inv, Types, call, store, Waits
<1>1. CASE SignsIn(n) \/ Closes(n)
  BY <1>1 DEF SignsIn, Closes, Placed, Handed, Says
<1>2. CASE Look(n)
  BY <1>2 DEF Look, Placed, Handed, Says
<1>3. CASE Refused(n) \/ Expires(n)
  BY <1>3 DEF Refused, Expires, Finish, CloseProxy, Placed, Handed, Says
<1> QED BY <1>1, <1>2, <1>3

LEMMA InvInit == Init => Inv
<1> SUFFICES ASSUME Init PROVE Inv
  OBVIOUS
<1>1. Types
  BY DEF Init, Types
<1>2. Placed /\ Handed /\ Says
  BY DEF Init, Placed, Handed, Says
<1> QED BY <1>1, <1>2 DEF Inv

LEMMA InvStep == Inv /\ [Next]_vars => Inv'
<1> SUFFICES ASSUME Inv, [Next]_vars PROVE Inv'
  OBVIOUS
<1>1. CASE UNCHANGED vars
  BY <1>1 DEF vars, call, store, Inv, Types, Placed, Handed, Says
<1> QED BY <1>1, StartKeeps, WorkKeeps, SettlingKeeps, RestKeeps DEF Next

LEMMA InvHolds == Spec => []Inv
  BY InvInit, InvStep, PTL DEF Spec

-----------------------------------------------------------------------------
(* The theorems *)

\* Every variable keeps its type, and the one place of a start is never held by nobody (login.ts start).
THEOREM SignInTypeCorrect == Spec => []TypeOK
<1>1. Inv => TypeOK
  BY DEF Inv, Types, Placed, Says, TypeOK
<1> QED BY <1>1, InvHolds, PTL

\* A person is told it succeeded only when the account is connected, and a connected one waits on only for the answer
\* of its look, or because that was lost (login.ts settle).
THEOREM OutcomeIsTrue == Spec => []OutcomeSaysConnected
<1>1. Inv => OutcomeSaysConnected
  BY DEF Inv, Says, OutcomeSaysConnected, Waits
<1> QED BY <1>1, InvHolds, PTL

\* What a person was told of an ended sign-in stays (login.ts finish).
THEOREM OutcomeStays == Spec => OutcomeIsFinal
<1> DEFINE Kept == \A n \in SignIns : outcome[n] \in {"succeeded", "failed", "expired"} => outcome'[n] = outcome[n]
<1>1. ASSUME Inv, [Next]_vars PROVE Kept \/ UNCHANGED vars
  <2> USE DEF Inv, Types
  <2>5. ASSUME NEW n \in SignIns, NEW o, Finish(n, o) PROVE Kept
    BY <2>5 DEF Finish
  <2>1. ASSUME NEW a \in Accounts, Start(a) PROVE Kept
    <3>1. UNCHANGED outcome \/ \E m \in SignIns : Finish(m, "expired")
      BY <1>1, <2>1, StartDoes
    <3> QED BY <3>1, <2>5
  <2>2. ASSUME NEW n \in SignIns, Work(n) PROVE Kept
    <3>1. UNCHANGED outcome \/ (start[n] # "handed" /\ outcome' = [outcome EXCEPT ![n] = "waiting"])
      BY <2>2 DEF Work, Replaces, Launches, Asks
    <3> QED BY <1>1, <3>1 DEF Handed
  <2>3. ASSUME NEW n \in SignIns, Settling(n) PROVE Kept
    <3>1. UNCHANGED outcome \/ Finish(n, "failed") \/ Finish(n, "succeeded")
      BY <2>3 DEF Settling, Reads, Connects, Told, Settles, Denied
    <3> QED BY <3>1, <2>5
  <2>4. ASSUME NEW n \in SignIns, SignsIn(n) \/ Look(n) \/ Refused(n) \/ Expires(n) \/ Closes(n) PROVE Kept
    <3>1. UNCHANGED outcome \/ Finish(n, "failed") \/ Finish(n, "expired")
      BY <2>4 DEF SignsIn, Look, Refused, Expires, Closes
    <3> QED BY <3>1, <2>5
  <2> HIDE DEF Kept
  <2> QED BY <1>1, <2>1, <2>2, <2>3, <2>4 DEF Next
<1>2. Inv /\ [Next]_vars => [Kept]_vars
  BY <1>1
<1> QED BY <1>2, InvHolds, PTL DEF Spec, OutcomeIsFinal
=============================================================================
