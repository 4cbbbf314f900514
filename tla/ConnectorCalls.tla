---------------------------- MODULE ConnectorCalls ----------------------------
(***************************************************************************)
(* A Project's calls to its Connections: the broker's admission and its     *)
(* deadline, the token cache every call leases from, the lane of a token    *)
(* that carries one request at a time, and an administrator who disables a  *)
(* Connection while calls are under way.                                    *)
(*                                                                         *)
(* Simplifications.                                                         *)
(*  - A token is named by the authentication that issued it.                *)
(*  - Clocks are left out: a live token may pass its refresh time, and a    *)
(*    call its deadline, at any moment.                                     *)
(*  - What runs in one turn of the event loop is one step. A deadline gives *)
(*    the consumer its answer at once and aborts the call's own fetches;    *)
(*    the rest of the call still runs to its end, unseen.                   *)
(*  - Which answer a consumer is told is left out, but that it is told one.  *)
(*  - A token nobody leases or caches any more neither ages nor is refused. *)
(*  - An administrator's check of a Connection, which authenticates past the *)
(*    cache, is left out.                                                   *)
(***************************************************************************)
EXTENDS Naturals, FiniteSets, Sequences

CONSTANTS
  Calls,       \* the fetches of one Builder run's scope
  Connections,
  Budget,      \* how many of them the scope may send
  MaxTokens    \* bound: how many authentications start

ASSUME BudgetAssumption == Budget \in Nat
ASSUME BoundAssumption  == MaxTokens \in Nat

VARIABLES
  enabled,   \* Connections an administrator has not disabled
  bound,     \* Connections the Project has an open binding on
  forgotten, \* history: Connections the broker forgot, after their disable committed
  orphans,   \* history: the authentications under way when their Connection was forgotten
  entry,     \* entry[c]: the token cache's entry of the Connection
  issue,     \* issue[t]: how far the authentication of t got
  serves,    \* serves[t]: the Connection it is for
  began,     \* began[t]: the call that began it
  old,       \* tokens past their refresh time
  dead,      \* tokens the provider refuses
  lane,      \* lane[t]: the calls whose request waits for, or has, the token
  call,      \* call[k]: where the work of the call is
  of,        \* of[k]: its Connection
  attempt,   \* attempt[k]: which of its two tries it is in
  token,     \* token[k]: what that leases
  aborted,   \* calls whose deadline has passed
  answered,  \* calls whose consumer was told an answer
  spent,     \* calls the scope has spent
  revoked    \* the run ended and revoked its scope

issuing == <<issue, serves, began>>
work  == <<call, of, attempt, token>>
cache == <<entry, issuing, old, dead, lane>>
forgets == <<forgotten, orphans>>
store == <<enabled, bound, forgets>>
scope == <<spent, revoked>>
vars  == <<store, cache, work, aborted, answered, scope>>

Tokens == 1..MaxTokens
NoEntry == [state |-> "none", token |-> 0]
IssuingEntry(t) == [state |-> "issuing", token |-> t]
LiveEntry(t) == [state |-> "live", token |-> t]

Unissued == {t \in Tokens : issue[t] = "unused"}
NextToken == CHOOSE t \in Unissued : TRUE
InFlight(t) == issue[t] \in {"reading", "authenticating"}
To(k, place) == call' = [call EXCEPT ![k] = place]
Waiting == {"listing", "leasing", "queued", "sending", "retrying"}

TypeOK ==
  /\ bound \subseteq enabled /\ enabled \subseteq Connections
  /\ forgotten \subseteq Connections \ enabled /\ orphans \subseteq Tokens
  /\ entry \in [Connections -> {NoEntry} \cup [state : {"issuing", "live"}, token : Tokens]]
  /\ issue \in [Tokens -> {"unused", "reading", "authenticating", "issued", "failed"}]
  /\ serves \in [Tokens -> Connections \cup {0}] /\ began \in [Tokens -> Calls \cup {0}]
  /\ old \subseteq Tokens /\ dead \subseteq Tokens
  /\ lane \in [Tokens -> Seq(Calls)]
  /\ call \in [Calls -> Waiting \cup {"idle", "done"}] /\ of \in [Calls -> Connections \cup {0}]
  /\ attempt \in [Calls -> 0..2] /\ token \in [Calls -> Tokens \cup {0}]
  /\ aborted \subseteq Calls
  /\ answered \subseteq Calls
  /\ spent \in 0..Budget /\ revoked \in BOOLEAN

Init ==
  /\ enabled = Connections /\ bound = Connections /\ forgotten = {} /\ orphans = {}
  /\ entry = [c \in Connections |-> NoEntry]
  /\ issue = [t \in Tokens |-> "unused"] /\ serves = [t \in Tokens |-> 0] /\ began = serves
  /\ old = {} /\ dead = {}
  /\ lane = [t \in Tokens |-> <<>>]
  /\ call = [k \in Calls |-> "idle"] /\ of = [k \in Calls |-> 0] /\ attempt = of /\ token = of
  /\ aborted = {}
  /\ answered = {}
  /\ spent \in 0..Budget \* calls of the run before these may have spent, and failed to authenticate
  /\ revoked = FALSE

-----------------------------------------------------------------------------
\* The token cache

\* A lease asked for by the n-th attempt of call k on Connection c: it joins an
\* authentication under way, takes a live token, or begins an authentication.
Leases(k, n, t) ==
  /\ To(k, "leasing") /\ attempt' = [attempt EXCEPT ![k] = n] /\ token' = [token EXCEPT ![k] = t]
  /\ UNCHANGED of
Usable(c) ==
  \/ entry[c].state = "issuing"
  \/ entry[c].state = "live" /\ entry[c].token \notin old
Begins(c, k) ==
  /\ Unissued # {}
  /\ issue' = [issue EXCEPT ![NextToken] = "reading"]
  /\ serves' = [serves EXCEPT ![NextToken] = c] /\ began' = [began EXCEPT ![NextToken] = k]
AcquireUnregistered(k, c, n) == \* broken: a lease finds live tokens only
  \/ /\ Usable(c) /\ entry[c].state = "live"
     /\ Leases(k, n, entry[c].token)
     /\ UNCHANGED <<entry, issuing>>
  \/ /\ ~(Usable(c) /\ entry[c].state = "live")
     /\ Begins(c, k)
     /\ entry' = [entry EXCEPT ![c] = IssuingEntry(NextToken)]
     /\ Leases(k, n, NextToken)
Acquire(k, c, n) ==
  \/ /\ Usable(c)
     /\ Leases(k, n, entry[c].token)
     /\ UNCHANGED <<entry, issuing>>
  \/ /\ ~Usable(c)
     /\ Begins(c, k)
     /\ entry' = [entry EXCEPT ![c] = IssuingEntry(NextToken)]
     /\ Leases(k, n, NextToken)

\* What a refused lease leaves of the Connection's entry.
DropAnyLive(c, t) == \* broken: whatever live token the entry holds by now
  IF entry[c].state = "live" THEN [entry EXCEPT ![c] = NoEntry] ELSE entry
DropIfHolding(c, t) == IF entry[c] = LiveEntry(t) THEN [entry EXCEPT ![c] = NoEntry] ELSE entry

\* The answer of an authentication is stored, or removed, only while the entry is still its own.
OwnOrForgotten(t) == TRUE \* broken: stored whatever happened to the entry meanwhile
Own(t) == entry[serves[t]] = IssuingEntry(t)
Settles(t, outcome, e) ==
  /\ issue' = [issue EXCEPT ![t] = outcome]
  /\ entry' = IF Own(t) THEN [entry EXCEPT ![serves[t]] = e] ELSE entry

ReadCredential(t) ==
  /\ issue[t] = "reading"
  /\ \/ serves[t] \in enabled \cap bound /\ issue' = [issue EXCEPT ![t] = "authenticating"] /\ UNCHANGED entry
     \/ serves[t] \notin enabled \cap bound /\ Settles(t, "failed", NoEntry)
  /\ UNCHANGED <<store, serves, began, old, dead, lane, work, aborted, answered, scope>>

Authenticates(t) ==
  /\ issue[t] = "authenticating"
  /\ \/ began[t] \notin aborted /\ Settles(t, "issued", LiveEntry(t))
     \/ Settles(t, "failed", NoEntry)
  /\ UNCHANGED <<store, serves, began, old, dead, lane, work, aborted, answered, scope>>

-----------------------------------------------------------------------------
\* The calls

Rests(k) ==
  /\ To(k, "done") /\ of' = [of EXCEPT ![k] = 0]
  /\ attempt' = [attempt EXCEPT ![k] = 0] /\ token' = [token EXCEPT ![k] = 0]
Finish(k) ==
  /\ Rests(k)
  /\ answered' = answered \cup {k}

\* A call is asked for under a scope that is still live.
Enter(k) ==
  /\ call[k] = "idle"
  /\ \/ /\ revoked
        /\ Finish(k)
     \/ /\ ~revoked
        /\ To(k, "listing") /\ \E c \in Connections : of' = [of EXCEPT ![k] = c]
        /\ UNCHANGED <<attempt, token, answered>>
  /\ UNCHANGED <<store, cache, aborted, scope>>

\* The Project's bindings are read; the call spends and asks for its first lease.
Admit(k) ==
  /\ call[k] = "listing"
  /\ \/ /\ of[k] \notin enabled \cap bound
        /\ Finish(k)
        /\ UNCHANGED <<entry, issuing, spent>>
     \/ /\ of[k] \in enabled \cap bound
        /\ spent = Budget
        /\ Finish(k)
        /\ UNCHANGED <<entry, issuing, spent>>
     \/ /\ of[k] \in enabled \cap bound
        /\ spent < Budget
        /\ spent' = spent + 1
        /\ Acquire(k, of[k], 1)
        /\ UNCHANGED answered
  /\ UNCHANGED <<store, old, dead, lane, aborted, revoked>>

LeaseFails(k) ==
  /\ call[k] = "leasing"
  /\ issue[token[k]] = "failed"
  /\ Finish(k)
  /\ UNCHANGED <<store, cache, aborted, scope>>

\* A leased call takes its place in the token's lane, and sends in its turn.
Leased(k) ==
  /\ call[k] = "leasing"
  /\ issue[token[k]] = "issued"
  /\ To(k, "queued") /\ UNCHANGED <<of, attempt, token>>
  /\ lane' = [lane EXCEPT ![token[k]] = Append(@, k)]
  /\ UNCHANGED <<store, entry, issuing, old, dead, aborted, answered, scope>>

TurnAtOnce(k) == call[k] = "queued" \* broken: no lane
Turn(k) == call[k] = "queued" /\ Head(lane[token[k]]) = k
Send(k) ==
  /\ Turn(k)
  /\ To(k, "sending") /\ UNCHANGED <<of, attempt, token>>
  /\ UNCHANGED <<store, cache, aborted, answered, scope>>

NextTurnUnlessFailed(k) == \* broken: a failed turn never settles the lane
  [lane EXCEPT ![token[k]] = IF k \in aborted THEN @ ELSE Tail(@)]
NextTurn(k) == [lane EXCEPT ![token[k]] = Tail(@)]

Answered(k) ==
  /\ call[k] = "sending" /\ k \notin aborted
  /\ token[k] \notin dead
  /\ lane' = NextTurn(k)
  /\ Finish(k)
  /\ UNCHANGED <<store, entry, issuing, old, dead, aborted, scope>>

TransportFails(k) ==
  /\ call[k] = "sending"
  /\ lane' = NextTurn(k)
  /\ Finish(k)
  /\ UNCHANGED <<store, entry, issuing, old, dead, aborted, scope>>

\* The provider refused the token: the call drops it from the cache and runs once more.
TokenRefused(k) ==
  /\ call[k] = "sending" /\ k \notin aborted
  /\ token[k] \in dead
  /\ lane' = NextTurn(k)
  /\ entry' = DropIfHolding(of[k], token[k])
  /\ \/ /\ attempt[k] = 1
        /\ To(k, "retrying") /\ UNCHANGED <<of, attempt, token, answered>>
     \/ /\ attempt[k] = 2
        /\ Finish(k)
  /\ UNCHANGED <<store, issuing, old, dead, aborted, scope>>

Retry(k) ==
  /\ call[k] = "retrying"
  /\ Acquire(k, of[k], 2)
  /\ UNCHANGED <<store, old, dead, lane, aborted, answered, scope>>

\* The deadline answers the consumer. A binding lookup is left there; a call past it works on.
Deadline(k) ==
  /\ call[k] \in Waiting
  /\ k \notin answered
  /\ aborted' = aborted \cup {k}
  /\ answered' = answered \cup {k}
  /\ IF call[k] = "listing" THEN Rests(k) ELSE UNCHANGED work
  /\ UNCHANGED <<store, cache, scope>>

-----------------------------------------------------------------------------
\* What happens around the calls

\* Disabling commits and unbinds in one transaction; the module then forgets the token, and once more for
\* every request that disables it again, which changes no row.
UnboundWith(c) == bound \ {c}
Disable(c) ==
  /\ c \in enabled
  /\ enabled' = enabled \ {c}
  /\ bound' = UnboundWith(c)
  /\ UNCHANGED <<forgets, cache, work, aborted, answered, scope>>
Forget(c) ==
  /\ c \notin enabled
  /\ entry' = [entry EXCEPT ![c] = NoEntry]
  /\ forgotten' = forgotten \cup {c}
  /\ orphans' = orphans \cup {t \in Tokens : InFlight(t) /\ serves[t] = c}
  /\ UNCHANGED <<enabled, bound, issuing, old, dead, lane, work, aborted, answered, scope>>
Unbind(c) ==
  /\ c \in bound
  /\ bound' = bound \ {c}
  /\ UNCHANGED <<enabled, forgets, cache, work, aborted, answered, scope>>

Held(t) == \/ \E c \in Connections : entry[c] = LiveEntry(t)
           \/ \E k \in Calls : token[k] = t
GrowsOld(t) ==
  /\ issue[t] = "issued" /\ Held(t) /\ t \notin old
  /\ old' = old \cup {t}
  /\ UNCHANGED <<store, entry, issuing, dead, lane, work, aborted, answered, scope>>
SessionEnds(t) ==
  /\ issue[t] = "issued" /\ Held(t) /\ t \notin dead
  /\ dead' = dead \cup {t}
  /\ UNCHANGED <<store, entry, issuing, old, lane, work, aborted, answered, scope>>
RunEnds ==
  /\ ~revoked
  /\ revoked' = TRUE
  /\ UNCHANGED <<store, cache, work, aborted, answered, spent>>

Work(k) ==
  \/ Admit(k) \/ LeaseFails(k) \/ Leased(k) \/ Send(k)
  \/ Answered(k) \/ TransportFails(k) \/ TokenRefused(k) \/ Retry(k)
Authentication(t) == ReadCredential(t) \/ Authenticates(t)

Next ==
  \/ \E k \in Calls : Enter(k) \/ Work(k) \/ Deadline(k)
  \/ \E t \in Tokens : Authentication(t) \/ GrowsOld(t) \/ SessionEnds(t)
  \/ \E c \in Connections : Disable(c) \/ Forget(c) \/ Unbind(c)
  \/ RunEnds

\* A deadline's timer fires, a fetch answers or is aborted, a read of the store settles,
\* and what a settled promise releases runs.
Fairness ==
  /\ \A k \in Calls : WF_vars(Work(k)) /\ WF_vars(Deadline(k))
  /\ \A t \in Tokens : WF_vars(Authentication(t))

Spec == Init /\ [][Next]_vars /\ Fairness

-----------------------------------------------------------------------------
\* The cache never holds a token of a Connection it was told to forget, though an
\* authentication that read the credential before the disable may answer after the forget.
ForgottenHoldsNoToken == \A c \in forgotten : entry[c].state # "live"

\* A live token leaves the cache only when the provider refused that very token, when it is past
\* its refresh time, or when its Connection is forgotten: a call refused on an earlier token never
\* costs its successor (withToken, dropIfHolding).
FreshTokenKept ==
  [][\A c \in Connections :
       entry[c].state = "live" /\ entry'[c] # entry[c] =>
         entry[c].token \in dead \cup old \/ c \in forgotten']_vars

\* However many calls miss at once, one authentication that a Connection's calls began since its last forget is
\* under way (acquire). A forget leaves those before it to answer, and a retry may begin another; but however often the
\* Connection is forgotten, one at a time has the credential and talks to the provider.
OneAuthenticationAtATime ==
  \A c \in Connections :
    /\ Cardinality({t \in Tokens \ orphans : InFlight(t) /\ serves[t] = c}) <= 1
    /\ Cardinality({t \in Tokens : issue[t] = "authenticating" /\ serves[t] = c}) <= 1

\* Two services never run on one token (inLane), though calls lease it at once and fail in any order.
OneServicePerToken ==
  \A k, j \in Calls :
    call[k] = "sending" /\ call[j] = "sending" /\ token[k] = token[j] => k = j

\* The work of every call comes to its end, whatever call before it in the lane failed or ran out of time.
CallsEnd == \A k \in Calls : call[k] # "idle" ~> call[k] = "done"
=============================================================================
