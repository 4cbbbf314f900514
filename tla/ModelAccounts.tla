----------------------------- MODULE ModelAccounts -----------------------------
(***************************************************************************)
(* One subscription's row, shared by runs: what they hold of it, the one       *)
(* refresh of its tokens in flight (createTokenHolds), the write of what was    *)
(* refreshed, and the sign-ins and keys that replace the row.                 *)
(*                                                                         *)
(* Simplifications.                                                         *)
(*  - A sign-in begins a grant; tokens are their grant and how often it was    *)
(*    refreshed. The provider honours a grant's last refresh token only.     *)
(*  - A read captures the row in one step; its answer is acted on in another. *)
(*  - The Claude holds and the Codex ones are the same code; Google's go       *)
(*    through the proxies of CliproxyPool.                                  *)
(***************************************************************************)
EXTENDS Naturals, FiniteSets

CONSTANTS
  Runs,         \* runs that hold the row
  MaxWrites,    \* bound: sign-ins and keys written over the row
  MaxRefreshes, \* bound: refreshes of one grant
  MaxCrashes,   \* bound: stops of the Hub
  MaxFaults     \* bound: calls to the provider or the database that fail

ASSUME BoundAssumption == {MaxWrites, MaxRefreshes, MaxCrashes, MaxFaults} \subseteq Nat

VARIABLES
  kind,    \* the row: the kind of its credential
  tokens,  \* and its tokens
  writes,  \* sign-ins and keys written so far
  last,    \* last[g]: how often the provider refreshed grant g
  fresh,   \* the tokens whose access token still works
  at,      \* at[r]: where run r is with a request
  current, \* current[r]: the tokens it has at hand
  stored,  \* stored[r]: what its request under way read of the row
  flight,  \* the refresh in flight: what it read, what it got, whether the run it reads for is open
  lost,    \* the grants of which the last token is left nowhere
  crashes, faults

row == <<kind, tokens>>
held == <<at, current, stored>>
vars == <<row, writes, last, fresh, held, flight, lost, crashes, faults>>

Grants == 0..MaxWrites
Tokens == [grant : Grants, n : 0..MaxRefreshes]
First(g) == [grant |-> g, n |-> 0]
NoFlight == [pc |-> "none", admitted |-> FALSE, stored |-> First(0), got |-> First(0)]

Last(t) == t.n = last[t.grant]
Renewed(t) == [grant |-> t.grant, n |-> t.n + 1]
Flies(pc, admitted, read, got) == flight' = [pc |-> pc, admitted |-> admitted, stored |-> read, got |-> got]
To(r, place) == at' = [at EXCEPT ![r] = place]
Faulty == faults < MaxFaults /\ faults' = faults + 1

TypeOK ==
  /\ kind \in {"oauth", "api_key"} /\ tokens \in Tokens
  /\ writes \in Grants /\ tokens.grant <= writes
  /\ last \in [Grants -> 0..MaxRefreshes] /\ \A t \in fresh : t \in Tokens /\ t.n <= last[t.grant]
  /\ at \in [Runs -> {"off", "idle", "read", "waiting"}]
  /\ current \in [Runs -> Tokens] /\ stored \in [Runs -> Tokens]
  /\ flight \in [pc : {"none", "reading", "read", "writing"}, admitted : BOOLEAN, stored : Tokens, got : Tokens]
  /\ (\E r \in Runs : at[r] = "waiting") => flight.pc # "none"
  /\ lost \subseteq Grants /\ crashes \in 0..MaxCrashes /\ faults \in 0..MaxFaults

Init ==
  /\ kind = "oauth" /\ tokens = First(0) /\ writes = 0
  /\ last = [g \in Grants |-> 0] /\ fresh = {First(0)}
  /\ at = [r \in Runs |-> "off"] /\ current = [r \in Runs |-> First(0)] /\ stored = current
  /\ flight = NoFlight
  /\ lost = {} /\ crashes = 0 /\ faults = 0

-----------------------------------------------------------------------------
\* What a run holds

Leaves(r) == To(r, "off") /\ current' = [current EXCEPT ![r] = First(0)] /\ stored' = [stored EXCEPT ![r] = First(0)]

\* select: the call starts from the tokens the row has.
Select(r) ==
  /\ at[r] = "off" /\ kind = "oauth"
  /\ To(r, "idle") /\ current' = [current EXCEPT ![r] = tokens]
  /\ UNCHANGED <<row, writes, last, fresh, stored, flight, lost, crashes, faults>>

\* A request whose tokens at hand no longer work reads the row again. A row of another kind refuses the
\* request, and the run has what it had.
Read(r) ==
  /\ at[r] = "idle" /\ current[r] \notin fresh /\ kind = "oauth"
  /\ To(r, "read") /\ stored' = [stored EXCEPT ![r] = tokens]
  /\ UNCHANGED <<row, writes, last, fresh, current, flight, lost, crashes, faults>>

\* The row's tokens, when they work; else it waits for the refresh, the first one to come starts it.
JoinsUnread(r) == IF flight.pc # "none" THEN UNCHANGED flight ELSE Flies("read", TRUE, stored[r], First(0)) \* broken: the refresh starts from what its first run has read
Joins(r) == IF flight.pc # "none" THEN UNCHANGED flight ELSE Flies("reading", TRUE, First(0), First(0))
Decide(r) ==
  /\ at[r] = "read" /\ stored' = [stored EXCEPT ![r] = First(0)]
  /\ \/ stored[r] \in fresh /\ To(r, "idle") /\ current' = [current EXCEPT ![r] = stored[r]] /\ UNCHANGED flight
     \/ stored[r] \notin fresh /\ To(r, "waiting") /\ Joins(r) /\ UNCHANGED current
  /\ UNCHANGED <<row, writes, last, fresh, lost, crashes, faults>>

\* A run that ends takes what it holds with it; the refresh under way, which may read for it, goes on.
RunEnds(r) ==
  /\ at[r] # "off" /\ Leaves(r)
  /\ UNCHANGED flight \/ Flies(flight.pc, FALSE, flight.stored, flight.got)
  /\ UNCHANGED <<row, writes, last, fresh, lost, crashes, faults>>

-----------------------------------------------------------------------------
\* renew: the refresh in flight

\* Everyone who waits hears its end: the tokens, or a failure that leaves it what it had.
Lands ==
  /\ flight' = NoFlight /\ at' = [r \in Runs |-> IF at[r] = "waiting" THEN "idle" ELSE at[r]]
  /\ UNCHANGED stored
Answers(t) == Lands /\ current' = [r \in Runs |-> IF at[r] = "waiting" THEN t ELSE current[r]]
Fails == Lands /\ UNCHANGED current

\* The row is read again inside the flight, for the run that started it, which may have ended.
FlightReads ==
  /\ flight.pc = "reading"
  /\ \/ flight.admitted /\ kind = "oauth" /\ Flies("read", TRUE, tokens, First(0)) /\ UNCHANGED <<held, faults>>
     \/ (~flight.admitted \/ kind # "oauth") /\ Fails /\ UNCHANGED faults
     \/ Faulty /\ Fails
  /\ UNCHANGED <<row, writes, last, fresh, lost, crashes>>
Adopts ==
  /\ flight.pc = "read" /\ flight.stored \in fresh
  /\ Answers(flight.stored)
  /\ UNCHANGED <<row, writes, last, fresh, lost, crashes, faults>>

\* The provider spends the refresh token; a spent one is refused.
Spends(t) == t.n < MaxRefreshes /\ last' = [last EXCEPT ![t.grant] = @ + 1] /\ fresh' = fresh \cup {Renewed(t)}
Refresh ==
  LET t == flight.stored IN
  /\ flight.pc = "read" /\ t \notin fresh
  /\ \/ Last(t) /\ Spends(t) /\ Flies("writing", flight.admitted, t, Renewed(t)) /\ UNCHANGED <<held, lost, faults>>
     \/ ~Last(t) /\ Fails /\ UNCHANGED <<last, fresh, lost, faults>>
     \/ Faulty /\ Fails /\ UNCHANGED <<last, fresh, lost>>
     \/ Faulty /\ Last(t) /\ Spends(t) /\ Fails /\ lost' = lost \cup {t.grant}
  /\ UNCHANGED <<row, writes, crashes>>

\* persist: by the row's id and kind, whatever became of the run, and before anyone uses it.
Rewritten == tokens' = flight.got /\ UNCHANGED kind
RewriteForTheRun == flight.admitted /\ kind = "oauth" \* broken: as the run's own write, which an ended run may not do
Rewrites == kind = "oauth"
Persist ==
  /\ flight.pc = "writing"
  /\ \/ Rewrites /\ Rewritten /\ Answers(flight.got) /\ UNCHANGED <<lost, faults>>
     \/ ~Rewrites /\ Fails /\ UNCHANGED <<row, lost, faults>>
     \/ Faulty /\ Rewrites /\ Rewritten /\ Fails /\ UNCHANGED lost
     \/ Faulty /\ Fails /\ lost' = lost \cup {flight.got.grant} /\ UNCHANGED row
  /\ UNCHANGED <<writes, last, fresh, crashes>>

-----------------------------------------------------------------------------
\* The person, time and the Hub

\* write: a sign-in or a key takes the row's place.
SignIn ==
  /\ writes < MaxWrites /\ writes' = writes + 1
  /\ kind' = "oauth" /\ tokens' = First(writes')
  /\ fresh' = fresh \cup {First(writes')}
  /\ UNCHANGED <<last, held, flight, lost, crashes, faults>>
SetApiKey ==
  /\ writes < MaxWrites /\ writes' = writes + 1
  /\ kind' = "api_key"
  /\ UNCHANGED <<tokens, last, fresh, held, flight, lost, crashes, faults>>
Expires ==
  /\ \E t \in fresh : fresh' = fresh \ {t}
  /\ UNCHANGED <<row, writes, last, held, flight, lost, crashes, faults>>

\* The Hub stops where it stands: a request to the provider, or the write, may have got there or not.
Stop ==
  LET t == flight.stored IN
  /\ crashes < MaxCrashes /\ crashes' = crashes + 1
  /\ at' = [r \in Runs |-> "off"] /\ current' = [r \in Runs |-> First(0)] /\ stored' = current'
  /\ flight' = NoFlight
  /\ \/ flight.pc # "writing" /\ UNCHANGED <<row, last, fresh, lost>>
     \/ flight.pc = "read" /\ t \notin fresh /\ Last(t) /\ Spends(t) /\ lost' = lost \cup {t.grant} /\ UNCHANGED row
     \/ flight.pc = "writing" /\ Rewrites /\ Rewritten /\ UNCHANGED <<last, fresh, lost>>
     \/ flight.pc = "writing" /\ lost' = lost \cup {t.grant} /\ UNCHANGED <<row, last, fresh>>
  /\ UNCHANGED <<writes, faults>>

Next ==
  \/ \E r \in Runs : Select(r) \/ Read(r) \/ Decide(r) \/ RunEnds(r)
  \/ FlightReads \/ Adopts \/ Refresh \/ Persist
  \/ SignIn \/ SetApiKey \/ Expires \/ Stop

Spec == Init /\ [][Next]_vars

-----------------------------------------------------------------------------
\* Properties

\* A refresh token is spent by its use: none is sent to the provider twice, however many runs find
\* the row's tokens expired at once, unless a failure or a stop took what it was exchanged for
\* (oauth-holds.ts renew, refreshing).
SpentTokenIsNotSentAgain == [][Refresh /\ ~Last(flight.stored) => flight.stored.grant \in lost]_vars

\* The row has the last tokens of its grant, or the flight that is about to write them does, whoever
\* of the runs ends and whatever the person signs in with meanwhile; and no run uses tokens the row has not
\* had (accounts.ts rewrite, oauth-holds.ts renew).
RowHasTheLastTokens ==
  kind = "oauth" =>
    /\ \/ Last(tokens)
       \/ flight.pc = "writing" /\ flight.stored = tokens
       \/ tokens.grant \in lost
    /\ \A r \in Runs : at[r] # "off" /\ current[r].grant = tokens.grant => current[r].n <= tokens.n
=============================================================================
