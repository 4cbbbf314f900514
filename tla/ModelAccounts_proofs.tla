------------------------ MODULE ModelAccounts_proofs ------------------------
(***************************************************************************)
(* Proofs about the tokens of a subscription, for any number of runs, sign- *)
(* ins, refreshes, crashes and faults: types, the row's tokens, and that a  *)
(* refresh token is spent once.                                            *)
(***************************************************************************)
EXTENDS ModelAccounts, TLAPS

Types ==
  /\ kind \in {"oauth", "api_key"} /\ tokens \in Tokens /\ writes \in Grants
  /\ last \in [Grants -> 0..MaxRefreshes] /\ fresh \subseteq Tokens
  /\ at \in [Runs -> {"off", "idle", "read", "waiting"}]
  /\ current \in [Runs -> Tokens] /\ stored \in [Runs -> Tokens]
  /\ flight \in [pc : {"none", "reading", "read", "writing"}, admitted : BOOLEAN, stored : Tokens, got : Tokens]
  /\ lost \subseteq Grants
Counts == crashes \in 0..MaxCrashes /\ faults \in 0..MaxFaults
Waiters == (\E r \in Runs : at[r] = "waiting") => flight.pc # "none"

\* Nobody has tokens the provider did not give, of a sign-in that has not been.
Given(t) == t.grant <= writes /\ t.n <= last[t.grant]
AllGiven ==
  /\ Given(tokens) /\ Given(flight.stored) /\ \A t \in fresh : t.n <= last[t.grant]
  /\ \A r \in Runs : Given(current[r]) /\ Given(stored[r])
  /\ \A g \in Grants : g > writes => last[g] = 0

\* No run is ahead of the row, nor of what the flight read of it.
Behind(t) ==
  /\ t.grant = tokens.grant => t.n <= tokens.n
  /\ flight.pc \in {"read", "writing"} /\ t.grant = flight.stored.grant => t.n <= flight.stored.n
RunsBehind == \A r \in Runs : Behind(current[r]) /\ Behind(stored[r])

\* What the flight read is the row's still, unless a sign-in came; what it got is the provider's last.
FlightKnows ==
  /\ flight.pc \in {"read", "writing"} => flight.stored = tokens \/ flight.stored.grant # tokens.grant
  /\ flight.pc = "writing" => flight.got = Renewed(flight.stored) /\ Last(flight.got)
  /\ flight.pc = "read" => Last(flight.stored) \/ flight.stored.grant \in lost
RowKnows ==
  kind = "oauth" =>
    \/ Last(tokens)
    \/ flight.pc = "writing" /\ flight.stored = tokens
    \/ tokens.grant \in lost

Inv == Types /\ Counts /\ Waiters /\ AllGiven /\ RunsBehind /\ FlightKnows /\ RowKnows

LEMMA FirstIsTokens == \A g \in Grants : First(g) \in Tokens /\ First(g).grant = g /\ First(g).n = 0
  BY BoundAssumption DEF First, Tokens, Grants

LEMMA NoFlightIs == NoFlight.pc = "none" /\ NoFlight.stored = First(0) /\ NoFlight.got = First(0)
                    /\ NoFlight \in [pc : {"none", "reading", "read", "writing"}, admitted : BOOLEAN, stored : Tokens, got : Tokens]
<1> 0 \in Grants
  BY BoundAssumption DEF Grants
<1> QED BY FirstIsTokens DEF NoFlight

LEMMA TokensAre == \A t \in Tokens : t.grant \in Grants /\ t.grant \in Nat /\ t.n \in 0..MaxRefreshes /\ t.n \in Nat
  BY BoundAssumption DEF Tokens, Grants

\* Tokens with nothing behind them are behind everything and given from the start.
LEMMA FirstIsBehind == Types => Given(First(0)) /\ Behind(First(0))
  BY FirstIsTokens, TokensAre, BoundAssumption DEF Types, Given, Behind, Grants

-----------------------------------------------------------------------------
(* The steps of a run *)

LEMMA RunKeeps == ASSUME Inv, NEW r \in Runs, Select(r) \/ Read(r) \/ Decide(r) \/ RunEnds(r) PROVE Inv'
<1>1. First(0) \in Tokens /\ 0 \in Grants
  BY FirstIsTokens, BoundAssumption DEF Grants
<1>2. UNCHANGED <<row, writes, last, fresh, lost, crashes, faults>>
  BY DEF Select, Read, Decide, RunEnds
<1>3. at' \in [Runs -> {"off", "idle", "read", "waiting"}]
      /\ \A q \in Runs : at'[q] = "waiting" => at[q] = "waiting" \/ flight'.pc # "none"
  BY DEF Select, Read, Decide, RunEnds, Leaves, To, Inv, Types, Joins, Flies
<1>4. /\ current' \in [Runs -> Tokens] /\ stored' \in [Runs -> Tokens]
      /\ \A q \in Runs : current'[q] \in {current[q], stored[q], tokens, First(0)} /\ stored'[q] \in {stored[q], tokens, First(0)}
  BY <1>1, ZenonT(60) DEF Select, Read, Decide, RunEnds, Leaves, To, Inv, Types
<1>5. /\ flight' \in [pc : {"none", "reading", "read", "writing"}, admitted : BOOLEAN, stored : Tokens, got : Tokens]
      /\ \/ flight'.pc = flight.pc /\ flight'.stored = flight.stored /\ flight'.got = flight.got
         \/ flight.pc = "none" /\ flight'.pc = "reading" /\ flight'.stored = First(0)
  <2>1. \/ UNCHANGED flight
        \/ flight.pc = "none" /\ flight' = [pc |-> "reading", admitted |-> TRUE, stored |-> First(0), got |-> First(0)]
        \/ flight' = [pc |-> flight.pc, admitted |-> FALSE, stored |-> flight.stored, got |-> flight.got]
    BY DEF Select, Read, Decide, RunEnds, Joins, Flies, Inv, Types
  <2>2. /\ flight \in [pc : {"none", "reading", "read", "writing"}, admitted : BOOLEAN, stored : Tokens, got : Tokens]
        /\ flight.pc \in {"none", "reading", "read", "writing"} /\ flight.stored \in Tokens /\ flight.got \in Tokens
    BY DEF Inv, Types
  <2>3. CASE UNCHANGED flight
    BY <2>2, <2>3
  <2>4. CASE flight.pc = "none" /\ flight' = [pc |-> "reading", admitted |-> TRUE, stored |-> First(0), got |-> First(0)]
    BY <1>1, <2>4
  <2>5. CASE flight' = [pc |-> flight.pc, admitted |-> FALSE, stored |-> flight.stored, got |-> flight.got]
    BY <2>2, <2>5
  <2> QED BY <2>1, <2>3, <2>4, <2>5
<1>6. Types' /\ Counts'
  BY <1>2, <1>3, <1>4, <1>5 DEF Inv, Types, Counts, row
<1>7. Waiters'
  BY <1>3, <1>5 DEF Inv, Waiters
<1>8. AllGiven'
  BY <1>2, <1>4, <1>5, FirstIsBehind DEF Inv, AllGiven, Given, row
<1>9. RunsBehind'
  <2>1. Behind(tokens)
    BY TokensAre DEF Inv, FlightKnows, Behind, Types
  <2>2. \A t : Behind(t) => Behind(t)'
    BY <1>2, <1>5 DEF Behind, row
  <2>3. \A q \in Runs : Behind(current'[q]) /\ Behind(stored'[q])
    BY <1>4, <2>1, FirstIsBehind DEF Inv, RunsBehind
  <2> QED BY <1>2, <1>5, <2>3 DEF RunsBehind, Behind, row
<1>10. FlightKnows' /\ RowKnows'
  BY <1>2, <1>5 DEF Inv, FlightKnows, RowKnows, Last, row
<1> QED BY <1>6, <1>7, <1>8, <1>9, <1>10 DEF Inv

-----------------------------------------------------------------------------
(* The steps of the flight *)

\* What is given, when the provider gives no more.
KeepsGiven ==
  /\ last' \in [Grants -> 0..MaxRefreshes] /\ fresh' \subseteq Tokens
  /\ \A t \in Tokens : Given(t) => Given(t)'
  /\ \A t \in fresh' : t.n <= last'[t.grant]
  /\ \A g \in Grants : g > writes => last'[g] = 0
LEMMA SameIsGiven == Inv /\ UNCHANGED <<last, fresh, writes>> => KeepsGiven
  BY DEF Inv, Types, AllGiven, KeepsGiven, Given

\* However a flight ends: what it wrote, or nothing, is in the row, and no run is ahead of it.
LEMMA EndsKeeps ==
  ASSUME Inv, KeepsGiven, flight' = NoFlight, UNCHANGED <<kind, writes>>,
         at' \in [Runs -> {"off", "idle", "read", "waiting"}], \A r \in Runs : at'[r] # "waiting",
         current' \in [Runs -> Tokens], stored' \in [Runs -> Tokens],
         crashes' \in 0..MaxCrashes, faults' \in 0..MaxFaults, lost' \subseteq Grants,
         tokens' = tokens \/ (flight.pc = "writing" /\ tokens' = flight.got),
         \A r \in Runs : \/ current'[r] \in {current[r], First(0)}
                         \/ flight.pc = "read" /\ current'[r] = flight.stored /\ tokens' = tokens
                         \/ current'[r] = flight.got /\ tokens' = flight.got /\ flight.pc = "writing",
         \A r \in Runs : stored'[r] \in {stored[r], First(0)},
         kind = "oauth" => Last(tokens)' \/ tokens'.grant \in lost'
  PROVE  Inv'
<1>1. flight.stored \in Tokens /\ flight.got \in Tokens /\ tokens \in Tokens /\ Types /\ tokens' \in Tokens
  BY DEF Inv, Types
<1>2. flight.pc = "writing" => Given(flight.got) /\ flight.got.grant = flight.stored.grant /\ flight.got.n = flight.stored.n + 1
  BY <1>1, TokensAre DEF Inv, FlightKnows, Last, Given, Renewed, AllGiven, Types
<1>3. Types' /\ Counts'
  BY <1>1, NoFlightIs DEF Inv, Types, Counts, KeepsGiven
<1>4. Waiters'
  BY DEF Waiters
<1>5. AllGiven'
  <2>1. Given(tokens)' /\ Given(First(0))'
    BY <1>1, <1>2, FirstIsTokens, FirstIsBehind, BoundAssumption DEF KeepsGiven, Inv, AllGiven, Given, Grants
  <2>2. Given(flight.stored)'
    BY <2>1, NoFlightIs DEF Given
  <2>3. \A r \in Runs : Given(current[r])' /\ Given(stored[r])'
    <3> SUFFICES ASSUME NEW r \in Runs PROVE Given(current[r])' /\ Given(stored[r])'
      OBVIOUS
    <3>1. /\ \A t \in {current[r], stored[r], flight.stored} : t \in Tokens /\ Given(t)
          /\ flight.pc = "writing" => Given(flight.got)
      BY <1>1, <1>2 DEF Inv, AllGiven, Types
    <3>2. /\ \A t \in {current[r], stored[r], flight.stored, First(0)} : t.grant <= writes' /\ t.n <= last'[t.grant]
          /\ flight.pc = "writing" => flight.got.grant <= writes' /\ flight.got.n <= last'[flight.got.grant]
      BY <1>1, <2>1, <3>1 DEF KeepsGiven, Given
    <3>3. current'[r] \in {current[r], First(0), flight.stored} \/ (flight.pc = "writing" /\ current'[r] = flight.got)
      OBVIOUS
    <3>4. Given(current[r])'
      BY <3>2, <3>3 DEF Given
    <3>5. Given(stored[r])'
      BY <3>2 DEF Given
    <3> QED BY <3>4, <3>5
  <2> QED BY <2>1, <2>2, <2>3 DEF KeepsGiven, AllGiven
<1>6. RunsBehind'
  <2> SUFFICES ASSUME NEW r \in Runs PROVE Behind(current[r])' /\ Behind(stored[r])'
    BY DEF RunsBehind
  <2>1. \A t \in Tokens : Behind(t) => (t.grant = tokens'.grant => t.n <= tokens'.n)
    BY <1>1, <1>2, TokensAre DEF Behind
  <2>2. Behind(current[r]) /\ Behind(stored[r]) /\ Behind(First(0)) /\ current[r] \in Tokens /\ stored[r] \in Tokens
    BY <1>1, FirstIsBehind DEF Inv, RunsBehind, Types
  <2>3. flight.pc = "read" => flight.stored = tokens \/ flight.stored.grant # tokens.grant
    BY DEF Inv, FlightKnows
  <2>4. First(0) \in Tokens
    BY FirstIsTokens, BoundAssumption DEF Grants
  <2>5. current'[r].grant = tokens'.grant => current'[r].n <= tokens'.n
    BY <1>1, <2>1, <2>2, <2>3, <2>4, TokensAre
  <2>6. stored'[r].grant = tokens'.grant => stored'[r].n <= tokens'.n
    BY <2>1, <2>2, <2>4
  <2> QED BY <2>5, <2>6, NoFlightIs DEF Behind
<1>7. FlightKnows'
  BY NoFlightIs DEF FlightKnows
<1>8. RowKnows'
  BY DEF RowKnows
<1> QED BY <1>3, <1>4, <1>5, <1>6, <1>7, <1>8 DEF Inv

\* What every end of a flight does to the runs.
LEMMA LandsRuns ==
  ASSUME Inv, Lands
  PROVE  /\ flight' = NoFlight /\ stored' \in [Runs -> Tokens] /\ \A r \in Runs : stored'[r] = stored[r]
         /\ at' \in [Runs -> {"off", "idle", "read", "waiting"}] /\ \A r \in Runs : at'[r] # "waiting"
  BY DEF Lands, Inv, Types

LEMMA FailsKeeps ==
  ASSUME Inv, Fails, KeepsGiven, UNCHANGED <<row, writes, crashes>>, Faulty \/ UNCHANGED faults, lost' \subseteq Grants,
         kind = "oauth" => Last(tokens)' \/ tokens'.grant \in lost'
  PROVE  Inv'
<1>1. faults' \in 0..MaxFaults /\ crashes' \in 0..MaxCrashes
  BY BoundAssumption DEF Faulty, Inv, Counts
<1>2. current' \in [Runs -> Tokens] /\ \A r \in Runs : current'[r] = current[r]
  BY DEF Fails, Inv, Types
<1>3. Lands /\ UNCHANGED <<kind, writes>> /\ tokens' = tokens
  BY DEF Fails, row
<1> QED BY <1>1, <1>2, <1>3, LandsRuns, EndsKeeps

LEMMA FlightReadsKeeps == ASSUME Inv, FlightReads PROVE Inv'
<1>1. CASE Flies("read", TRUE, tokens, First(0)) /\ kind = "oauth" /\ UNCHANGED <<held, faults>>
  <2>1. UNCHANGED <<row, writes, last, fresh, lost, crashes, at, current, stored, faults>>
    BY <1>1 DEF FlightReads, held
  <2>2. flight' = [pc |-> "read", admitted |-> TRUE, stored |-> tokens, got |-> First(0)]
    BY <1>1 DEF Flies
  <2>3. First(0) \in Tokens
    BY FirstIsTokens, BoundAssumption DEF Grants
  <2>4. Types' /\ Counts'
    BY <2>1, <2>2, <2>3 DEF Inv, Types, Counts, row
  <2>5. Waiters' /\ AllGiven'
    BY <2>1, <2>2 DEF Inv, Waiters, AllGiven, Given, row
  <2>6. RunsBehind'
    BY <2>1, <2>2 DEF Inv, RunsBehind, Behind, row
  <2>7. FlightKnows' /\ RowKnows'
    BY <1>1, <2>1, <2>2 DEF FlightReads, Inv, FlightKnows, RowKnows, Last, row
  <2> QED BY <2>4, <2>5, <2>6, <2>7 DEF Inv
<1>2. CASE Fails
  <2>1. UNCHANGED <<row, writes, last, fresh, lost, crashes>> /\ (Faulty \/ UNCHANGED faults)
    BY <1>2 DEF FlightReads
  <2>2. kind = "oauth" => Last(tokens)' \/ tokens'.grant \in lost'
    BY <2>1 DEF FlightReads, Inv, RowKnows, Last, row
  <2> QED BY <1>2, <2>1, <2>2, SameIsGiven, FailsKeeps DEF Inv, Types
<1> QED BY <1>1, <1>2 DEF FlightReads

LEMMA AdoptsKeeps == ASSUME Inv, Adopts PROVE Inv'
<1>1. UNCHANGED <<row, writes, last, fresh, lost, crashes, faults>> /\ Lands /\ flight.pc = "read" /\ flight.stored \in Tokens
  BY DEF Adopts, Answers, Inv, Types
<1>2. current' \in [Runs -> Tokens] /\ \A r \in Runs : current'[r] = current[r] \/ current'[r] = flight.stored
  BY <1>1 DEF Adopts, Answers, Inv, Types
<1>3. kind = "oauth" => Last(tokens)' \/ tokens'.grant \in lost'
  BY <1>1 DEF Inv, RowKnows, Last, row
<1>4. crashes' \in 0..MaxCrashes /\ faults' \in 0..MaxFaults /\ lost' \subseteq Grants /\ tokens' = tokens /\ UNCHANGED <<kind, writes>>
  BY <1>1 DEF Inv, Counts, Types, row
<1> QED BY <1>1, <1>2, <1>3, <1>4, SameIsGiven, LandsRuns, EndsKeeps

\* The provider takes the last refresh token of a grant and gives the next.
LEMMA SpendsGives ==
  ASSUME Types, NEW t \in Tokens, Last(t), Spends(t)
  PROVE  /\ Renewed(t) \in Tokens /\ Renewed(t).grant = t.grant /\ Renewed(t).n = t.n + 1
         /\ last' \in [Grants -> 0..MaxRefreshes] /\ fresh' \subseteq Tokens /\ fresh' = fresh \cup {Renewed(t)}
         /\ last'[t.grant] = t.n + 1 /\ \A g \in Grants : g # t.grant => last'[g] = last[g]
<1>1. t.grant \in Grants /\ t.n \in 0..MaxRefreshes /\ t.n < MaxRefreshes /\ t.n + 1 \in 0..MaxRefreshes /\ last[t.grant] + 1 = t.n + 1
  BY TokensAre, BoundAssumption DEF Spends, Last
<1>2. Renewed(t) \in Tokens /\ Renewed(t).grant = t.grant /\ Renewed(t).n = t.n + 1
  BY <1>1 DEF Renewed, Tokens
<1> QED BY <1>1, <1>2 DEF Spends, Types

\* Tokens that were given stay so when the provider gives more.
LEMMA SpendsKeepsGiven ==
  ASSUME Inv, Last(flight.stored), Spends(flight.stored), UNCHANGED writes
  PROVE  KeepsGiven
<1>1. flight.stored \in Tokens /\ Types
  BY DEF Inv, Types
<1>2. \A t \in Tokens : last'[t.grant] >= last[t.grant] /\ t.n \in Nat /\ last[t.grant] \in Nat /\ last'[t.grant] \in Nat
  BY <1>1, SpendsGives, TokensAre, BoundAssumption DEF Types, Last
<1>3. \A t \in Tokens : Given(t) => Given(t)'
  BY <1>2 DEF Given
<1>4. \A t \in fresh' : t.n <= last'[t.grant]
  BY <1>1, <1>2, SpendsGives DEF Inv, AllGiven, Types
<1>5. \A g \in Grants : g > writes => last'[g] = 0
  BY <1>1, SpendsGives, TokensAre, BoundAssumption DEF Inv, AllGiven, Types, Given, Grants
<1> QED BY <1>1, <1>3, <1>4, <1>5, SpendsGives DEF KeepsGiven

LEMMA RefreshKeeps == ASSUME Inv, Refresh PROVE Inv'
<1> DEFINE t == flight.stored
<1>1. t \in Tokens /\ Types /\ UNCHANGED <<row, writes, crashes>> /\ flight.pc = "read"
  BY DEF Refresh, Inv, Types
<1>2. CASE Last(t) /\ Spends(t) /\ Flies("writing", flight.admitted, t, Renewed(t)) /\ UNCHANGED <<held, lost, faults>>
  <2>1. UNCHANGED <<row, writes, crashes, at, current, stored, lost, faults>>
    BY <1>1, <1>2 DEF held
  <2>2. flight' = [pc |-> "writing", admitted |-> flight.admitted, stored |-> t, got |-> Renewed(t)]
    BY <1>2 DEF Flies
  <2>3. flight' \in [pc : {"none", "reading", "read", "writing"}, admitted : BOOLEAN, stored : Tokens, got : Tokens]
    BY <1>1, <1>2, <2>2, SpendsGives DEF Types
  <2>4. Types' /\ Counts'
    BY <1>1, <1>2, <2>1, <2>3, SpendsGives DEF Inv, Types, Counts, row
  <2>5. Waiters'
    BY <2>1, <2>2 DEF Waiters
  <2>6. AllGiven'
    BY <1>1, <1>2, <2>1, <2>2, SpendsKeepsGiven DEF Inv, AllGiven, Types, Given, KeepsGiven, row
  <2>7. RunsBehind'
    BY <1>1, <2>1, <2>2 DEF Inv, RunsBehind, Behind, row
  <2>8. FlightKnows' /\ RowKnows'
    BY <1>1, <1>2, <2>1, <2>2, SpendsGives, TokensAre DEF Inv, FlightKnows, RowKnows, Last, Types, row
  <2> QED BY <2>4, <2>5, <2>6, <2>7, <2>8 DEF Inv
<1>3. CASE Fails /\ UNCHANGED <<last, fresh, lost>> /\ (Faulty \/ UNCHANGED faults)
  <2>1. kind = "oauth" => Last(tokens)' \/ tokens'.grant \in lost'
    BY <1>1, <1>3 DEF Inv, RowKnows, Last, row
  <2> QED BY <1>1, <1>3, <2>1, SameIsGiven, FailsKeeps DEF Types
<1>4. CASE Faulty /\ Last(t) /\ Spends(t) /\ Fails /\ lost' = lost \cup {t.grant}
  <2>1. KeepsGiven
    BY <1>1, <1>4, SpendsKeepsGiven
  <2>2. kind = "oauth" => Last(tokens)' \/ tokens'.grant \in lost'
    BY <1>1, <1>4, SpendsGives, TokensAre DEF Inv, RowKnows, FlightKnows, Last, Types, row
  <2>3. lost' \subseteq Grants
    BY <1>1, <1>4, TokensAre DEF Types
  <2> QED BY <1>1, <1>4, <2>1, <2>2, <2>3, FailsKeeps
<1> QED BY <1>2, <1>3, <1>4 DEF Refresh

LEMMA PersistKeeps == ASSUME Inv, Persist PROVE Inv'
<1>1. /\ Types /\ flight.pc = "writing" /\ UNCHANGED <<writes, last, fresh, crashes>> /\ crashes' \in 0..MaxCrashes
      /\ flight.got \in Tokens /\ flight.got = Renewed(flight.stored) /\ Last(flight.got) /\ KeepsGiven
      /\ flight.got.grant = flight.stored.grant /\ flight.got.grant \in Grants
  BY SameIsGiven, TokensAre DEF Persist, Inv, Counts, Types, FlightKnows, Renewed
<1>2. faults' \in 0..MaxFaults
  BY BoundAssumption DEF Persist, Faulty, Inv, Counts
<1>3. CASE Rewritten /\ (Answers(flight.got) \/ Fails) /\ UNCHANGED lost
  <2>1. Lands /\ UNCHANGED <<kind, writes>> /\ tokens' = flight.got /\ lost' \subseteq Grants
    BY <1>1, <1>3 DEF Answers, Fails, Rewritten, Types
  <2>2. current' \in [Runs -> Tokens] /\ \A r \in Runs : current'[r] = current[r] \/ current'[r] = flight.got
    BY <1>1, <1>3 DEF Answers, Fails, Types
  <2>3. Last(tokens)'
    BY <1>1, <2>1 DEF Last
  <2> QED BY <1>1, <1>2, <2>1, <2>2, <2>3, LandsRuns, EndsKeeps
<1>4. CASE Fails /\ UNCHANGED row /\ ((~Rewrites /\ UNCHANGED lost) \/ lost' = lost \cup {flight.got.grant})
  <2>1. kind = "oauth" => Last(tokens)' \/ tokens'.grant \in lost'
    BY <1>1, <1>4 DEF Inv, RowKnows, Rewrites, Last, row
  <2>2. (Faulty \/ UNCHANGED faults) /\ lost' \subseteq Grants
    BY <1>1, <1>4 DEF Persist, Types
  <2> QED BY <1>1, <1>4, <2>1, <2>2, FailsKeeps
<1> QED BY <1>3, <1>4 DEF Persist

LEMMA StopKeeps == ASSUME Inv, Stop PROVE Inv'
<1> DEFINE t == flight.stored
<1>1. /\ First(0) \in Tokens /\ Types /\ t \in Tokens /\ t.grant \in Grants
      /\ flight.pc = "writing" => flight.got \in Tokens /\ Last(flight.got) /\ flight.got.grant = t.grant
  BY FirstIsTokens, TokensAre, BoundAssumption DEF Inv, Types, Grants, FlightKnows, Renewed
<1>2. /\ flight' = NoFlight /\ at' = [r \in Runs |-> "off"] /\ current' = [r \in Runs |-> First(0)]
      /\ stored' = [r \in Runs |-> First(0)] /\ UNCHANGED <<writes, faults>>
      /\ crashes' \in 0..MaxCrashes /\ faults' \in 0..MaxFaults
  BY BoundAssumption DEF Stop, Inv, Counts
<1>3. ASSUME KeepsGiven, UNCHANGED kind, tokens' = tokens \/ (flight.pc = "writing" /\ tokens' = flight.got), lost' \subseteq Grants,
             kind = "oauth" => Last(tokens)' \/ tokens'.grant \in lost' PROVE Inv'
  BY <1>1, <1>2, <1>3, EndsKeeps
<1>4. CASE flight.pc # "writing" /\ UNCHANGED <<row, last, fresh, lost>>
  <2>1. kind = "oauth" => Last(tokens)' \/ tokens'.grant \in lost'
    BY <1>4 DEF Inv, RowKnows, Last, row
  <2> QED BY <1>1, <1>2, <1>3, <1>4, <2>1, SameIsGiven DEF row, Types
<1>5. CASE flight.pc = "read" /\ Last(t) /\ Spends(t) /\ lost' = lost \cup {t.grant} /\ UNCHANGED row
  <2>1. kind = "oauth" => Last(tokens)' \/ tokens'.grant \in lost'
    BY <1>1, <1>5, SpendsGives, TokensAre DEF Inv, RowKnows, FlightKnows, Last, Types, row
  <2> QED BY <1>1, <1>2, <1>3, <1>5, <2>1, SpendsKeepsGiven DEF row, Types
<1>6. CASE flight.pc = "writing" /\ Rewritten /\ UNCHANGED <<last, fresh, lost>>
  <2>1. Last(tokens)'
    BY <1>1, <1>6 DEF Rewritten, Last
  <2> QED BY <1>1, <1>2, <1>3, <1>6, <2>1, SameIsGiven DEF Rewritten, Types
<1>7. CASE flight.pc = "writing" /\ lost' = lost \cup {t.grant} /\ UNCHANGED <<row, last, fresh>>
  <2>1. kind = "oauth" => Last(tokens)' \/ tokens'.grant \in lost'
    BY <1>7 DEF Inv, RowKnows, Last, row
  <2> QED BY <1>1, <1>2, <1>3, <1>7, <2>1, SameIsGiven DEF row, Types
<1> QED BY <1>4, <1>5, <1>6, <1>7 DEF Stop

-----------------------------------------------------------------------------
(* The person and time *)

LEMMA SignInKeeps == ASSUME Inv, SignIn PROVE Inv'
<1>1. /\ writes' = writes + 1 /\ writes' \in Grants /\ writes \in Nat /\ kind' = "oauth" /\ tokens' = First(writes')
      /\ fresh' = fresh \cup {tokens'} /\ UNCHANGED <<last, at, current, stored, flight, lost, crashes, faults>>
  BY BoundAssumption DEF SignIn, Inv, Types, Grants, held
<1>2. tokens' \in Tokens /\ tokens'.grant = writes' /\ tokens'.n = 0 /\ last[writes'] = 0
  BY <1>1, FirstIsTokens DEF Inv, AllGiven, Types
<1>3. Types' /\ Counts'
  BY <1>1, <1>2 DEF Inv, Types, Counts
<1>4. Waiters'
  BY <1>1 DEF Inv, Waiters
<1>5. \A t \in Tokens : Given(t) => Given(t)' /\ t.grant # tokens'.grant
  BY <1>1, <1>2, TokensAre DEF Given
<1>6. AllGiven'
  <2>1. Given(tokens)'
    BY <1>1, <1>2 DEF Given
  <2>2. Given(flight.stored)' /\ \A r \in Runs : Given(current[r])' /\ Given(stored[r])'
    BY <1>1, TokensAre DEF Inv, Types, AllGiven, Given
  <2>3. \A t \in fresh' : t.n <= last'[t.grant]
    BY <1>1, <1>2 DEF Inv, AllGiven
  <2>4. \A g \in Grants : g > writes' => last'[g] = 0
    BY <1>1 DEF Inv, AllGiven, Grants
  <2> QED BY <2>1, <2>2, <2>3, <2>4 DEF AllGiven
<1>7. RunsBehind'
  BY <1>1, <1>5 DEF Inv, Types, AllGiven, RunsBehind, Behind
<1>8. FlightKnows' /\ RowKnows'
  BY <1>1, <1>2, <1>5 DEF Inv, Types, AllGiven, FlightKnows, RowKnows, Last
<1> QED BY <1>3, <1>4, <1>6, <1>7, <1>8 DEF Inv

LEMMA SetApiKeyKeeps == ASSUME Inv, SetApiKey PROVE Inv'
<1>1. /\ writes' = writes + 1 /\ writes' \in Grants /\ writes \in Nat /\ kind' = "api_key"
      /\ UNCHANGED <<tokens, last, fresh, at, current, stored, flight, lost, crashes, faults>>
  BY BoundAssumption DEF SetApiKey, Inv, Types, Grants, held
<1>2. Types' /\ Counts' /\ Waiters'
  BY <1>1 DEF Inv, Types, Counts, Waiters
<1>3. AllGiven'
  BY <1>1, TokensAre DEF Inv, Types, AllGiven, Given, Grants
<1>4. RunsBehind' /\ FlightKnows' /\ RowKnows'
  BY <1>1 DEF Inv, RunsBehind, Behind, FlightKnows, RowKnows, Last
<1> QED BY <1>2, <1>3, <1>4 DEF Inv

LEMMA ExpiresKeeps == ASSUME Inv, Expires \/ UNCHANGED vars PROVE Inv'
<1>1. UNCHANGED <<kind, tokens, writes, last, at, current, stored, flight, lost, crashes, faults>> /\ fresh' \subseteq fresh
  BY DEF Expires, vars, row, held
<1> QED BY <1>1 DEF Inv, Types, Counts, Waiters, AllGiven, Given, RunsBehind, Behind, FlightKnows, RowKnows, Last

-----------------------------------------------------------------------------
(* The theorems *)

LEMMA InvInit == Init => Inv
<1> SUFFICES ASSUME Init PROVE Inv
  OBVIOUS
<1>1. First(0) \in Tokens /\ First(0).grant = 0 /\ First(0).n = 0 /\ 0 \in Grants
  BY FirstIsTokens, BoundAssumption DEF Grants
<1>2. Types /\ Counts /\ Waiters
  BY <1>1, NoFlightIs, BoundAssumption DEF Init, Types, Counts, Waiters
<1>3. AllGiven /\ RunsBehind
  BY <1>1, NoFlightIs, BoundAssumption DEF Init, AllGiven, Given, RunsBehind, Behind, Grants
<1>4. FlightKnows /\ RowKnows
  BY <1>1, NoFlightIs DEF Init, FlightKnows, RowKnows, Last
<1> QED BY <1>2, <1>3, <1>4 DEF Inv

LEMMA InvStep == Inv /\ [Next]_vars => Inv'
  BY RunKeeps, FlightReadsKeeps, AdoptsKeeps, RefreshKeeps, PersistKeeps, StopKeeps, SignInKeeps, SetApiKeyKeeps,
     ExpiresKeeps DEF Next

LEMMA InvHolds == Spec => []Inv
  BY InvInit, InvStep, PTL DEF Spec

\* Every variable keeps its type, and nobody waits for a refresh that is not under way (oauth-holds.ts refreshing).
THEOREM AccountTypeCorrect == Spec => []TypeOK
<1>1. Inv => TypeOK
  BY DEF Inv, Types, Counts, Waiters, AllGiven, Given, TypeOK
<1> QED BY <1>1, InvHolds, PTL

\* The row has the last tokens of its grant, or the flight that writes them does (accounts.ts rewrite, oauth-holds.ts renew).
THEOREM RowIsUpToDate == Spec => []RowHasTheLastTokens
<1>1. Inv => RowHasTheLastTokens
  BY DEF Inv, RowKnows, RunsBehind, Behind, RowHasTheLastTokens
<1> QED BY <1>1, InvHolds, PTL

\* No refresh token is sent to the provider twice (oauth-holds.ts renew, refreshing).
THEOREM RefreshTokenIsSpentOnce == Spec => SpentTokenIsNotSentAgain
<1>1. Inv /\ [Next]_vars => [Refresh /\ ~Last(flight.stored) => flight.stored.grant \in lost]_vars
  BY DEF Inv, FlightKnows, Refresh
<1> QED BY <1>1, InvHolds, PTL DEF Spec, SpentTokenIsNotSentAgain
=============================================================================
