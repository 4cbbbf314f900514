------------------------ MODULE ConnectorCalls_proofs ------------------------
(***************************************************************************)
(* Proofs about a Project's calls to its Connections, for any number of     *)
(* calls, Connections and tokens: types, the token cache and the lanes.     *)
(***************************************************************************)
EXTENDS ConnectorCalls, TLAPS, FiniteSetTheorems, SequenceTheorems

StoreTypes ==
  /\ bound \subseteq enabled /\ enabled \subseteq Connections
  /\ forgotten \subseteq Connections \ enabled /\ orphans \subseteq Tokens
CacheTypes ==
  /\ entry \in [Connections -> {NoEntry} \cup [state : {"issuing", "live"}, token : Tokens]]
  /\ issue \in [Tokens -> {"unused", "reading", "authenticating", "issued", "failed"}]
  /\ serves \in [Tokens -> Connections \cup {0}] /\ began \in [Tokens -> Calls \cup {0}]
  /\ old \subseteq Tokens /\ dead \subseteq Tokens
WorkTypes ==
  /\ lane \in [Tokens -> Seq(Calls)]
  /\ call \in [Calls -> Waiting \cup {"idle", "done"}] /\ of \in [Calls -> Connections \cup {0}]
  /\ attempt \in [Calls -> 0..2] /\ token \in [Calls -> Tokens \cup {0}]
  /\ aborted \subseteq Calls /\ answered \subseteq Calls
ScopeTypes == spent \in 0..Budget /\ revoked \in BOOLEAN

InLane(k, s) == \E i \in 1..Len(s) : s[i] = k

\* A call that works has its Connection and its token; one that sends is first in the token's lane.
WorkKnows ==
  \A k \in Calls :
    /\ call[k] \in Waiting => of[k] \in Connections
    /\ call[k] \in Waiting \ {"listing"} => token[k] \in Tokens
    /\ call[k] = "sending" => lane[token[k]] # <<>> /\ Head(lane[token[k]]) = k
    /\ call[k] = "queued" => InLane(k, lane[token[k]])

\* An entry that waits for an authentication has one of its own under way.
EntryKnows ==
  /\ \A c \in Connections : entry[c].state = "issuing" => serves[entry[c].token] = c /\ InFlight(entry[c].token)
  /\ \A t \in Tokens : InFlight(t) => serves[t] \in Connections

\* What is under way for a forgotten Connection has yet to read its credential, or is not the entry's.
ForgottenKnows ==
  \A c \in forgotten :
    /\ entry[c].state # "live"
    /\ entry[c].state = "issuing" => issue[entry[c].token] = "reading"

\* Only a forget leaves an authentication behind that is not its entry's; one of a Connection has the credential.
OrphansKnow ==
  /\ \A t \in Tokens : InFlight(t) /\ t \notin orphans => Own(t)
  /\ \A t \in orphans : issue[t] # "unused" /\ serves[t] \in forgotten
  /\ \A t, u \in Tokens : issue[t] = "authenticating" /\ issue[u] = "authenticating" /\ serves[t] = serves[u] => t = u

CacheInv == StoreTypes /\ CacheTypes /\ EntryKnows /\ ForgottenKnows /\ OrphansKnow
WorkInv == WorkTypes /\ ScopeTypes /\ WorkKnows
Inv == CacheInv /\ WorkInv

LEMMA NextTokenUnissued == Unissued # {} => NextToken \in Tokens /\ issue[NextToken] = "unused"
  BY DEF Unissued, NextToken

LEMMA EntriesAre ==
  /\ \A t \in Tokens : /\ IssuingEntry(t).state = "issuing" /\ IssuingEntry(t).token = t
                       /\ LiveEntry(t).state = "live" /\ LiveEntry(t).token = t
                       /\ {IssuingEntry(t), LiveEntry(t)} \subseteq [state : {"issuing", "live"}, token : Tokens]
  /\ NoEntry.state = "none"
  /\ \A e \in {NoEntry} \cup [state : {"issuing", "live"}, token : Tokens] :
       /\ e.state = "issuing" => e.token \in Tokens /\ e = IssuingEntry(e.token)
       /\ e.state = "live" => e.token \in Tokens /\ e = LiveEntry(e.token)
  BY DEF IssuingEntry, LiveEntry, NoEntry

\* Own, read off the entry.
LEMMA OwnIs == CacheTypes => \A t \in Tokens : serves[t] \in Connections =>
                 (Own(t) <=> entry[serves[t]].state = "issuing" /\ entry[serves[t]].token = t)
  BY EntriesAre DEF CacheTypes, Own

-----------------------------------------------------------------------------
(* What a lease does to the cache *)

LEMMA AcquireDoes ==
  ASSUME CacheTypes, NEW k \in Calls, NEW c \in Connections, NEW n, Acquire(k, c, n)
  PROVE  \/ /\ entry[c].token \in Tokens /\ Leases(k, n, entry[c].token) /\ UNCHANGED <<entry, issuing>>
         \/ \E t \in Tokens :
              /\ issue[t] = "unused" /\ entry[c].state # "issuing" /\ (entry[c].state = "live" => entry[c].token \in old)
              /\ issue' = [issue EXCEPT ![t] = "reading"] /\ serves' = [serves EXCEPT ![t] = c]
              /\ began' = [began EXCEPT ![t] = k] /\ entry' = [entry EXCEPT ![c] = IssuingEntry(t)]
              /\ Leases(k, n, t)
<1>1. CASE Usable(c) /\ Leases(k, n, entry[c].token) /\ UNCHANGED <<entry, issuing>>
  BY <1>1, EntriesAre DEF Usable, CacheTypes
<1>2. CASE ~Usable(c) /\ Begins(c, k) /\ entry' = [entry EXCEPT ![c] = IssuingEntry(NextToken)] /\ Leases(k, n, NextToken)
  BY <1>2, NextTokenUnissued DEF Usable, Begins
<1> QED BY <1>1, <1>2 DEF Acquire

LEMMA BeginKeeps ==
  ASSUME CacheInv, UNCHANGED <<store, old, dead>>, NEW k \in Calls, NEW c \in Connections, NEW t \in Tokens,
         issue[t] = "unused", entry[c].state # "issuing",
         issue' = [issue EXCEPT ![t] = "reading"], serves' = [serves EXCEPT ![t] = c],
         began' = [began EXCEPT ![t] = k], entry' = [entry EXCEPT ![c] = IssuingEntry(t)]
  PROVE  CacheInv'
<1>1. StoreTypes' /\ CacheTypes'
  BY EntriesAre DEF CacheInv, StoreTypes, CacheTypes, store, forgets
<1>2. EntryKnows'
  BY EntriesAre DEF CacheInv, CacheTypes, EntryKnows, InFlight
<1>3. ForgottenKnows'
  BY EntriesAre DEF CacheInv, CacheTypes, StoreTypes, EntryKnows, ForgottenKnows, InFlight, store, forgets
<1>4. \A u \in Tokens : InFlight(u)' => u = t \/ (InFlight(u) /\ serves'[u] = serves[u])
  BY DEF CacheInv, CacheTypes, InFlight
<1>5. Own(t)' /\ \A u \in Tokens : u # t /\ InFlight(u) => (Own(u)' <=> Own(u))
  BY EntriesAre DEF CacheInv, CacheTypes, EntryKnows, Own
<1>6. \A u \in orphans : u # t /\ u \in Tokens /\ issue'[u] = issue[u] /\ serves'[u] = serves[u]
  BY DEF CacheInv, StoreTypes, CacheTypes, OrphansKnow
<1>7. \A u \in Tokens : issue'[u] = "authenticating" => issue[u] = "authenticating" /\ serves'[u] = serves[u]
  BY DEF CacheInv, CacheTypes
<1>8. OrphansKnow'
  BY <1>4, <1>5, <1>6, <1>7 DEF CacheInv, OrphansKnow, store, forgets
<1> QED BY <1>1, <1>2, <1>3, <1>8 DEF CacheInv

LEMMA SameCache == CacheInv /\ UNCHANGED <<store, entry, issuing>> /\ old' \subseteq Tokens /\ dead' \subseteq Tokens => CacheInv'
  BY DEF CacheInv, StoreTypes, CacheTypes, EntryKnows, ForgottenKnows, OrphansKnow, InFlight, Own, store, forgets, issuing

LEMMA AcquireKeeps ==
  ASSUME CacheInv, NEW k \in Calls, NEW c \in Connections, NEW n, Acquire(k, c, n), UNCHANGED <<store, old, dead>>
  PROVE  CacheInv'
  BY AcquireDoes, BeginKeeps, SameCache DEF CacheInv, CacheTypes

-----------------------------------------------------------------------------
(* Authentications *)

LEMMA SettlesKeeps ==
  ASSUME CacheInv, NEW t \in Tokens, InFlight(t), UNCHANGED <<store, serves, began, old, dead>>,
         NEW o \in {"issued", "failed"}, NEW e, Settles(t, o, e),
         e = NoEntry \/ (e = LiveEntry(t) /\ issue[t] = "authenticating")
  PROVE  CacheInv'
<1>0. serves[t] \in Connections /\ CacheTypes /\ StoreTypes
  BY DEF CacheInv, EntryKnows
<1>1. StoreTypes' /\ CacheTypes'
  BY <1>0, EntriesAre DEF Settles, CacheInv, StoreTypes, CacheTypes, store, forgets
<1>2. \A u \in Tokens : InFlight(u)' => u # t /\ InFlight(u)
  BY <1>0 DEF Settles, CacheTypes, InFlight
<1>3. \A c \in Connections : entry'[c] = entry[c] \/ (entry[c] = IssuingEntry(t) /\ c = serves[t] /\ entry'[c] = e)
  BY <1>0 DEF Settles, CacheTypes, Own
<1>4. e.state # "issuing"
  BY EntriesAre
<1>5. \A c \in Connections : entry[c].state = "issuing" /\ entry[c].token = t => c = serves[t] /\ Own(t)
  BY <1>0, OwnIs DEF CacheInv, EntryKnows
<1>6. \A c \in Connections : entry'[c].state = "issuing" => entry'[c] = entry[c] /\ entry[c].token # t /\ entry[c].token \in Tokens
  BY <1>0, <1>3, <1>4, <1>5, EntriesAre DEF Settles, CacheTypes
<1>7. EntryKnows'
  BY <1>0, <1>2, <1>6 DEF CacheInv, EntryKnows, InFlight, Settles, CacheTypes
<1>8. ForgottenKnows'
  <2> SUFFICES ASSUME NEW c \in forgotten
               PROVE entry'[c].state # "live" /\ (entry'[c].state = "issuing" => issue'[entry'[c].token] = "reading")
    BY DEF ForgottenKnows, store, forgets
  <2>1. c \in Connections
    BY <1>0 DEF StoreTypes
  <2>2. CASE entry'[c] = entry[c]
    BY <1>0, <1>6, <2>1, <2>2 DEF CacheInv, ForgottenKnows, Settles, CacheTypes
  <2>3. CASE entry[c] = IssuingEntry(t) /\ entry'[c] = e
    BY <2>3, EntriesAre DEF CacheInv, ForgottenKnows
  <2> QED BY <1>3, <2>1, <2>2, <2>3
<1>9. \A u \in Tokens : InFlight(u)' => (Own(u)' <=> Own(u))
  <2> SUFFICES ASSUME NEW u \in Tokens, InFlight(u)' PROVE Own(u)' <=> Own(u)
    OBVIOUS
  <2>1. u # t /\ InFlight(u) /\ serves[u] \in Connections /\ serves'[u] = serves[u]
    BY <1>2 DEF CacheInv, EntryKnows
  <2>2. CASE entry'[serves[u]] = entry[serves[u]]
    BY <2>1, <2>2 DEF Own
  <2>3. CASE entry[serves[u]] = IssuingEntry(t) /\ entry'[serves[u]] = e
    BY <1>4, <2>1, <2>3, EntriesAre DEF Own
  <2> QED BY <1>3, <2>1, <2>2, <2>3
<1>10. \A u \in Tokens : (issue[u] # "unused" => issue'[u] # "unused") /\ (issue'[u] = "authenticating" => issue[u] = "authenticating")
  BY <1>0 DEF Settles, CacheTypes
<1>11. \A u \in Tokens : InFlight(u)' /\ u \notin orphans' => Own(u)'
  BY <1>2, <1>9 DEF CacheInv, OrphansKnow, store, forgets
<1>12. OrphansKnow'
  BY <1>0, <1>10, <1>11 DEF CacheInv, OrphansKnow, StoreTypes, store, forgets
<1> QED BY <1>1, <1>7, <1>8, <1>12 DEF CacheInv

LEMMA AuthenticationKeeps == ASSUME CacheInv, NEW t \in Tokens, Authentication(t) PROVE CacheInv'
<1>0. UNCHANGED <<store, serves, began, old, dead>> /\ InFlight(t) /\ serves[t] \in Connections /\ CacheTypes
  BY DEF Authentication, ReadCredential, Authenticates, CacheInv, EntryKnows, InFlight
<1>1. CASE ReadCredential(t) /\ serves[t] \in enabled \cap bound /\ issue' = [issue EXCEPT ![t] = "authenticating"] /\ UNCHANGED entry
  <2>1. StoreTypes' /\ CacheTypes'
    BY <1>0, <1>1 DEF CacheInv, StoreTypes, CacheTypes, store, forgets
  <2>2. \A u \in Tokens : (InFlight(u)' <=> InFlight(u)) /\ (Own(u)' <=> Own(u)) /\ (u # t => issue'[u] = issue[u])
    BY <1>0, <1>1 DEF InFlight, Own, CacheTypes
  <2>3. EntryKnows'
    BY <1>0, <1>1, <2>2, EntriesAre DEF CacheInv, EntryKnows, CacheTypes
  <2>4. ForgottenKnows'
    <3>1. serves[t] \notin forgotten
      BY <1>1 DEF CacheInv, StoreTypes
    <3>2. \A c \in forgotten : entry[c].state = "issuing" => entry[c].token # t /\ entry[c].token \in Tokens
      BY <1>0, <3>1, EntriesAre DEF CacheInv, EntryKnows, StoreTypes, CacheTypes
    <3> QED BY <1>0, <1>1, <2>2, <3>2 DEF CacheInv, ForgottenKnows, store, forgets
  <2>5. \A u \in Tokens : issue[u] = "authenticating" /\ serves[u] = serves[t] => u = t
    <3> SUFFICES ASSUME NEW u \in Tokens, issue[u] = "authenticating", serves[u] = serves[t] PROVE u = t
      OBVIOUS
    <3>1. serves[t] \notin forgotten
      BY <1>1 DEF CacheInv, StoreTypes
    <3>2. Own(t) /\ Own(u)
      BY <1>0, <3>1 DEF CacheInv, OrphansKnow, InFlight
    <3> QED BY <1>0, <3>2, OwnIs
  <2>6. OrphansKnow'
    <3>1. \A u \in Tokens : InFlight(u)' /\ u \notin orphans' => Own(u)'
      BY <1>0, <2>2 DEF CacheInv, OrphansKnow, store, forgets
    <3>2. \A u \in orphans' : issue'[u] # "unused" /\ serves'[u] \in forgotten'
      BY <1>0, <1>1 DEF CacheInv, CacheTypes, StoreTypes, OrphansKnow, store, forgets
    <3>3. \A u, v \in Tokens : issue'[u] = "authenticating" /\ issue'[v] = "authenticating" /\ serves'[u] = serves'[v] => u = v
      BY <1>0, <2>2, <2>5 DEF CacheInv, OrphansKnow
    <3> QED BY <3>1, <3>2, <3>3 DEF OrphansKnow
  <2> QED BY <2>1, <2>3, <2>4, <2>6 DEF CacheInv
<1>2. CASE Settles(t, "failed", NoEntry)
  BY <1>0, <1>2, SettlesKeeps
<1>3. CASE issue[t] = "authenticating" /\ Settles(t, "issued", LiveEntry(t))
  BY <1>0, <1>3, SettlesKeeps
<1> QED BY <1>1, <1>2, <1>3 DEF Authentication, ReadCredential, Authenticates

-----------------------------------------------------------------------------
(* A refused token, and what happens around the calls *)

\* An entry of no authentication goes.
LEMMA DropKeeps ==
  ASSUME CacheInv, NEW c \in Connections, UNCHANGED <<store, issuing, old, dead>>,
         entry' = entry \/ (entry[c].state = "live" /\ entry' = [entry EXCEPT ![c] = NoEntry])
  PROVE  CacheInv'
<1>1. CASE entry' = entry
  BY <1>1, SameCache DEF CacheInv, CacheTypes
<1>2. CASE entry[c].state = "live" /\ entry' = [entry EXCEPT ![c] = NoEntry]
  <2>1. StoreTypes' /\ CacheTypes'
    BY <1>2 DEF CacheInv, StoreTypes, CacheTypes, store, forgets, issuing
  <2>2. \A d \in Connections : entry'[d] = entry[d] \/ (entry'[d].state = "none" /\ entry[d].state = "live")
    BY <1>2, EntriesAre DEF CacheInv, CacheTypes
  <2>3. EntryKnows' /\ ForgottenKnows'
    BY <2>2 DEF CacheInv, StoreTypes, EntryKnows, ForgottenKnows, InFlight, store, forgets, issuing
  <2>4. \A t \in Tokens : InFlight(t) => (Own(t)' <=> Own(t))
    BY <2>2, EntriesAre DEF CacheInv, EntryKnows, Own, issuing
  <2>5. OrphansKnow'
    BY <2>4 DEF CacheInv, OrphansKnow, InFlight, store, forgets, issuing
  <2> QED BY <2>1, <2>3, <2>5 DEF CacheInv
<1> QED BY <1>1, <1>2

LEMMA RefusedKeeps == ASSUME CacheInv, WorkInv, NEW k \in Calls, TokenRefused(k) PROVE CacheInv'
<1>1. of[k] \in Connections /\ token[k] \in Tokens /\ UNCHANGED <<store, issuing, old, dead>> /\ entry' = DropIfHolding(of[k], token[k])
  BY DEF TokenRefused, WorkInv, WorkKnows, Waiting
<1> QED BY <1>1, DropKeeps, EntriesAre DEF DropIfHolding

LEMMA ForgetKeeps == ASSUME CacheInv, NEW c \in Connections, Forget(c) PROVE CacheInv'
<1>1. /\ UNCHANGED <<enabled, bound, issue, serves, began, old, dead>> /\ forgotten' = forgotten \cup {c}
      /\ orphans' = orphans \cup {t \in Tokens : InFlight(t) /\ serves[t] = c} /\ c \notin enabled
      /\ entry' = [entry EXCEPT ![c] = NoEntry] /\ CacheTypes /\ entry'[c].state = "none"
  BY EntriesAre DEF Forget, issuing, CacheInv, CacheTypes
<1>2. StoreTypes' /\ CacheTypes'
  BY <1>1 DEF CacheInv, StoreTypes, CacheTypes
<1>3. EntryKnows' /\ ForgottenKnows'
  BY <1>1 DEF CacheInv, StoreTypes, CacheTypes, EntryKnows, ForgottenKnows, InFlight
<1>4. \A t \in Tokens : InFlight(t) /\ serves[t] # c => (Own(t)' <=> Own(t))
  BY <1>1 DEF CacheInv, CacheTypes, EntryKnows, Own
<1>5. OrphansKnow'
  BY <1>1, <1>4 DEF CacheInv, OrphansKnow, InFlight
<1> QED BY <1>2, <1>3, <1>5 DEF CacheInv

LEMMA AdminKeeps == ASSUME CacheInv, NEW c \in Connections, Disable(c) \/ Unbind(c) PROVE CacheInv'
<1>1. /\ UNCHANGED <<forgotten, orphans, entry, issue, serves, began, old, dead>> /\ enabled' \subseteq enabled
      /\ bound' \subseteq enabled' /\ bound' \subseteq bound
  BY DEF Disable, Unbind, UnboundWith, cache, issuing, forgets, CacheInv, StoreTypes
<1> QED BY <1>1 DEF CacheInv, StoreTypes, CacheTypes, EntryKnows, ForgottenKnows, OrphansKnow, InFlight, Own

LEMMA CacheStep == Inv /\ [Next]_vars => CacheInv'
<1> SUFFICES ASSUME CacheInv, WorkInv, [Next]_vars PROVE CacheInv'
  BY DEF Inv
<1>1. ASSUME NEW k \in Calls, Enter(k) \/ Deadline(k) \/ LeaseFails(k) \/ Leased(k) \/ Send(k) \/ Answered(k) \/ TransportFails(k)
      PROVE CacheInv'
  BY <1>1, SameCache DEF Enter, Deadline, LeaseFails, Leased, Send, Answered, TransportFails, cache, CacheInv,
     CacheTypes
<1>2. ASSUME NEW k \in Calls, Admit(k) PROVE CacheInv'
  <2>1. UNCHANGED <<store, old, dead>> /\ of[k] \in Connections
    BY <1>2 DEF Admit, WorkInv, WorkKnows, Waiting
  <2>2. UNCHANGED <<entry, issuing>> \/ Acquire(k, of[k], 1)
    BY <1>2 DEF Admit
  <2> QED BY <2>1, <2>2, AcquireKeeps, SameCache DEF CacheInv, CacheTypes
<1>3. ASSUME NEW k \in Calls, Retry(k) PROVE CacheInv'
  <2>1. UNCHANGED <<store, old, dead>> /\ of[k] \in Connections /\ Acquire(k, of[k], 2)
    BY <1>3 DEF Retry, WorkInv, WorkKnows, Waiting
  <2> QED BY <2>1, AcquireKeeps
<1>4. ASSUME NEW t \in Tokens, GrowsOld(t) \/ SessionEnds(t) PROVE CacheInv'
  BY <1>4, SameCache DEF GrowsOld, SessionEnds, CacheInv, CacheTypes
<1>5. CASE RunEnds \/ UNCHANGED vars
  BY <1>5, SameCache DEF RunEnds, vars, cache, CacheInv, CacheTypes
<1> QED BY <1>1, <1>2, <1>3, <1>4, <1>5, RefusedKeeps, AuthenticationKeeps, ForgetKeeps, AdminKeeps DEF Next, Work

-----------------------------------------------------------------------------
(* The calls and the lanes *)

\* A call goes to a place that asks nothing of the lane; no lane moves.
Goes(k, p, c, n, t) ==
  /\ call' = [call EXCEPT ![k] = p] /\ of' = [of EXCEPT ![k] = c]
  /\ attempt' = [attempt EXCEPT ![k] = n] /\ token' = [token EXCEPT ![k] = t]

LEMMA GoesKeeps ==
  ASSUME WorkTypes, WorkKnows, NEW k \in Calls, UNCHANGED lane, aborted' \subseteq Calls, answered' \subseteq Calls,
         NEW p \in {"listing", "leasing", "done"}, NEW c \in Connections \cup {0}, NEW n \in 0..2, NEW t \in Tokens \cup {0},
         Goes(k, p, c, n, t), p # "done" => c \in Connections, p = "leasing" => t \in Tokens
  PROVE  WorkTypes' /\ WorkKnows'
<1> USE DEF Goes
<1>1. WorkTypes'
  BY DEF WorkTypes, Waiting
<1>2. WorkKnows'
  BY DEF WorkTypes, WorkKnows, Waiting
<1> QED BY <1>1, <1>2

LEMMA RestsKeeps ==
  ASSUME WorkTypes, WorkKnows, NEW k \in Calls, UNCHANGED lane, aborted' \subseteq Calls, answered' \subseteq Calls, Rests(k)
  PROVE  WorkTypes' /\ WorkKnows'
<1>1. Goes(k, "done", 0, 0, 0)
  BY DEF Rests, To, Goes
<1>2. 0 \in Connections \cup {0} /\ 0 \in Tokens \cup {0} /\ 0 \in 0..2
  OBVIOUS
<1> QED BY <1>1, <1>2, GoesKeeps

LEMMA LeaseKeeps ==
  ASSUME WorkTypes, WorkKnows, CacheTypes, NEW k \in Calls, NEW n \in 1..2, of[k] \in Connections, Acquire(k, of[k], n),
         UNCHANGED <<lane, aborted, answered>>
  PROVE  WorkTypes' /\ WorkKnows'
<1>1. PICK t \in Tokens : Leases(k, n, t)
  BY AcquireDoes
<1>2. of' = [of EXCEPT ![k] = of[k]]
  BY <1>1 DEF Leases, WorkTypes
<1>5. n \in 0..2
  OBVIOUS
<1>3. Goes(k, "leasing", of[k], n, t)
  BY <1>1, <1>2 DEF Leases, To, Goes
<1>4. aborted' \subseteq Calls /\ answered' \subseteq Calls
  BY DEF WorkTypes
<1> QED BY <1>3, <1>4, <1>5, GoesKeeps

\* What a turn that ends, and a call that comes, leave of a lane.
LEMMA TailKeeps == ASSUME NEW s \in Seq(Calls), s # <<>>
                   PROVE  Tail(s) \in Seq(Calls) /\ \A j : j # Head(s) /\ InLane(j, s) => InLane(j, Tail(s))
<1>1. Tail(s) \in Seq(Calls) /\ Len(Tail(s)) = Len(s) - 1 /\ Len(s) \in Nat /\ \A i \in 1..Len(Tail(s)) : Tail(s)[i] = s[i + 1]
  BY HeadTailProperties, LenProperties
<1>2. Head(s) = s[1]
  OBVIOUS
<1>3. ASSUME NEW j, j # Head(s), NEW i \in 1..Len(s), s[i] = j PROVE InLane(j, Tail(s))
  <2>1. i - 1 \in 1..Len(Tail(s)) /\ (i - 1) + 1 = i
    BY <1>1, <1>2, <1>3
  <2>2. Tail(s)[i - 1] = j
    BY <1>1, <1>3, <2>1
  <2> QED BY <2>1, <2>2 DEF InLane
<1> QED BY <1>1, <1>3 DEF InLane

LEMMA AppendKeeps == ASSUME NEW s \in Seq(Calls), NEW k \in Calls
                     PROVE  /\ Append(s, k) \in Seq(Calls) /\ Append(s, k) # <<>> /\ InLane(k, Append(s, k))
                            /\ s # <<>> => Head(Append(s, k)) = Head(s)
                            /\ \A j : InLane(j, s) => InLane(j, Append(s, k))
<1>1. /\ Append(s, k) \in Seq(Calls) /\ Append(s, k) # <<>> /\ Len(Append(s, k)) = Len(s) + 1 /\ Len(s) \in Nat
      /\ \A i \in 1..Len(s) : Append(s, k)[i] = s[i]
      /\ Append(s, k)[Len(s) + 1] = k
  BY AppendProperties, LenProperties
<1>2. s # <<>> => Head(Append(s, k)) = Head(s)
  BY HeadTailAppend
<1>3. Len(s) + 1 \in 1..Len(Append(s, k)) /\ \A i \in 1..Len(s) : i \in 1..Len(Append(s, k))
  BY <1>1
<1> QED BY <1>1, <1>2, <1>3 DEF InLane

\* The first of a lane leaves it: nobody else sends on that token.
LEMMA NextTurnKeeps ==
  ASSUME WorkTypes, WorkKnows, NEW k \in Calls, call[k] = "sending", lane' = NextTurn(k),
         aborted' \subseteq Calls, answered' \subseteq Calls,
         \/ Rests(k)
         \/ To(k, "retrying") /\ UNCHANGED <<of, attempt, token>>
  PROVE  WorkTypes' /\ WorkKnows'
<1>1. token[k] \in Tokens /\ lane[token[k]] # <<>> /\ Head(lane[token[k]]) = k /\ of[k] \in Connections
  BY DEF WorkKnows, Waiting
<1>2. lane[token[k]] \in Seq(Calls)
  BY <1>1 DEF WorkTypes
<1>3. /\ lane' \in [Tokens -> Seq(Calls)] /\ \A t \in Tokens : t # token[k] => lane'[t] = lane[t]
      /\ \A j \in Calls \ {k} : InLane(j, lane[token[k]]) => InLane(j, lane'[token[k]])
  BY <1>1, <1>2, TailKeeps DEF NextTurn, WorkTypes
<1>4. /\ call' \in [Calls -> Waiting \cup {"idle", "done"}] /\ of' \in [Calls -> Connections \cup {0}]
      /\ attempt' \in [Calls -> 0..2] /\ token' \in [Calls -> Tokens \cup {0}]
      /\ call'[k] \in {"done", "retrying"} /\ (call'[k] = "retrying" => of'[k] = of[k] /\ token'[k] = token[k])
      /\ \A j \in Calls \ {k} : call'[j] = call[j] /\ of'[j] = of[j] /\ token'[j] = token[j]
  <2>1. CASE Rests(k)
    BY <2>1 DEF Rests, To, WorkTypes, Waiting
  <2>2. CASE To(k, "retrying") /\ UNCHANGED <<of, attempt, token>>
    BY <2>2 DEF To, WorkTypes, Waiting
  <2> QED BY <2>1, <2>2
<1>5. \A j \in Calls \ {k} : call[j] = "sending" => token[j] # token[k]
  BY <1>1 DEF WorkKnows
<1>6. WorkTypes'
  BY <1>3, <1>4 DEF WorkTypes
<1>7. WorkKnows'
  <2> SUFFICES ASSUME NEW j \in Calls
               PROVE  /\ call'[j] \in Waiting => of'[j] \in Connections
                      /\ call'[j] \in Waiting \ {"listing"} => token'[j] \in Tokens
                      /\ call'[j] = "sending" => lane'[token'[j]] # <<>> /\ Head(lane'[token'[j]]) = j
                      /\ call'[j] = "queued" => InLane(j, lane'[token'[j]])
    BY DEF WorkKnows
  <2>1. CASE j = k
    BY <1>1, <1>4, <2>1 DEF Waiting
  <2>2. CASE j # k
    <3>1. call'[j] = call[j] /\ of'[j] = of[j] /\ token'[j] = token[j]
      BY <1>4, <2>2
    <3>2. call[j] = "sending" => lane'[token[j]] = lane[token[j]]
      BY <1>3, <1>5, <2>2 DEF WorkKnows, Waiting
    <3>3. call[j] = "queued" => InLane(j, lane'[token[j]])
      BY <1>3, <2>2 DEF WorkKnows, Waiting
    <3> QED BY <3>1, <3>2, <3>3 DEF WorkKnows
  <2> QED BY <2>1, <2>2
<1> QED BY <1>6, <1>7

LEMMA LeasedKeeps == ASSUME WorkTypes, WorkKnows, NEW k \in Calls, Leased(k) PROVE WorkTypes' /\ WorkKnows'
<1>1. token[k] \in Tokens /\ of[k] \in Connections /\ call[k] = "leasing"
  BY DEF Leased, WorkKnows, Waiting
<1>2. lane' = [lane EXCEPT ![token[k]] = Append(lane[token[k]], k)] /\ lane[token[k]] \in Seq(Calls)
  BY <1>1 DEF Leased, WorkTypes
<1>3. /\ lane' \in [Tokens -> Seq(Calls)] /\ InLane(k, lane'[token[k]])
      /\ \A t \in Tokens : /\ lane[t] # <<>> => lane'[t] # <<>> /\ Head(lane'[t]) = Head(lane[t])
                           /\ \A j : InLane(j, lane[t]) => InLane(j, lane'[t])
  BY <1>1, <1>2, AppendKeeps DEF WorkTypes
<1>4. /\ call' \in [Calls -> Waiting \cup {"idle", "done"}] /\ call'[k] = "queued" /\ \A j \in Calls \ {k} : call'[j] = call[j]
      /\ UNCHANGED <<of, attempt, token, aborted, answered>>
  BY DEF Leased, To, WorkTypes, Waiting
<1>5. WorkTypes'
  BY <1>3, <1>4 DEF WorkTypes
<1>6. WorkKnows'
  BY <1>1, <1>3, <1>4 DEF WorkKnows, Waiting
<1> QED BY <1>5, <1>6

LEMMA SendKeeps == ASSUME WorkTypes, WorkKnows, NEW k \in Calls, Send(k) PROVE WorkTypes' /\ WorkKnows'
<1>1. /\ call' \in [Calls -> Waiting \cup {"idle", "done"}] /\ call'[k] = "sending" /\ \A j \in Calls \ {k} : call'[j] = call[j]
      /\ UNCHANGED <<of, attempt, token, aborted, answered, lane>> /\ call[k] = "queued" /\ Head(lane[token[k]]) = k
  BY DEF Send, Turn, To, WorkTypes, Waiting, cache
<1>2. lane[token[k]] # <<>>
  BY <1>1 DEF WorkKnows, InLane
<1>3. WorkTypes'
  BY <1>1 DEF WorkTypes
<1>4. WorkKnows'
  BY <1>1, <1>2 DEF WorkKnows, Waiting
<1> QED BY <1>3, <1>4

LEMMA WorkStep == Inv /\ [Next]_vars => WorkInv'
<1> SUFFICES ASSUME CacheTypes, WorkTypes, ScopeTypes, WorkKnows, [Next]_vars PROVE WorkInv'
  BY DEF Inv, CacheInv, WorkInv
<1>0. ASSUME UNCHANGED <<call, of, attempt, token, lane, aborted, answered>> PROVE WorkTypes' /\ WorkKnows'
  BY <1>0 DEF WorkTypes, WorkKnows
<1>1. ScopeTypes'
  <2>1. ASSUME NEW k \in Calls, Enter(k) \/ Work(k) \/ Deadline(k) PROVE ScopeTypes'
    BY <2>1, BudgetAssumption DEF Enter, Work, Deadline, Admit, LeaseFails, Leased, Send, Answered,
       TransportFails, TokenRefused,
                                  Retry, ScopeTypes, scope
  <2>2. ASSUME NEW t \in Tokens, Authentication(t) \/ GrowsOld(t) \/ SessionEnds(t) PROVE ScopeTypes'
    BY <2>2 DEF Authentication, ReadCredential, Authenticates, GrowsOld, SessionEnds, ScopeTypes, scope
  <2>3. ASSUME NEW c \in Connections, Disable(c) \/ Forget(c) \/ Unbind(c) PROVE ScopeTypes'
    BY <2>3 DEF Disable, Forget, Unbind, ScopeTypes, scope
  <2>4. CASE RunEnds \/ UNCHANGED vars
    BY <2>4 DEF RunEnds, vars, ScopeTypes, scope
  <2> QED BY <2>1, <2>2, <2>3, <2>4 DEF Next
<1>2. ASSUME NEW k \in Calls, Enter(k) PROVE WorkTypes' /\ WorkKnows'
  <2>1. UNCHANGED <<lane, aborted>> /\ answered' \subseteq Calls
    BY <1>2 DEF Enter, Finish, cache, WorkTypes
  <2>2. CASE Rests(k)
    BY <2>1, <2>2, RestsKeeps DEF WorkTypes
  <2>3. CASE To(k, "listing") /\ (\E c \in Connections : of' = [of EXCEPT ![k] = c]) /\ UNCHANGED <<attempt, token>>
    <3>1. PICK c \in Connections : of' = [of EXCEPT ![k] = c]
      BY <2>3
    <3>2. attempt' = [attempt EXCEPT ![k] = attempt[k]] /\ token' = [token EXCEPT ![k] = token[k]]
      BY <2>3 DEF WorkTypes
    <3>3. Goes(k, "listing", c, attempt[k], token[k])
      BY <2>3, <3>1, <3>2 DEF Goes, To
    <3>4. attempt[k] \in 0..2 /\ token[k] \in Tokens \cup {0} /\ aborted' \subseteq Calls
      BY <2>1 DEF WorkTypes
    <3> QED BY <2>1, <3>3, <3>4, GoesKeeps
  <2> QED BY <1>2, <2>2, <2>3 DEF Enter, Finish
<1>3. ASSUME NEW k \in Calls, Admit(k) PROVE WorkTypes' /\ WorkKnows'
  <2>1. UNCHANGED <<lane, aborted>> /\ of[k] \in Connections
    BY <1>3 DEF Admit, WorkKnows, Waiting
  <2>2. CASE Finish(k)
    BY <2>1, <2>2, RestsKeeps DEF Finish, WorkTypes
  <2>3. CASE Acquire(k, of[k], 1) /\ UNCHANGED answered
    BY <2>1, <2>3, LeaseKeeps
  <2> QED BY <1>3, <2>2, <2>3 DEF Admit
<1>4. ASSUME NEW k \in Calls, Retry(k) PROVE WorkTypes' /\ WorkKnows'
  BY <1>4, LeaseKeeps DEF Retry, WorkKnows, Waiting
<1>5. ASSUME NEW k \in Calls, LeaseFails(k) PROVE WorkTypes' /\ WorkKnows'
  BY <1>5, RestsKeeps DEF LeaseFails, Finish, cache, WorkTypes
<1>6. ASSUME NEW k \in Calls, Answered(k) \/ TransportFails(k) \/ TokenRefused(k) PROVE WorkTypes' /\ WorkKnows'
  <2>1. call[k] = "sending" /\ lane' = NextTurn(k) /\ UNCHANGED aborted /\ answered' \subseteq Calls
    BY <1>6 DEF Answered, TransportFails, TokenRefused, Finish, WorkTypes
  <2>2. Rests(k) \/ (To(k, "retrying") /\ UNCHANGED <<of, attempt, token>>)
    BY <1>6 DEF Answered, TransportFails, TokenRefused, Finish
  <2> QED BY <2>1, <2>2, NextTurnKeeps DEF WorkTypes
<1>7. ASSUME NEW k \in Calls, Deadline(k) PROVE WorkTypes' /\ WorkKnows'
  <2>1. UNCHANGED lane /\ aborted' \subseteq Calls /\ answered' \subseteq Calls
    BY <1>7 DEF Deadline, cache, WorkTypes
  <2>2. CASE Rests(k)
    BY <2>1, <2>2, RestsKeeps
  <2>3. CASE UNCHANGED work
    BY <2>1, <2>3 DEF work, WorkTypes, WorkKnows
  <2> QED BY <1>7, <2>2, <2>3 DEF Deadline
<1>8. ASSUME NEW t \in Tokens, Authentication(t) \/ GrowsOld(t) \/ SessionEnds(t) PROVE WorkTypes' /\ WorkKnows'
  BY <1>0, <1>8 DEF Authentication, ReadCredential, Authenticates, GrowsOld, SessionEnds, work
<1>9. ASSUME NEW c \in Connections, Disable(c) \/ Forget(c) \/ Unbind(c) PROVE WorkTypes' /\ WorkKnows'
  BY <1>0, <1>9 DEF Disable, Forget, Unbind, work, cache
<1>10. ASSUME RunEnds \/ UNCHANGED vars PROVE WorkTypes' /\ WorkKnows'
  <2>1. CASE RunEnds
    BY <1>0, <2>1 DEF RunEnds, work, cache
  <2>2. CASE UNCHANGED vars
    <3>1. UNCHANGED <<work, cache, aborted, answered>>
      BY <2>2 DEF vars
    <3>2. UNCHANGED <<call, of, attempt, token>> /\ UNCHANGED lane
      BY <3>1 DEF work, cache
    <3> QED BY <1>0, <3>1, <3>2
  <2> QED BY <1>10, <2>1, <2>2
<1>11. ASSUME NEW k \in Calls, Enter(k) \/ Work(k) \/ Deadline(k) PROVE WorkTypes' /\ WorkKnows'
  BY <1>2, <1>3, <1>4, <1>5, <1>6, <1>7, <1>11, LeasedKeeps, SendKeeps DEF Work
<1>12. WorkTypes' /\ WorkKnows'
  BY <1>8, <1>9, <1>10, <1>11 DEF Next
<1> QED BY <1>1, <1>12 DEF WorkInv

-----------------------------------------------------------------------------
(* The theorems *)

LEMMA InvInit == Init => Inv
<1> SUFFICES ASSUME Init PROVE Inv
  OBVIOUS
<1>1. StoreTypes /\ CacheTypes
  BY DEF Init, StoreTypes, CacheTypes
<1>4. <<>> \in Seq(Calls)
  BY EmptySeq
<1>6. lane \in [Tokens -> Seq(Calls)]
  BY <1>4 DEF Init
<1>7. call \in [Calls -> Waiting \cup {"idle", "done"}] /\ of \in [Calls -> Connections \cup {0}]
  BY DEF Init
<1>8. attempt \in [Calls -> 0..2] /\ token \in [Calls -> Tokens \cup {0}]
  BY DEF Init
<1>5. WorkTypes /\ ScopeTypes
  BY <1>6, <1>7, <1>8 DEF Init, WorkTypes, ScopeTypes
<1>2. WorkTypes /\ ScopeTypes /\ WorkKnows
  BY <1>5 DEF Init, WorkKnows, Waiting
<1>3. EntryKnows /\ ForgottenKnows /\ OrphansKnow
  BY EntriesAre DEF Init, EntryKnows, ForgottenKnows, OrphansKnow, InFlight
<1> QED BY <1>1, <1>2, <1>3 DEF Inv, CacheInv, WorkInv

LEMMA InvHolds == Spec => []Inv
<1>1. Inv /\ [Next]_vars => Inv'
  BY CacheStep, WorkStep DEF Inv
<1> QED BY <1>1, InvInit, PTL DEF Spec

\* Every variable keeps its type, and the tables keep to each other: no binding on a disabled Connection, no
\* Connection forgotten that is not disabled (broker.ts, token-cache.ts).
THEOREM CallsTypeCorrect == Spec => []TypeOK
<1>1. Inv => TypeOK
  BY DEF Inv, CacheInv, WorkInv, StoreTypes, CacheTypes, WorkTypes, ScopeTypes, TypeOK
<1> QED BY <1>1, InvHolds, PTL

\* The cache never holds a token of a forgotten Connection (token-cache.ts forget, issue).
THEOREM ForgottenStaysForgotten == Spec => []ForgottenHoldsNoToken
<1>1. Inv => ForgottenHoldsNoToken
  BY DEF Inv, CacheInv, ForgottenKnows, ForgottenHoldsNoToken
<1> QED BY <1>1, InvHolds, PTL

\* Two services never run on one token (token-cache.ts inLane).
THEOREM LaneCarriesOne == Spec => []OneServicePerToken
<1>1. Inv => OneServicePerToken
  BY DEF Inv, WorkInv, WorkKnows, OneServicePerToken
<1> QED BY <1>1, InvHolds, PTL

\* One authentication of a Connection since its last forget is under way, and one has the credential
\* (token-cache.ts acquire, forget; broker.ts authenticate).
THEOREM AuthenticationsAreShared == Spec => []OneAuthenticationAtATime
<1>1. ASSUME NEW S, \A x, y \in S : x = y PROVE Cardinality(S) <= 1
  <2>1. CASE S = {}
    BY <2>1, FS_EmptySet
  <2>2. CASE S # {}
    <3>1. PICK x : S = {x}
      BY <1>1, <2>2
    <3> QED BY <3>1, FS_Singleton
  <2> QED BY <2>1, <2>2
<1>2. ASSUME Inv, NEW c \in Connections
      PROVE  /\ Cardinality({t \in Tokens \ orphans : InFlight(t) /\ serves[t] = c}) <= 1
             /\ Cardinality({t \in Tokens : issue[t] = "authenticating" /\ serves[t] = c}) <= 1
  <2>0. CacheTypes /\ OrphansKnow
    BY <1>2 DEF Inv, CacheInv
  <2>1. \A t, u \in {t \in Tokens \ orphans : InFlight(t) /\ serves[t] = c} : t = u
    BY <2>0, OwnIs DEF OrphansKnow
  <2>2. \A t, u \in {t \in Tokens : issue[t] = "authenticating" /\ serves[t] = c} : t = u
    BY <2>0 DEF OrphansKnow
  <2> QED BY <1>1, <2>1, <2>2
<1>3. Inv => OneAuthenticationAtATime
  BY <1>2 DEF OneAuthenticationAtATime
<1> QED BY <1>3, InvHolds, PTL

\* A live token leaves the cache only for what was said of that very token (token-cache.ts withToken, dropIfHolding).
THEOREM LiveTokenIsKept == Spec => FreshTokenKept
<1> DEFINE Kept == \A c \in Connections :
                     entry[c].state = "live" /\ entry'[c] # entry[c] => entry[c].token \in dead \cup old \/ c \in forgotten'
<1>1. ASSUME Inv, [Next]_vars PROVE Kept
  <2>0. CacheTypes /\ EntryKnows /\ WorkKnows
    BY <1>1 DEF Inv, CacheInv, WorkInv
  <2>1. ASSUME UNCHANGED entry PROVE Kept
    BY <2>1
  <2>2. ASSUME NEW k \in Calls, NEW n, of[k] \in Connections, Acquire(k, of[k], n) PROVE Kept
    BY <2>0, <2>2, AcquireDoes DEF CacheTypes
  <2>3. ASSUME NEW k \in Calls, Admit(k) \/ Retry(k) PROVE Kept
    BY <2>0, <2>1, <2>2, <2>3 DEF Admit, Retry, WorkKnows, Waiting
  <2>4. ASSUME NEW k \in Calls, TokenRefused(k) PROVE Kept
    <3>1. of[k] \in Connections /\ token[k] \in dead /\ token[k] \in Tokens /\ entry' = DropIfHolding(of[k], token[k])
      BY <2>0, <2>4 DEF TokenRefused, WorkKnows, Waiting
    <3> QED BY <2>0, <3>1, EntriesAre DEF DropIfHolding, CacheTypes
  <2>5. ASSUME NEW t \in Tokens, Authentication(t) PROVE Kept
    <3>1. entry' = entry \/ (entry[serves[t]] = IssuingEntry(t) /\ \A c \in Connections \ {serves[t]} : entry'[c] = entry[c])
      BY <2>0, <2>5 DEF Authentication, ReadCredential, Authenticates, Settles, Own, CacheTypes
    <3> QED BY <2>5, <3>1, EntriesAre
  <2>6. ASSUME NEW c \in Connections, Forget(c) PROVE Kept
    BY <2>0, <2>6 DEF Forget, CacheTypes
  <2>7. ASSUME NEW k \in Calls, Enter(k) \/ Deadline(k) \/ LeaseFails(k) \/ Leased(k) \/ Send(k) \/ Answered(k) \/ TransportFails(k)
        PROVE UNCHANGED entry
    BY <2>7 DEF Enter, Deadline, LeaseFails, Leased, Send, Answered, TransportFails, cache
  <2>8. ASSUME NEW t \in Tokens, GrowsOld(t) \/ SessionEnds(t) PROVE UNCHANGED entry
    BY <2>8 DEF GrowsOld, SessionEnds
  <2>9. ASSUME NEW c \in Connections, Disable(c) \/ Unbind(c) PROVE UNCHANGED entry
    BY <2>9 DEF Disable, Unbind, cache
  <2>10. CASE RunEnds \/ UNCHANGED vars
    BY <2>1, <2>10 DEF RunEnds, vars, cache
  <2> HIDE DEF Kept
  <2> QED BY <1>1, <2>1, <2>3, <2>4, <2>5, <2>6, <2>7, <2>8, <2>9, <2>10 DEF Next, Work
<1>2. Inv /\ [Next]_vars => [Kept]_vars
  BY <1>1
<1> QED BY <1>2, InvHolds, PTL DEF Spec, FreshTokenKept
=============================================================================
