------------------------ MODULE CliproxyPool_proofs ------------------------
(***************************************************************************)
(* Proofs about the proxies of one key, for any number of calls, starts,    *)
(* crashes and faults: types, one proxy at a time, leases, the close and    *)
(* the reading of a stopped proxy's copy.                                   *)
(***************************************************************************)
EXTENDS CliproxyPool, TLAPS, FiniteSetTheorems

-----------------------------------------------------------------------------
(* The types *)

Places == {"off", "ready", "over", "failed"} \cup Starting \cup Ending
EntryType == entry \in {NoEntry} \cup [state : {"starting", "ready", "stopping"}, n : Proxies]
ProxyType ==
  /\ place \in [Proxies -> Places] /\ child \in [Proxies -> {"none", "running", "exited"}]
  /\ leases \in [Proxies -> SUBSET Calls] /\ idle \in [Proxies -> BOOLEAN]
CallType == call \in [Calls -> [pc : {"idle", "starting", "stopping", "leased", "over"}, of : Proxies \cup {0}]]
HubType == copy \in BOOLEAN /\ read \in BOOLEAN /\ pool \in {"open", "closing", "closed"} /\ awaited \in Proxies \cup {0}
Types == EntryType /\ ProxyType /\ CallType /\ HubType
CountType == crashes \in 0..MaxCrashes /\ faults \in 0..MaxFaults
LeasesAre == \A n \in Proxies : leases[n] = {k \in Calls : call[k] = [pc |-> "leased", of |-> n]}

LEMMA ProxyIsNotZero == 0 \notin Proxies
  BY BoundAssumption DEF Proxies

LEMMA FreshUnused == Unused # {} => Fresh \in Proxies /\ place[Fresh] = "off"
  BY DEF Unused, Fresh

\* What a call does when it looks, in one predicate.
LEMMA LooksDoes ==
  ASSUME NEW k \in Calls, Types, Looks(k)
  PROVE  \/ At(k, "over", 0) /\ UNCHANGED <<entry, proxy>>
         \/ /\ entry = NoEntry /\ pool = "open" /\ Fresh \in Proxies /\ place[Fresh] = "off"
            /\ Entry("starting", Fresh) /\ To(Fresh, "clearing") /\ At(k, "starting", Fresh)
         \/ /\ entry.n \in Proxies /\ entry.state \in {"starting", "stopping"} /\ At(k, entry.state, entry.n)
            /\ UNCHANGED <<entry, proxy>>
         \/ /\ entry.n \in Proxies /\ entry.state = "ready" /\ pool = "open" /\ At(k, "leased", entry.n) /\ UNCHANGED entry
            /\ leases' = [leases EXCEPT ![entry.n] = @ \cup {k}] /\ UNCHANGED <<place, child, idle>>
  BY FreshUnused DEF Looks, Vacant, Leases, Types, EntryType, NoEntry

LEMMA TypesStep == Types /\ [Next]_vars => Types'
<1> SUFFICES ASSUME Types, [Next]_vars PROVE Types'
  OBVIOUS
<1> USE DEF Types, EntryType, ProxyType, CallType, HubType, proxy, hub
<1>0. CASE UNCHANGED vars
  BY <1>0 DEF vars
<1>1. ASSUME NEW k \in Calls, Looks(k), UNCHANGED <<copy, read, hub, faults>> PROVE Types'
  BY <1>1, LooksDoes, SMTT(20) DEF At, To, Entry, Places, Starting
<1>2. ASSUME NEW k \in Calls, Acquire(k) PROVE Types'
  BY <1>1, <1>2 DEF Acquire
<1>3. ASSUME NEW k \in Calls, Wakes(k) PROVE Types'
  <2>1. CASE At(k, "over", 0) /\ UNCHANGED <<entry, proxy>>
    BY <1>3, <2>1 DEF Wakes, At
  <2>2. CASE Looks(k)
    BY <1>1, <1>3, <2>2 DEF Wakes
  <2> QED BY <1>3, <2>1, <2>2 DEF Wakes
<1>4. ASSUME NEW k \in Calls, Release(k) PROVE Types'
  BY <1>4 DEF Release, At
<1>5. ASSUME NEW n \in Proxies, Clears(n) \/ Writes(n) \/ Drops(n) \/ Persists(n) \/ Removes(n) PROVE Types'
  BY <1>5 DEF Clears, Writes, Drops, Persists, Removes, To, Delete, Places, Starting, Ending
<1>6. ASSUME NEW n \in Proxies, Captures(n) PROVE Types'
  BY <1>6 DEF Captures, To, Places, Ending
<1>7. ASSUME NEW n \in Proxies, Launches(n) \/ Loads(n) PROVE Types'
  BY <1>7 DEF Launches, Loads, Forgets, Ends, Entry, To, Places, Starting, Ending
<1>8. ASSUME NEW n \in Proxies, Terminates(n) \/ Refreshes(n) \/ Idles(n) PROVE Types'
  BY <1>8 DEF Terminates, Refreshes, Idles, Ends, Places, Ending
<1>12. ASSUME NEW n \in Proxies, SweepIdle(n) PROVE Types'
  BY <1>12 DEF SweepIdle, Entry, To, Places, Ending
<1>11. ASSUME NEW n \in Proxies, Exits(n) PROVE Types'
  BY <1>11 DEF Exits, Ends, NoEntry, Places, Ending
<1>9. CASE Close \/ Closed
  BY <1>9 DEF Close, Closed, Entry, To, NoEntry, Places, Ending
<1>10. CASE Crash
  BY <1>10 DEF Crash, Delete, Places
<1> QED
  BY <1>0, <1>2, <1>3, <1>4, <1>5, <1>6, <1>7, <1>8, <1>9, <1>10, <1>11, <1>12 DEF Next, Work
-----------------------------------------------------------------------------
(* The invariant *)

\* A proxy's place says what the entry is, and the entry where its proxy is; only a proxy the entry
\* names has a process. That is what keeps two processes from running.
Up == {"clearing", "writing", "launching", "loading"}
Placed ==
  \A n \in Proxies :
    /\ place[n] \in Up <=> Is("starting", n)
    /\ place[n] = "ready" <=> Is("ready", n)
    /\ place[n] = "stopping" => Is("stopping", n)
    /\ Is("stopping", n) => place[n] \in Ending
    /\ child[n] = "running" => place[n] \in {"loading", "ready", "stopping"}

\* An open pool stops a proxy nobody leases, and a close has only the proxy it waits for.
Leased == pool = "open" => awaited = 0 /\ (entry.state = "stopping" => leases[entry.n] = {})
Closing == pool # "open" => entry.n \in {0, awaited} /\ (pool = "closed" => entry = NoEntry)

\* What a stop has captured stays so until it is removed.
Captured == entry.state = "stopping" /\ place[entry.n] \in {"persisting", "removing"} => read

LEMMA PlacedStep == Types /\ Placed /\ [Next]_vars => Placed'
<1> SUFFICES ASSUME Types, Placed, [Next]_vars PROVE Placed'
  OBVIOUS
<1>0. CASE UNCHANGED vars
  BY <1>0 DEF vars, Placed, Up, Types, EntryType, ProxyType, CallType, HubType, proxy, hub, NoEntry, Is,
     Starting, Ending
<1>1. ASSUME NEW k \in Calls, Looks(k), UNCHANGED <<copy, read, hub, faults>> PROVE Placed'
  BY <1>1, LooksDoes DEF At, To, Entry, Placed, Up, Types, EntryType, ProxyType, CallType, HubType, proxy,
     hub, NoEntry, Is, Starting, Ending
<1>2. ASSUME NEW k \in Calls, Acquire(k) \/ Wakes(k) \/ Release(k) PROVE Placed'
  BY <1>1, <1>2 DEF Acquire, Wakes, Release, At, Placed, Up, Types, EntryType, ProxyType, CallType, HubType,
     proxy, hub, NoEntry, Is, Starting, Ending
<1>3. ASSUME NEW n \in Proxies, Clears(n) \/ Writes(n) \/ Drops(n) \/ Persists(n) \/ Captures(n) PROVE Placed'
  BY <1>3 DEF Clears, Writes, Drops, Persists, Captures, To, Delete, Placed, Up, Types, EntryType, ProxyType,
     CallType, HubType, proxy, hub, NoEntry, Is, Starting, Ending
<1>4. ASSUME NEW n \in Proxies, Removes(n) PROVE Placed'
  BY <1>4 DEF Removes, To, Delete, Placed, Up, Types, EntryType, ProxyType, CallType, HubType, proxy, hub,
     NoEntry, Is, Starting, Ending
<1>5. ASSUME NEW n \in Proxies, Launches(n) PROVE Placed'
  BY <1>5 DEF Launches, Forgets, Ends, Placed, Up, Types, EntryType, ProxyType, CallType, HubType, proxy, hub,
     NoEntry, Is, Starting, Ending
<1>6. ASSUME NEW n \in Proxies, Loads(n) PROVE Placed'
  BY <1>6 DEF Loads, Forgets, Ends, Entry, To, Placed, Up, Types, EntryType, ProxyType, CallType, HubType,
     proxy, hub, NoEntry, Is, Starting, Ending
<1>7. ASSUME NEW n \in Proxies, Terminates(n) \/ Refreshes(n) \/ Idles(n) PROVE Placed'
  BY <1>7 DEF Terminates, Refreshes, Idles, Ends, Placed, Up, Types, EntryType, ProxyType, CallType, HubType,
     proxy, hub, NoEntry, Is, Starting, Ending
<1>8. ASSUME NEW n \in Proxies, SweepIdle(n) \/ Exits(n) PROVE Placed'
  BY <1>8 DEF SweepIdle, Exits, IsIdle, Entry, Ends, To, Placed, Up, Types, EntryType, ProxyType, CallType,
     HubType, proxy, hub, NoEntry, Is, Starting, Ending
<1>9. CASE Close \/ Closed
  BY <1>9 DEF Close, Closed, Entry, To, Placed, Up, Types, EntryType, ProxyType, CallType, HubType, proxy,
     hub, NoEntry, Is, Starting, Ending
<1>10. CASE Crash
  BY <1>10 DEF Crash, Delete, Placed, Up, Types, EntryType, ProxyType, CallType, HubType, proxy, hub, NoEntry,
     Is, Starting, Ending
<1> QED
  BY <1>0, <1>2, <1>3, <1>4, <1>5, <1>6, <1>7, <1>8, <1>9, <1>10 DEF Next, Work

LEMMA LeasedStep == Types /\ Placed /\ Leased /\ [Next]_vars => Leased'
<1> SUFFICES ASSUME Types, Placed, Leased, [Next]_vars PROVE Leased'
  OBVIOUS
<1>0. CASE UNCHANGED vars
  BY <1>0 DEF vars, Leased, Placed, Up, Types, EntryType, ProxyType, CallType, HubType, proxy, hub, NoEntry,
     Is, Starting, Ending
<1>1. ASSUME NEW k \in Calls, Looks(k), UNCHANGED <<copy, read, hub, faults>> PROVE Leased'
  BY <1>1, LooksDoes DEF At, To, Entry, Leased, Placed, Up, Types, EntryType, ProxyType, CallType, HubType,
     proxy, hub, NoEntry, Is, Starting, Ending
<1>2. ASSUME NEW k \in Calls, Acquire(k) \/ Wakes(k) \/ Release(k) PROVE Leased'
  BY <1>1, <1>2 DEF Acquire, Wakes, Release, At, Leased, Placed, Up, Types, EntryType, ProxyType, CallType,
     HubType, proxy, hub, NoEntry, Is, Starting, Ending
<1>3. ASSUME NEW n \in Proxies, Clears(n) \/ Writes(n) \/ Drops(n) \/ Persists(n) \/ Captures(n) PROVE Leased'
  BY <1>3 DEF Clears, Writes, Drops, Persists, Captures, To, Delete, Leased, Placed, Up, Types, EntryType,
     ProxyType, CallType, HubType, proxy, hub, NoEntry, Is, Starting, Ending
<1>4. ASSUME NEW n \in Proxies, Removes(n) PROVE Leased'
  BY <1>4 DEF Removes, To, Delete, Leased, Placed, Up, Types, EntryType, ProxyType, CallType, HubType, proxy,
     hub, NoEntry, Is, Starting, Ending
<1>5. ASSUME NEW n \in Proxies, Launches(n) PROVE Leased'
  BY <1>5 DEF Launches, Forgets, Ends, Leased, Placed, Up, Types, EntryType, ProxyType, CallType, HubType,
     proxy, hub, NoEntry, Is, Starting, Ending
<1>6. ASSUME NEW n \in Proxies, Loads(n) PROVE Leased'
  BY <1>6, ProxyIsNotZero DEF Loads, Forgets, Ends, Entry, To, Leased, Placed, Up, Types, EntryType,
     ProxyType, CallType, HubType, proxy, hub, NoEntry, Is, Starting, Ending
<1>7. ASSUME NEW n \in Proxies, Terminates(n) \/ Refreshes(n) \/ Idles(n) PROVE Leased'
  BY <1>7 DEF Terminates, Refreshes, Idles, Ends, Leased, Placed, Up, Types, EntryType, ProxyType, CallType,
     HubType, proxy, hub, NoEntry, Is, Starting, Ending
<1>8. ASSUME NEW n \in Proxies, SweepIdle(n) \/ Exits(n) PROVE Leased'
  BY <1>8 DEF SweepIdle, Exits, IsIdle, Entry, Ends, To, Leased, Placed, Up, Types, EntryType, ProxyType,
     CallType, HubType, proxy, hub, NoEntry, Is, Starting, Ending
<1>9. CASE Close \/ Closed
  BY <1>9 DEF Close, Closed, Entry, To, Leased, Placed, Up, Types, EntryType, ProxyType, CallType, HubType,
     proxy, hub, NoEntry, Is, Starting, Ending
<1>10. CASE Crash
  BY <1>10 DEF Crash, Delete, Leased, Placed, Up, Types, EntryType, ProxyType, CallType, HubType, proxy, hub,
     NoEntry, Is, Starting, Ending
<1> QED
  BY <1>0, <1>2, <1>3, <1>4, <1>5, <1>6, <1>7, <1>8, <1>9, <1>10 DEF Next, Work

LEMMA ClosingStep == Types /\ Placed /\ Closing /\ [Next]_vars => Closing'
<1> SUFFICES ASSUME Types, Placed, Closing, [Next]_vars PROVE Closing'
  OBVIOUS
<1>0. CASE UNCHANGED vars
  BY <1>0 DEF vars, Closing, Placed, Up, Types, EntryType, ProxyType, CallType, HubType, proxy, hub, NoEntry,
     Is, Starting, Ending
<1>1. ASSUME NEW k \in Calls, Looks(k), UNCHANGED <<copy, read, hub, faults>> PROVE Closing'
  BY <1>1, LooksDoes DEF At, To, Entry, Closing, Placed, Up, Types, EntryType, ProxyType, CallType, HubType,
     proxy, hub, NoEntry, Is, Starting, Ending
<1>2. ASSUME NEW k \in Calls, Acquire(k) \/ Wakes(k) \/ Release(k) PROVE Closing'
  BY <1>1, <1>2 DEF Acquire, Wakes, Release, At, Closing, Placed, Up, Types, EntryType, ProxyType, CallType,
     HubType, proxy, hub, NoEntry, Is, Starting, Ending
<1>3. ASSUME NEW n \in Proxies, Clears(n) \/ Writes(n) \/ Drops(n) \/ Persists(n) \/ Captures(n) PROVE Closing'
  BY <1>3 DEF Clears, Writes, Drops, Persists, Captures, To, Delete, Closing, Placed, Up, Types, EntryType,
     ProxyType, CallType, HubType, proxy, hub, NoEntry, Is, Starting, Ending
<1>4. ASSUME NEW n \in Proxies, Removes(n) PROVE Closing'
  BY <1>4 DEF Removes, To, Delete, Closing, Placed, Up, Types, EntryType, ProxyType, CallType, HubType, proxy,
     hub, NoEntry, Is, Starting, Ending
<1>5. ASSUME NEW n \in Proxies, Launches(n) PROVE Closing'
  BY <1>5 DEF Launches, Forgets, Ends, Closing, Placed, Up, Types, EntryType, ProxyType, CallType, HubType,
     proxy, hub, NoEntry, Is, Starting, Ending
<1>6. ASSUME NEW n \in Proxies, Loads(n) PROVE Closing'
  BY <1>6 DEF Loads, Forgets, Ends, Entry, To, Closing, Placed, Up, Types, EntryType, ProxyType, CallType,
     HubType, proxy, hub, NoEntry, Is, Starting, Ending
<1>7. ASSUME NEW n \in Proxies, Terminates(n) \/ Refreshes(n) \/ Idles(n) PROVE Closing'
  BY <1>7 DEF Terminates, Refreshes, Idles, Ends, Closing, Placed, Up, Types, EntryType, ProxyType, CallType,
     HubType, proxy, hub, NoEntry, Is, Starting, Ending
<1>8. ASSUME NEW n \in Proxies, SweepIdle(n) \/ Exits(n) PROVE Closing'
  BY <1>8 DEF SweepIdle, Exits, IsIdle, Entry, Ends, To, Closing, Placed, Up, Types, EntryType, ProxyType,
     CallType, HubType, proxy, hub, NoEntry, Is, Starting, Ending
<1>9. CASE Close \/ Closed
  BY <1>9, ProxyIsNotZero DEF Close, Closed, Entry, To, Closing, Placed, Up, Types, EntryType, ProxyType,
     CallType, HubType, proxy, hub, NoEntry, Is, Starting, Ending
<1>10. CASE Crash
  BY <1>10 DEF Crash, Delete, Closing, Placed, Up, Types, EntryType, ProxyType, CallType, HubType, proxy, hub,
     NoEntry, Is, Starting, Ending
<1> QED
  BY <1>0, <1>2, <1>3, <1>4, <1>5, <1>6, <1>7, <1>8, <1>9, <1>10 DEF Next, Work

LEMMA CapturedStep == Types /\ Placed /\ Captured /\ [Next]_vars => Captured'
<1> SUFFICES ASSUME Types, Placed, Captured, [Next]_vars PROVE Captured'
  OBVIOUS
<1>0. CASE UNCHANGED vars
  BY <1>0 DEF vars, Captured, Placed, Up, Types, EntryType, ProxyType, CallType, HubType, proxy, hub, NoEntry,
     Is, Starting, Ending
<1>1. ASSUME NEW k \in Calls, Looks(k), UNCHANGED <<copy, read, hub, faults>> PROVE Captured'
  BY <1>1, LooksDoes DEF At, To, Entry, Captured, Placed, Up, Types, EntryType, ProxyType, CallType, HubType,
     proxy, hub, NoEntry, Is, Starting, Ending
<1>2. ASSUME NEW k \in Calls, Acquire(k) \/ Wakes(k) \/ Release(k) PROVE Captured'
  BY <1>1, <1>2 DEF Acquire, Wakes, Release, At, Captured, Placed, Up, Types, EntryType, ProxyType, CallType,
     HubType, proxy, hub, NoEntry, Is, Starting, Ending
<1>3. ASSUME NEW n \in Proxies, Clears(n) \/ Writes(n) \/ Drops(n) \/ Persists(n) \/ Captures(n) PROVE Captured'
  BY <1>3 DEF Clears, Writes, Drops, Persists, Captures, To, Delete, Captured, Placed, Up, Types, EntryType,
     ProxyType, CallType, HubType, proxy, hub, NoEntry, Is, Starting, Ending
<1>4. ASSUME NEW n \in Proxies, Removes(n) PROVE Captured'
  BY <1>4 DEF Removes, To, Delete, Captured, Placed, Up, Types, EntryType, ProxyType, CallType, HubType,
     proxy, hub, NoEntry, Is, Starting, Ending
<1>5. ASSUME NEW n \in Proxies, Launches(n) PROVE Captured'
  BY <1>5 DEF Launches, Forgets, Ends, Captured, Placed, Up, Types, EntryType, ProxyType, CallType, HubType,
     proxy, hub, NoEntry, Is, Starting, Ending
<1>6. ASSUME NEW n \in Proxies, Loads(n) PROVE Captured'
  BY <1>6 DEF Loads, Forgets, Ends, Entry, To, Captured, Placed, Up, Types, EntryType, ProxyType, CallType,
     HubType, proxy, hub, NoEntry, Is, Starting, Ending
<1>7. ASSUME NEW n \in Proxies, Terminates(n) \/ Refreshes(n) \/ Idles(n) PROVE Captured'
  BY <1>7 DEF Terminates, Refreshes, Idles, Ends, Captured, Placed, Up, Types, EntryType, ProxyType, CallType,
     HubType, proxy, hub, NoEntry, Is, Starting, Ending
<1>8. ASSUME NEW n \in Proxies, SweepIdle(n) \/ Exits(n) PROVE Captured'
  BY <1>8 DEF SweepIdle, Exits, IsIdle, Entry, Ends, To, Captured, Placed, Up, Types, EntryType, ProxyType,
     CallType, HubType, proxy, hub, NoEntry, Is, Starting, Ending
<1>9. CASE Close \/ Closed
  BY <1>9 DEF Close, Closed, Entry, To, Captured, Placed, Up, Types, EntryType, ProxyType, CallType, HubType,
     proxy, hub, NoEntry, Is, Starting, Ending
<1>10. CASE Crash
  BY <1>10 DEF Crash, Delete, Captured, Placed, Up, Types, EntryType, ProxyType, CallType, HubType, proxy,
     hub, NoEntry, Is, Starting, Ending
<1> QED
  BY <1>0, <1>2, <1>3, <1>4, <1>5, <1>6, <1>7, <1>8, <1>9, <1>10 DEF Next, Work

LEMMA LeasesStep == Types /\ LeasesAre /\ [Next]_vars => LeasesAre'
<1> SUFFICES ASSUME Types, LeasesAre, [Next]_vars PROVE LeasesAre'
  OBVIOUS
<1> USE DEF Types, ProxyType, CallType, proxy, hub
<1>1. ASSUME UNCHANGED <<call, leases>> PROVE LeasesAre'
  BY <1>1 DEF LeasesAre
<1>2. ASSUME NEW k \in Calls, NEW to \in {"starting", "stopping", "over"}, NEW n, At(k, to, n),
             call[k].pc # "leased", UNCHANGED leases PROVE LeasesAre'
  BY <1>2 DEF LeasesAre, At
<1>3. ASSUME NEW k \in Calls, Looks(k), call[k].pc # "leased" PROVE LeasesAre'
  <2>1. CASE entry.n \in Proxies /\ At(k, "leased", entry.n) /\ leases' = [leases EXCEPT ![entry.n] = @ \cup {k}]
    BY <1>3, <2>1 DEF LeasesAre, At
  <2> QED BY <1>2, <1>3, <2>1, LooksDoes DEF To
<1>4. ASSUME NEW k \in Calls, Acquire(k) \/ Wakes(k) PROVE LeasesAre'
  BY <1>2, <1>3, <1>4 DEF Acquire, Wakes
<1>5. ASSUME NEW k \in Calls, Release(k) PROVE LeasesAre'
  BY <1>5 DEF Release, At, LeasesAre
<1>6. CASE Crash
  BY <1>6 DEF Crash, LeasesAre
<1>7. ASSUME NEW n \in Proxies, Work(n) \/ Refreshes(n) \/ Idles(n) \/ SweepIdle(n) \/ Exits(n) PROVE UNCHANGED <<call, leases>>
  BY <1>7 DEF Work, Clears, Writes, Launches, Loads, Drops, Terminates, Captures, Persists, Removes,
              Refreshes, Idles, SweepIdle, Exits, To, Ends, Forgets
<1>8. CASE Close \/ Closed \/ UNCHANGED vars
  BY <1>1, <1>8 DEF Close, Closed, vars, To
<1> QED
  BY <1>1, <1>4, <1>5, <1>6, <1>7, <1>8 DEF Next

LEMMA CountStep == CountType /\ [Next]_vars => CountType'
<1> SUFFICES ASSUME CountType, [Next]_vars PROVE CountType'
  OBVIOUS
<1> USE BoundAssumption DEF CountType, hub
<1>1. ASSUME UNCHANGED <<crashes, faults>> PROVE CountType'
  BY <1>1
<1>2. ASSUME NEW k \in Calls, Acquire(k) \/ Wakes(k) \/ Release(k) PROVE UNCHANGED <<crashes, faults>>
  BY <1>2 DEF Acquire, Wakes, Release
<1>3. ASSUME NEW n \in Proxies, Launches(n) \/ Loads(n) PROVE CountType'
  BY <1>3 DEF Launches, Loads, Faulty
<1>4. ASSUME NEW n \in Proxies, Work(n) \/ Refreshes(n) \/ Idles(n) \/ SweepIdle(n) \/ Exits(n) PROVE CountType'
  BY <1>1, <1>3, <1>4 DEF Work, Clears, Writes, Drops, Terminates, Captures, Persists, Removes, Refreshes,
     Idles, SweepIdle, Exits
<1>5. CASE Crash
  BY <1>5 DEF Crash
<1>6. CASE Close \/ Closed \/ UNCHANGED vars
  BY <1>1, <1>6 DEF Close, Closed, vars
<1> QED BY <1>1, <1>2, <1>4, <1>5, <1>6 DEF Next

Inv == Types /\ CountType /\ LeasesAre /\ Placed /\ Leased /\ Closing /\ Captured

LEMMA InvInit == Init => Inv
<1> SUFFICES ASSUME Init PROVE Inv
  OBVIOUS
<1>1. Types
  BY DEF Init, Types, EntryType, ProxyType, CallType, HubType, Places
<1>2. LeasesAre
  BY DEF Init, LeasesAre
<1>6. CountType
  BY BoundAssumption DEF Init, CountType
<1>3. \A n \in Proxies : place[n] = "off" /\ child[n] = "none" /\ ~Is("starting", n) /\ ~Is("ready", n) /\ ~Is("stopping", n)
  BY DEF Init, NoEntry, Is
<1>4. Placed
  BY <1>3 DEF Placed, Up
<1>5. Leased /\ Closing /\ Captured
  BY DEF Init, Leased, Closing, Captured, NoEntry
<1> QED BY <1>1, <1>2, <1>4, <1>5, <1>6 DEF Inv

LEMMA InvStep == Inv /\ [Next]_vars => Inv'
  BY TypesStep, CountStep, LeasesStep, PlacedStep, LeasedStep, ClosingStep, CapturedStep DEF Inv

LEMMA InvHolds == Spec => []Inv
  BY InvInit, InvStep, PTL DEF Spec

-----------------------------------------------------------------------------
(* The theorems *)

\* Every variable keeps its type, and a proxy's leases are the calls that hold one (pool.ts acquire).
THEOREM PoolTypeCorrect == Spec => []TypeOK
<1>1. Inv => TypeOK
  BY DEF Inv, Types, EntryType, ProxyType, CallType, HubType, CountType, LeasesAre, Places, TypeOK
<1> QED BY <1>1, InvHolds, PTL

\* Two proxies never run in the one directory of a key (pool.ts start, stop, acquire).
THEOREM OneProxyRunsHolds == Spec => []OneProxyRuns
<1>1. Inv => OneProxyRuns
  <2> SUFFICES ASSUME Inv PROVE OneProxyRuns
    OBVIOUS
  <2> DEFINE Running == {n \in Proxies : child[n] = "running"}
  <2>1. Running \subseteq {entry.n}
    BY DEF Inv, Placed, Up, Is
  <2>2. IsFiniteSet({entry.n}) /\ Cardinality({entry.n}) = 1
    BY FS_Singleton
  <2>3. Cardinality(Running) <= 1 /\ Cardinality(Running) \in Nat
    BY <2>1, <2>2, FS_Subset, FS_CardinalityType
  <2> QED BY <2>3 DEF OneProxyRuns
<1> QED BY <1>1, InvHolds, PTL

\* The idle pass never takes a proxy from under a model call (pool.ts sweepIdle, acquire).
THEOREM LeasedProxyStays == Spec => []LeasedProxyIsNotStopped
<1>1. Inv => LeasedProxyIsNotStopped
  BY DEF Inv, Leased, LeasedProxyIsNotStopped, Is
<1> QED BY <1>1, InvHolds, PTL

\* A closed pool has no proxy that runs or is about to (pool.ts close).
THEOREM ClosedPoolIsEmpty == Spec => []CloseLeavesNoProxy
<1>1. Inv => CloseLeavesNoProxy
  BY DEF Inv, Closing, Placed, Up, CloseLeavesNoProxy, NoEntry, Is, Starting
<1> QED BY <1>1, InvHolds, PTL

\* What a stopped proxy refreshed is read before its directory goes (pool.ts stop).
THEOREM StoppedProxyWasRead == Spec => StoppedProxyIsRead
<1>1. Inv /\ [Next]_vars => [\A n \in Proxies : Is("stopping", n) /\ Removes(n) => read]_vars
  BY DEF Inv, Captured, Is, Removes
<1> QED BY <1>1, InvHolds, PTL DEF Spec, StoppedProxyIsRead
=============================================================================
