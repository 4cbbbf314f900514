---------------------------- MODULE CliproxyPool ----------------------------
(***************************************************************************)
(* The proxy processes that serve Google AI Pro accounts                    *)
(* (builder/google-ai-pro/pool.ts, write-back.ts), of one key: the map's    *)
(* entry, the process and its directory, the calls that lease it, the pass  *)
(* that stops an idle one, the process that exits by itself, and the close  *)
(* and the crash of the Hub.                                                *)
(*                                                                         *)
(* Every process of a key has the same directory; the proxy refreshes       *)
(* Google's token in the copy of the record there, and the pool writes that *)
(* copy back to the account's row before it deletes it.                     *)
(*                                                                         *)
(* Simplifications.                                                         *)
(*  - Of a record is kept whether the proxy refreshed it since it was read;  *)
(*    its write to the row, by the row's id, is a delay that may fail.       *)
(*    The row is known: the call that leases the proxy has just read it.     *)
(*  - An rm, and the making of a directory with its record, is one step; a   *)
(*    start whose directory goes under it fails at its next use of it.       *)
(*  - SIGKILL ends a process. The three attempts of a launch are one.       *)
(*  - The boot after a crash kills and deletes what was left before the     *)
(*    router takes a call, so a crash and its boot are one step.            *)
(***************************************************************************)
EXTENDS Naturals, FiniteSets

CONSTANTS
  Calls,        \* model calls on the key
  MaxStarts,    \* bound: processes started
  MaxCrashes,   \* bound: crashes of the Hub
  MaxFaults     \* bound: starts that fail

ASSUME BoundAssumption == {MaxStarts, MaxCrashes, MaxFaults} \subseteq Nat

VARIABLES
  entry,  \* the map's entry of the key: its state and whose it is
  place,  \* place[n]: where the Hub is with the n-th proxy
  child,  \* child[n]: its process
  leases, \* leases[n]: the calls that lease it
  idle,   \* idle[n]: whether nobody leased it for the idle time
  copy,   \* whether the record is in the directory
  read,   \* whether the copy was read since a proxy last wrote it
  call,   \* call[k]: where it is, and the proxy it waits for or leases
  pool,   \* open, closing or closed
  awaited,\* the proxy the close found in the map, or 0
  crashes, faults

proxy == <<place, child, leases, idle>>
hub == <<pool, awaited, crashes>>
vars == <<entry, proxy, copy, read, call, hub, faults>>

Proxies == 1..MaxStarts
NoEntry == [state |-> "none", n |-> 0]
Starting == {"clearing", "writing", "launching", "loading", "dropping"}
Ending == {"stopping", "capturing", "persisting", "removing"}
Is(state, n) == entry = [state |-> state, n |-> n]
Entry(state, n) == entry' = [state |-> state, n |-> n]
To(n, to) == place' = [place EXCEPT ![n] = to] /\ UNCHANGED <<child, leases, idle>>
Ends(n, to) == place' = [place EXCEPT ![n] = to] /\ child' = [child EXCEPT ![n] = "exited"] /\ UNCHANGED <<leases, idle>>
Unused == {n \in Proxies : place[n] = "off"}
Fresh == CHOOSE n \in Unused : TRUE
Faulty == faults < MaxFaults /\ faults' = faults + 1

TypeOK ==
  /\ entry \in {NoEntry} \cup [state : {"starting", "ready", "stopping"}, n : Proxies]
  /\ place \in [Proxies -> {"off", "ready", "over", "failed"} \cup Starting \cup Ending]
  /\ child \in [Proxies -> {"none", "running", "exited"}] /\ idle \in [Proxies -> BOOLEAN]
  /\ leases \in [Proxies -> SUBSET Calls]
  /\ copy \in BOOLEAN /\ read \in BOOLEAN
  /\ call \in [Calls -> [pc : {"idle", "starting", "stopping", "leased", "over"}, of : Proxies \cup {0}]]
  /\ pool \in {"open", "closing", "closed"} /\ awaited \in Proxies \cup {0}
  /\ crashes \in 0..MaxCrashes /\ faults \in 0..MaxFaults
  /\ \A n \in Proxies : leases[n] = {k \in Calls : call[k] = [pc |-> "leased", of |-> n]}

Init ==
  /\ entry = NoEntry
  /\ place = [n \in Proxies |-> "off"] /\ child = [n \in Proxies |-> "none"]
  /\ leases = [n \in Proxies |-> {}] /\ idle = [n \in Proxies |-> FALSE]
  /\ copy = FALSE /\ read = TRUE
  /\ call = [k \in Calls |-> [pc |-> "idle", of |-> 0]]
  /\ pool = "open" /\ awaited = 0 /\ crashes = 0 /\ faults = 0

-----------------------------------------------------------------------------
\* acquire

At(k, where, n) == call' = [call EXCEPT ![k] = [pc |-> where, of |-> n]]

\* The loop from one await to the next: it starts the proxy, waits for its start or its stop, or leases it.
LeasesAny == entry.state \in {"ready", "stopping"} \* broken: a proxy that is being stopped is leased
Leases == entry.state = "ready"
VacantSoon == entry.state \in {"none", "stopping"} \* broken: a proxy starts beside the one that is being stopped
Vacant == entry.state = "none"
Looks(k) ==
  \/ /\ pool = "open" => Vacant /\ Unused = {} \* closed, or the bound on starts
     /\ At(k, "over", 0) /\ UNCHANGED <<entry, proxy>>
  \/ /\ pool = "open" /\ Vacant /\ Unused # {}
     /\ Entry("starting", Fresh) /\ To(Fresh, "clearing") /\ At(k, "starting", Fresh)
  \/ /\ pool = "open" /\ entry.state \in {"starting", "stopping"} /\ ~Leases /\ ~Vacant
     /\ At(k, entry.state, entry.n) /\ UNCHANGED <<entry, proxy>>
  \/ /\ pool = "open" /\ Leases
     /\ At(k, "leased", entry.n) /\ UNCHANGED entry
     /\ leases' = [leases EXCEPT ![entry.n] = @ \cup {k}] /\ UNCHANGED <<place, child, idle>>
Acquire(k) ==
  /\ call[k].pc = "idle" /\ Looks(k)
  /\ UNCHANGED <<copy, read, hub, faults>>

\* What it waited for settled: a start that failed fails it, else it looks again.
Wakes(k) ==
  LET n == call[k].of IN
  /\ \/ call[k].pc = "starting" /\ place[n] = "failed" /\ At(k, "over", 0) /\ UNCHANGED <<entry, proxy>>
     \/ call[k].pc = "starting" /\ place[n] \notin Starting \cup {"failed"} /\ Looks(k)
     \/ call[k].pc = "stopping" /\ place[n] = "over" /\ Looks(k)
  /\ UNCHANGED <<copy, read, hub, faults>>
Release(k) ==
  /\ call[k].pc = "leased" /\ At(k, "over", 0)
  /\ leases' = [leases EXCEPT ![call[k].of] = @ \ {k}] /\ idle' = [idle EXCEPT ![call[k].of] = FALSE]
  /\ UNCHANGED <<entry, place, child, copy, read, hub, faults>>

-----------------------------------------------------------------------------
\* The directory, and what refreshes the record in it

Delete == copy' = FALSE /\ read' = TRUE
Refreshes(n) ==
  /\ child[n] = "running" /\ copy /\ read' = FALSE
  /\ UNCHANGED <<entry, proxy, copy, call, hub, faults>>

-----------------------------------------------------------------------------
\* start

Clears(n) ==
  /\ place[n] = "clearing" /\ Delete /\ To(n, "writing")
  /\ UNCHANGED <<entry, call, hub, faults>>
Writes(n) ==
  /\ place[n] = "writing" /\ copy' = TRUE /\ read' = TRUE /\ To(n, "launching")
  /\ UNCHANGED <<entry, call, hub, faults>>

\* Its entry goes at once, the directory after it.
Forgets(n) == entry' = NoEntry /\ Ends(n, "dropping")
Launches(n) ==
  /\ place[n] = "launching"
  /\ \/ /\ copy /\ UNCHANGED <<entry, faults>>
        /\ place' = [place EXCEPT ![n] = "loading"] /\ child' = [child EXCEPT ![n] = "running"]
        /\ UNCHANGED <<leases, idle>>
     \/ ~copy /\ Forgets(n) /\ UNCHANGED faults
     \/ Faulty /\ Forgets(n)
  /\ UNCHANGED <<copy, read, call, hub>>

\* The account is available, though the process may exit behind that answer and nobody hears of it.
\* A close that waits for the start stops it then.
Loads(n) ==
  /\ place[n] = "loading"
  /\ \/ /\ copy /\ UNCHANGED faults
        /\ IF awaited = n THEN Entry("stopping", n) /\ To(n, "stopping") ELSE Entry("ready", n) /\ To(n, "ready")
     \/ (~copy \/ child[n] = "exited") /\ Forgets(n) /\ UNCHANGED faults
     \/ Faulty /\ Forgets(n)
  /\ UNCHANGED <<copy, read, call, hub>>
Drops(n) ==
  /\ place[n] = "dropping" /\ Delete /\ To(n, "failed")
  /\ UNCHANGED <<entry, call, hub, faults>>

-----------------------------------------------------------------------------
\* stop, and what follows an exit

Idles(n) ==
  /\ place[n] = "ready" /\ leases[n] = {} /\ ~idle[n]
  /\ idle' = [idle EXCEPT ![n] = TRUE]
  /\ UNCHANGED <<entry, place, child, leases, copy, read, call, hub, faults>>
IsIdle(n) == leases[n] = {} /\ idle[n]
SweepIdle(n) ==
  /\ pool = "open" /\ Is("ready", n) /\ IsIdle(n)
  /\ Entry("stopping", n) /\ To(n, "stopping")
  /\ UNCHANGED <<copy, read, call, hub, faults>>
TerminatesUnread(n) == \* broken: the copy of a stopped proxy is not read
  /\ place[n] = "stopping" /\ Ends(n, "removing")
  /\ UNCHANGED <<entry, copy, read, call, hub, faults>>
Terminates(n) ==
  /\ place[n] = "stopping"
  /\ Ends(n, "capturing")
  /\ UNCHANGED <<entry, copy, read, call, hub, faults>>

\* A process that exits by itself: the handler of a ready one forgets it and saves its copy behind.
Exits(n) ==
  /\ child[n] = "running"
  /\ IF Is("ready", n)
     THEN entry' = NoEntry /\ Ends(n, "capturing")
     ELSE child' = [child EXCEPT ![n] = "exited"] /\ UNCHANGED <<entry, place, leases, idle>>
  /\ UNCHANGED <<copy, read, call, hub, faults>>

\* The copy is read, and written to the row when it is not what the key says. None of it stops the removal.
Captures(n) ==
  /\ place[n] = "capturing"
  /\ read' = TRUE /\ To(n, IF read THEN "removing" ELSE "persisting")
  /\ UNCHANGED <<entry, copy, call, hub, faults>>
Persists(n) ==
  /\ place[n] = "persisting" /\ To(n, "removing")
  /\ UNCHANGED <<entry, copy, read, call, hub, faults>>
RemovesKept(n) == place[n] = "removing" /\ Delete /\ To(n, "over") \* broken: the entry of a stopped proxy stays
  /\ UNCHANGED <<entry, call, hub, faults>>
Removes(n) ==
  /\ place[n] = "removing" /\ Delete /\ To(n, "over")
  /\ entry' = IF Is("stopping", n) THEN NoEntry ELSE entry
  /\ UNCHANGED <<call, hub, faults>>

-----------------------------------------------------------------------------
\* The Hub

\* The router and its calls are closed first; a start that is under way is waited for.
Close ==
  /\ pool = "open" /\ pool' = "closing" /\ awaited' = entry.n
  /\ IF entry.state = "ready" THEN Entry("stopping", entry.n) /\ To(entry.n, "stopping") ELSE UNCHANGED <<entry, proxy>>
  /\ UNCHANGED <<copy, read, call, crashes, faults>>
ClosedSoon == \* broken: a start under way is not waited for
  /\ pool = "closing" /\ pool' = "closed"
  /\ UNCHANGED <<entry, proxy, copy, read, call, awaited, crashes, faults>>
Closed ==
  /\ pool = "closing" /\ (awaited # 0 => place[awaited] \in {"over", "failed"})
  /\ pool' = "closed"
  /\ UNCHANGED <<entry, proxy, copy, read, call, awaited, crashes, faults>>
Crash ==
  /\ pool # "closed" /\ crashes < MaxCrashes /\ crashes' = crashes + 1
  /\ entry' = NoEntry /\ Delete /\ pool' = "open" /\ awaited' = 0
  /\ place' = [n \in Proxies |-> IF place[n] = "off" THEN "off" ELSE "over"]
  /\ child' = [n \in Proxies |-> "none"] /\ leases' = [n \in Proxies |-> {}] /\ idle' = [n \in Proxies |-> FALSE]
  /\ call' = [k \in Calls |-> IF call[k].pc = "idle" THEN call[k] ELSE [pc |-> "over", of |-> 0]]
  /\ UNCHANGED faults

Work(n) ==
  \/ Clears(n) \/ Writes(n) \/ Launches(n) \/ Loads(n) \/ Drops(n)
  \/ Terminates(n) \/ Captures(n) \/ Persists(n) \/ Removes(n)
Next ==
  \/ \E k \in Calls : Acquire(k) \/ Wakes(k) \/ Release(k)
  \/ \E n \in Proxies : Work(n) \/ Refreshes(n) \/ Idles(n) \/ SweepIdle(n) \/ Exits(n)
  \/ Close \/ Closed \/ Crash

\* Every await of the pool is bounded by a timer or ends with its process.
Fairness ==
  /\ \A k \in Calls : WF_vars(Wakes(k))
  /\ \A n \in Proxies : WF_vars(Work(n))
  /\ WF_vars(Closed)
Spec == Init /\ [][Next]_vars /\ Fairness

-----------------------------------------------------------------------------
\* Properties

\* Two proxies never run in the one directory of a key, through failed starts, idle stops, exits and
\* a close: each is over before the map lets the next one start (pool.ts start, stop, acquire).
OneProxyRuns == Cardinality({n \in Proxies : child[n] = "running"}) <= 1

\* The idle pass never takes a proxy from under a model call, though calls lease it while the pass looks
\* and stops (sweepIdle, acquire). Only an exit of its own, a close or a crash does.
LeasedProxyIsNotStopped == \A n \in Proxies : pool = "open" /\ place[n] \in Ending /\ Is("stopping", n) => leases[n] = {}

\* A close leaves no proxy running, nor one that is about to, though a start was under way when it began.
CloseLeavesNoProxy ==
  pool = "closed" => \A n \in Proxies : child[n] # "running" /\ place[n] \notin Starting \ {"dropping"}

\* A proxy the pool stops has what it refreshed read before its directory goes: nothing is written to
\* the copy between the reading and the removal (stop).
StoppedProxyIsRead == [][\A n \in Proxies : Is("stopping", n) /\ Removes(n) => read]_vars

\* Every model call that waits for a proxy hears of it, and a close ends.
CallsHear ==
  /\ \A k \in Calls : call[k].pc \in {"starting", "stopping"} ~> call[k].pc \in {"leased", "over"}
  /\ pool = "closing" ~> pool # "closing"
=============================================================================
