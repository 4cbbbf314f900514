----------------------------- MODULE ProjectData -----------------------------
(***************************************************************************)
(* What a Project keeps outside its runs' rows, and what may take it away: *)
(* the Preview schema of its application, its repository and its row.      *)
(* (project/deletion.ts, app-runner/supervisor.ts and data-plane.ts,       *)
(* identity-access/application-access.ts, the runner's client in           *)
(* app-runner/module.ts and the wiring in hub.ts.)                         *)
(*                                                                         *)
(* A run that was admitted asks the application runner, another process,   *)
(* to bring the Preview schema to its artifact's migrations (`prepare`).   *)
(* A history that diverged is reset when the Project has no application,   *)
(* and the Hub holds a lock that keeps it without one until the runner     *)
(* answers. A deletion writes a tombstone and then repeats idempotent      *)
(* steps until all are done.                                               *)
(*                                                                         *)
(* Of one Project. Simplifications: a run is its row, its artifact and its *)
(* prepare; the waits behind other Projects' prepares are delays of this   *)
(* one; the roles of the data plane go with the schema; the machines of a  *)
(* deleted Project, killed between the release and the purge, are left     *)
(* out; what nobody reads again of an answered prepare is forgotten.       *)
(***************************************************************************)
EXTENDS Naturals, Sequences, FiniteSets, SequencesExt

CONSTANTS
  Runs,       \* the Project's runs
  Deleters,   \* the administrators that delete it
  Artifacts,  \* the lists of migrations a build may carry
  None

ASSUME ArtifactsAssumption == \A a \in Artifacts : a \in Seq(Nat \ {0})

VARIABLES
  stored,    \* whether the Project's row is there
  repo,      \* whether its repository is
  app,       \* whether it has an application (iam.application)
  grave,     \* its tombstone: none, begun, purged or completed
  open,      \* the runs whose rows are open
  lost,      \* the runs a pass settled while their Hub still works them
  cut,       \* the runs whose presence lock was lost under a reset's prepare
  at,        \* where the Hub is with each run's prepare
  artifact,  \* the migrations of its build
  mode,      \* what its prepare may do with a history that diverged
  late,      \* the prepares whose time to start a reset is over
  chain,     \* the prepares the Hub has not finished, in order
  line,      \* the prepares the runner has not finished, in order
  doing,     \* what the runner does for the first of them
  ledger,    \* the applied migrations, or NoSchema
  releases,  \* the releases the runner has not finished
  step       \* where each administrator's deletion is

projectVars == <<stored, repo, app, grave>>
runVars == <<open, lost, cut, at, artifact, mode>>
runnerVars == <<line, doing, ledger>>
asked == <<at, artifact, mode, late, cut, chain, line>>
vars == <<stored, repo, app, grave, open, lost, cut, at, artifact, mode, late, chain,
          line, doing, ledger, releases, step>>

NoSchema == <<0>>

First(r, s) == s # <<>> /\ Head(s) = r

Init ==
  /\ stored = TRUE /\ repo = TRUE /\ app = FALSE /\ grave = "none"
  /\ open = {} /\ lost = {} /\ cut = {}
  /\ at = [r \in Runs |-> "idle"]
  /\ artifact = [r \in Runs |-> <<>>]
  /\ mode = [r \in Runs |-> "none"]
  /\ late = {} /\ chain = <<>> /\ line = <<>> /\ doing = "none"
  /\ ledger = NoSchema
  /\ releases = {} /\ step = [d \in Deleters |-> "idle"]

-----------------------------------------------------------------------------
(* People: a message starts a run, a grant makes the application *)

\* What admitProject asks of the row it locks: it is there, and no deletion took it.
Admitted == stored /\ grave = "none"

Begin(r) ==
  /\ at[r] = "idle" /\ Admitted /\ open = {}
  /\ open' = {r}
  /\ at' = [at EXCEPT ![r] = "turn"]
  /\ \E a \in Artifacts : artifact' = [artifact EXCEPT ![r] = a]
  /\ UNCHANGED <<projectVars, lost, cut, mode, late, chain, runnerVars, releases, step>>

\* The prepares that hold the shared lock: they were told the Project has no application.
Holding == {r \in Runs : at[r] = "sent" /\ mode[r] = "RESET"}

\* The first grant makes the application. Its transaction takes the lock alone.
Grant ==
  /\ Admitted /\ ~app /\ Holding = {}
  /\ app' = TRUE
  /\ UNCHANGED <<stored, repo, grave, runVars, late, chain, runnerVars, releases, step>>

-----------------------------------------------------------------------------
(* The Hub's half of a prepare *)

\* The run is on main and its row says so; its prepare goes behind the others.
Prepares(r) ==
  /\ at[r] = "turn" /\ r \in open
  /\ at' = [at EXCEPT ![r] = "queued"]
  /\ chain' = Append(chain, r)
  /\ UNCHANGED <<projectVars, open, lost, cut, artifact, mode, late, runnerVars, releases, step>>

\* The request reaches the runner, which puts it behind the Project's others.
Sends(r, what) ==
  /\ at' = [at EXCEPT ![r] = "sent"]
  /\ mode' = [mode EXCEPT ![r] = what]
  /\ line' = Append(line, r)
  /\ UNCHANGED <<projectVars, open, lost, cut, artifact, late, chain, doing, ledger, releases, step>>

\* The first look at whether the Project has an application.
Looks(r) ==
  /\ at[r] = "queued" /\ First(r, chain)
  /\ IF app
     THEN Sends(r, "REFUSE")
     ELSE /\ at' = [at EXCEPT ![r] = "looked"]
          /\ UNCHANGED <<projectVars, open, lost, cut, artifact, mode, late, chain, runnerVars,
                         releases, step>>

\* What the second look, under the lock, allows.
Allowed == IF app THEN "REFUSE" ELSE "RESET"

Locks(r) == at[r] = "looked" /\ Sends(r, Allowed)

\* Broken: the chain goes on from a prepare that settled.
BackInLine(r) == at' = [at EXCEPT ![r] = "told"] /\ UNCHANGED chain

\* The call settles: the Hub lets the lock go and the next prepare starts.
Back(r) == /\ at' = [at EXCEPT ![r] = "told"]
           /\ chain' = Tail(chain)

\* The Hub gives up after PREPARE_TIMEOUT_MS. By then the time to start a reset is over, and a
\* reset that started ended, its DROP being bounded.
TimesOut(r) ==
  /\ at[r] = "sent"
  /\ mode[r] = "RESET" => r \in late /\ ~(First(r, line) /\ doing = "resetting")
  /\ Back(r)
  /\ UNCHANGED <<projectVars, open, lost, cut, artifact, mode, late, runnerVars, releases, step>>

\* The connection that holds the lock is lost: the Hub aborts its call, the runner goes on.
LockLost(r) ==
  /\ r \in Holding
  /\ cut' = cut \cup {r}
  /\ Back(r)
  /\ UNCHANGED <<projectVars, open, lost, artifact, mode, late, runnerVars, releases, step>>

\* The run writes its ending, or a pass does for a run whose Hub stopped.
Settles(r) ==
  /\ at[r] \in {"turn", "told"}
  /\ at' = [at EXCEPT ![r] = "over"]
  /\ open' = open \ {r}
  /\ UNCHANGED <<projectVars, lost, cut, artifact, mode, late, chain, runnerVars, releases, step>>

\* The run loses its lease and a pass settles its row, while its prepare goes on.
LeaseLost(r) ==
  /\ r \in open /\ at[r] \in {"queued", "looked", "sent"}
  /\ open' = open \ {r}
  /\ lost' = lost \cup {r}
  /\ UNCHANGED <<projectVars, cut, at, artifact, mode, late, chain, runnerVars, releases, step>>

-----------------------------------------------------------------------------
(* The application runner *)

\* The migrations in flight for the Project.
Ahead == {line[i] : i \in DOMAIN line}

\* resetBefore passes for a prepare that was sent.
WindowCloses(r) ==
  /\ mode[r] = "RESET" /\ r \in Ahead \ late
  /\ late' = late \cup {r}
  /\ UNCHANGED <<projectVars, runVars, chain, runnerVars, releases, step>>

\* What was asked of the runner is of no use once it answered, or stopped.
Forgets(R) ==
  /\ artifact' = [r \in Runs |-> IF r \in R THEN <<>> ELSE artifact[r]]
  /\ mode' = [r \in Runs |-> IF r \in R THEN "none" ELSE mode[r]]
  /\ late' = late \ R /\ cut' = cut \ R

\* The runner's answer to the first prepare; the Hub may have stopped waiting for it.
Replies(r) ==
  /\ line' = Tail(line) /\ doing' = "none"
  /\ IF at[r] = "sent" THEN Back(r) ELSE UNCHANGED <<at, chain>>
  /\ Forgets({r})

Applied == IF ledger = NoSchema THEN <<>> ELSE ledger
Diverged(r) == ~IsPrefix(Applied, artifact[r])

\* Broken: a reset may start as late as it likes.
InWindowAnyTime(r) == mode[r] = "RESET"

\* Whether the runner may start a reset now.
InWindow(r) == mode[r] = "RESET" /\ r \notin late

\* The allocation is made, the ledger read and the migrations planned.
Plans(r) ==
  /\ First(r, line) /\ doing = "none"
  /\ ledger' = Applied
  /\ \/ /\ Diverged(r) /\ InWindow(r)
        /\ doing' = "resetting"
        /\ UNCHANGED asked
     \/ /\ Diverged(r) /\ ~InWindow(r)
        /\ Replies(r)
     \/ /\ ~Diverged(r) /\ Applied = artifact[r]
        /\ Replies(r)
     \/ /\ ~Diverged(r) /\ Applied # artifact[r]
        /\ doing' = "applying"
        /\ UNCHANGED asked
  /\ UNCHANGED <<projectVars, open, lost, releases, step>>

\* The DROP commits, or fails, and the schema is made again.
Resets(r) ==
  /\ First(r, line) /\ doing = "resetting"
  /\ \/ ledger' = <<>> /\ doing' = "applying" /\ UNCHANGED asked
     \/ Replies(r) /\ UNCHANGED ledger
  /\ UNCHANGED <<projectVars, open, lost, releases, step>>

\* The worker applies what is pending in one transaction: all of it or nothing.
Applies(r) ==
  /\ First(r, line) /\ doing = "applying"
  /\ \/ ledger # NoSchema /\ ledger' = artifact[r]
     \/ UNCHANGED ledger
  /\ Replies(r)
  /\ UNCHANGED <<projectVars, open, lost, releases, step>>

-----------------------------------------------------------------------------
(* The deletion *)

\* The tombstone, under the Project row's lock, unless the Project is busy. One that is there
\* is resumed, unless it is completed.
Buries(d) ==
  /\ step[d] = "idle"
  /\ \/ /\ Admitted /\ open = {}
        /\ grave' = "begun"
     \/ /\ grave \in {"begun", "purged"}
        /\ UNCHANGED grave
  /\ step' = [step EXCEPT ![d] = "release"]
  /\ UNCHANGED <<stored, repo, app, runVars, late, chain, runnerVars, releases>>

AsksRelease(d) ==
  /\ step[d] = "release"
  /\ step' = [step EXCEPT ![d] = "released"]
  /\ releases' = releases \cup {[by |-> d, behind |-> Ahead]}
  /\ UNCHANGED <<projectVars, runVars, late, chain, runnerVars>>

\* Broken: a release does not wait for the migrations in flight.
ReleasesAtOnce(x) ==
  /\ releases' = releases \ {x}
  /\ ledger' = NoSchema
  /\ step' = [d \in Deleters |-> IF d = x.by THEN "purge" ELSE step[d]]
  /\ UNCHANGED <<projectVars, runVars, late, chain, line, doing>>

\* The schema and the roles go. A release nobody waits for any more still drops them.
Releases(x) ==
  /\ x.behind \cap Ahead = {}
  /\ releases' = releases \ {x}
  /\ ledger' = NoSchema
  /\ step' = [d \in Deleters |-> IF d = x.by THEN "purge" ELSE step[d]]
  /\ UNCHANGED <<projectVars, runVars, late, chain, line, doing>>

\* The rows go in one transaction, the Project's last; a busy Project refuses.
Purges(d) ==
  /\ step[d] = "purge"
  /\ IF open = {}
     THEN /\ stored' = FALSE /\ app' = FALSE
          /\ grave' = IF grave = "begun" THEN "purged" ELSE grave
          /\ step' = [step EXCEPT ![d] = "repository"]
     ELSE /\ step' = [step EXCEPT ![d] = "idle"]
          /\ UNCHANGED <<stored, app, grave>>
  /\ UNCHANGED <<repo, runVars, late, chain, runnerVars, releases>>

DeletesRepository(d) ==
  /\ step[d] = "repository"
  /\ repo' = FALSE
  /\ step' = [step EXCEPT ![d] = "complete"]
  /\ UNCHANGED <<stored, app, grave, runVars, late, chain, runnerVars, releases>>

Completes(d) ==
  /\ step[d] = "complete"
  /\ grave' = "completed"
  /\ step' = [step EXCEPT ![d] = "idle"]
  /\ UNCHANGED <<stored, repo, app, runVars, late, chain, runnerVars, releases>>

\* The caller of a release is gone: it stopped waiting, or its Hub did.
Unheard(D) == {[x EXCEPT !.by = IF x.by \in D THEN None ELSE x.by] : x \in releases}

\* A step fails: the deletion answers that it is incomplete, and may be asked again.
Fails(d) ==
  /\ step[d] # "idle"
  /\ step' = [step EXCEPT ![d] = "idle"]
  /\ releases' = Unheard({d})
  /\ UNCHANGED <<projectVars, runVars, late, chain, runnerVars>>

-----------------------------------------------------------------------------
(* Processes that stop *)

\* The Hub stops: its prepares, their locks and its deletions are gone. The runner goes on.
HubStops ==
  /\ cut' = cut \cup Holding
  /\ at' = [r \in Runs |-> IF at[r] \in {"turn", "queued", "looked", "sent"} THEN "told" ELSE at[r]]
  /\ chain' = <<>>
  /\ step' = [d \in Deleters |-> "idle"]
  /\ releases' = Unheard(Deleters)
  /\ UNCHANGED <<projectVars, open, lost, artifact, mode, late, runnerVars>>

\* The runner stops: what it did in a transaction is rolled back, and every call to it fails. Of the
\* Hub's prepares only the first was sent.
RunnerStops ==
  /\ line' = <<>> /\ doing' = "none"
  /\ at' = [r \in Runs |-> IF at[r] = "sent" THEN "told" ELSE at[r]]
  /\ chain' = IF \E r \in Runs : at[r] = "sent" THEN Tail(chain) ELSE chain
  /\ releases' = {}
  /\ step' = [d \in Deleters |-> IF step[d] = "released" THEN "idle" ELSE step[d]]
  /\ Forgets(Ahead)
  /\ UNCHANGED <<projectVars, open, lost, ledger>>

Next ==
  \/ Grant \/ HubStops \/ RunnerStops
  \/ \E r \in Runs :
       \/ Begin(r) \/ Prepares(r) \/ Looks(r) \/ Locks(r) \/ TimesOut(r) \/ LockLost(r)
       \/ Settles(r) \/ LeaseLost(r) \/ WindowCloses(r)
       \/ Plans(r) \/ Resets(r) \/ Applies(r)
  \/ \E d \in Deleters :
       \/ Buries(d) \/ AsksRelease(d) \/ Purges(d) \/ DeletesRepository(d)
       \/ Completes(d) \/ Fails(d)
  \/ \E x \in releases : Releases(x)

Spec == Init /\ [][Next]_vars

-----------------------------------------------------------------------------
(* Properties *)

\* Every variable holds what the code's types say: the Hub's line and the runner's hold each run
\* once, in the places of the calls they stand for, and no deletion goes on behind a Project
\* without a tombstone.
TypeOK ==
  /\ stored \in BOOLEAN /\ repo \in BOOLEAN /\ app \in BOOLEAN
  /\ grave \in {"none", "begun", "purged", "completed"}
  /\ open \subseteq Runs /\ lost \subseteq Runs /\ cut \subseteq Runs /\ late \subseteq Runs
  /\ at \in [Runs -> {"idle", "turn", "queued", "looked", "sent", "told", "over"}]
  /\ artifact \in [Runs -> Artifacts \cup {<<>>}]
  /\ mode \in [Runs -> {"none", "REFUSE", "RESET"}]
  /\ IsInjective(chain) /\ IsInjective(line)
  /\ {chain[i] : i \in DOMAIN chain} = {r \in Runs : at[r] \in {"queued", "looked", "sent"}}
  /\ {r \in Runs : at[r] = "sent"} \subseteq Ahead
  /\ doing \in {"none", "resetting", "applying"}
  /\ releases \subseteq [by : Deleters \cup {None}, behind : SUBSET Runs]
  /\ step \in [Deleters -> {"idle", "release", "released", "purge", "repository", "complete"}]
  /\ grave = "none" => \A d \in Deleters : step[d] = "idle"

\* "A Project with an application keeps its Preview data: a divergent migration history is
\* refused, never reset" (hub.ts): through prepares nobody waits for any more, runners and
\* Hubs that stop and grants that come in between. The one window it leaves (section 6,
\* Presence, of the part's spec) is a prepare whose lock was lost, with its connection or its
\* Hub, once the runner had the request: it may start its reset until resetBefore.
ApplicationKeepsItsData ==
  [][app /\ grave = "none" /\ ledger # NoSchema /\ ~IsPrefix(ledger, ledger')
       => \E r \in cut : First(r, line) /\ doing = "resetting"]_vars

\* A completed deletion left nothing: no row, no application, no repository and no open run,
\* whatever was repeated by whom after which failure. The Preview schema is gone too, and only
\* the prepare of a run that lost its lease, which nobody counts as open, can bring it back.
CompletedLeavesNothing ==
  grave = "completed" =>
    /\ ~stored /\ ~app /\ ~repo /\ open = {}
    /\ ledger # NoSchema => lost # {}

=============================================================================
