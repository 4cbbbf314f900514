# Conexus OS in TLA+

Conexus OS is a platform on which the people of a company ask an agent to change applications
("Projects"). A message makes a *run*: an agent works in a sandbox, a gate checks what it made, and the
change is *admitted* by moving `main` of the Project's repository in the Conexus Git. One Node process,
the Hub, does all of it over one PostgreSQL database; a second process, the application runner, keeps the
applications' data.

This directory models what the rest serves, **the life of a Builder run**, and the protocols around it:
the source of a turn, the conversation and its machine, the subscriptions it calls models with, the calls
to a Project's Connections, and the data a Project keeps and loses. Each model has the interleavings,
crashes, lost answers, timeouts and retries its code handles; TLC checks it, and TLAPS proves the theorems of section 4.

## 1. Inventory

Paths are under `src/apps/hub/src/`. "→" names the hard behaviour and what correctness means.

| Component | State it keeps | Operations | → | Modelled by |
|---|---|---|---|---|
| run rows, `builder/run-lifecycle.ts` | `builder.builder_run`: state, owner, cancellation, candidate, result, ending | create or replay, claim, phase, record candidate, advance, settle, fail, interrupt, cancel | every write is guarded by the row, each may commit with its answer lost → one open run per Project; an ended row is final | `BuilderRun` |
| live run, `builder/run/run.ts`, `run/admit.ts` | in memory: stage, stop signal, keepalive failure, session, VM | claim, prepare, converse, conclude, admit, settle, exit | a stop, a failure and a Hub's stop at every await → the ending says what happened | `BuilderRun` |
| run lease, `builder/run-lease.ts`, `builder/service.ts` | owner and heartbeat of a row; `takenOver` map | heartbeat, take over stale rows, settle them | settles from a snapshot while starts and stops go on | `BuilderRun` |
| Conexus Git, `builder/conexus-git.ts` | `main`, a mirror ref per conversation | fast forward `main`, start a turn, move a mirror, bundle, pull | compare and swap with read back; writes that outlive their turn | `BuilderRun`, `TurnSource` |
| turn mirror and checkout, `run/mirror.ts`, `run/checkout.ts` | chain of pushes, expected head, the machine's files | push, end, start, seed, settle | order of pushes, a failed or hanging push → no work is lost | `TurnSource` |
| candidate gate, `builder/candidate-gate.ts`, `run/judge.ts` | verdicts by revision, red count | finish, settle | stale verdicts, a spent budget → only what passed comes to `main` | `TurnSource` |
| question inbox, `builder/run/question.ts` | one reply slot | open, answer, message, expire, stop | four events race for one slot | `LiveConversation` |
| live conversations and sandboxes, `builder/conversation*.ts`, `sandbox.ts`, `idle-machine-sweep.ts` | entries per conversation, machines, their deadlines | open, retire, sweep, hold, reap | idle read, then let go of, while a run begins | `LiveConversation` |
| model accounts, `builder/oauth-holds.ts`, `model-account/accounts.ts` | a row of tokens, held tokens, a refresh in flight | hold, refresh, rewrite, sign in | a refresh token is spent once | `ModelAccounts` |
| Google proxies, `google-ai-pro/pool.ts`, `write-back.ts` | child processes, leases, copies of a record | lease, start, stop, sweep, close | a process that exits, stops and starts in one directory | `CliproxyPool` |
| Google sign-in, `google-ai-pro/login.ts` | the current sign-in, its proxy, outcome, timer | start, status, complete, expire | four ways to end a sign-in at once | `GoogleSignIn` |
| connectors, `connectors/*` | token cache, lanes, call scope | fetch, lease, forget, disable | forget, again and again, against an issue in flight; one request per token | `ConnectorCalls` |
| Project deletion, `project/deletion.ts` | tombstone | refuse while busy, delete in steps | a failure between two external effects | `ProjectData` |
| application runner, `app-runner/*` | prepare chains, the applied migrations | prepare, release, call | a request its asker gave up on → data is never reset under people | `ProjectData` (prepare and release) |
| platform, `platform/*`, `hub.ts` | instance lock, jobs, receipts | boot, close, job passes, receipts | one Hub per database; orderly close | `BuilderRun` (boot, crash, close, the lease job) |
| Project creation, `project/store.ts` | Project, receipt, repository | create, retry | an effect between two transactions | no |
| registry, hosting, `registry/*`, `hosting/*` | sealed artifacts | seal, retain, serve | content addressing | no |
| identity and workspaces, `identity-access/*` | accounts, memberships | admission proofs | order of checks in SQL | admission and presence in `ProjectData` |
| `apps/web`, `apps/keycloak-theme`, `packages`, `contracts`, `infra`, `scripts` | none the protocols read | | user interface, schemas, deployment | no |

How they interact: an HTTP route calls the service; the service writes a row and starts a live run; the
live run writes the row through `withRun`, whose proof is that *this Hub owns the row and it is open*;
it moves `main` through the Conexus Git; a person's stop writes the row and then signals the live run;
a job of the Hub runs the lease pass, which takes over rows nobody works. A live run opens its conversation's
sandbox and session, seeds a checkout from `main` and its mirror, lets the agent work on tokens it holds
of a subscription, has each finish judged, waits on the person through its inbox, and at its admission asks
the runner to prepare the application's data, behind the prepares the Hub sent before. Jobs let go of what is idle:
sessions, machines, proxies. A deletion is refused while a run is open.

## 2. Modules

| Module | Models | Its state, in the code |
|---|---|---|
| `BuilderRun` | rows, live runs, lease pass, stop, `main`, the Hub's boots, crashes and closes, the database's faults | below |
| `AdmissionPromise` | what the Builder promises, with no Hub, row, lease or signal in it | abstract: `BuilderRun` implements it |
| `TurnSource` | the files of a conversation's turns: checkout, mirror, gate, `main` | `log`: revisions; `main`, `mirror`: refs; `vm`: the checkout; `turn`: `TurnStart`; `push[n]`: `createTurnMirror`'s variables; `gate`: `createCandidateGate`'s |
| `LiveConversation` | a conversation's instance, session and machine, the run on them, its inbox, the two idle jobs | `entry`, `retiring`, `session`, `opening`: `conversation.ts`'s entry, its session and an `open` between its two awaits; `vmOf`, `lane`: a sandbox and its chain of deadlines; `machines`: E2B's; `inbox`: `createInbox`'s; `sweep`, `reap`: a job between two awaits |
| `ModelAccounts` | one subscription's row and the runs that hold it | `kind`, `tokens`: the row; `at[r]`, `current[r]`, `stored[r]`: `hold`'s; `flight`: `refreshing` |
| `CliproxyPool` | one Google key's proxy processes | `entry`: `instances.get(id)`; `place[n]`: where `start` or `stop` is with the n-th process; `child[n]`, `leases[n]`, `idle[n]`: an `Instance`'s; `copy`, `read`: the record in the directory |
| `GoogleSignIn` | the sign-ins to Google | `starting`, `current`: `login.ts`'s; `start[n]`, `by[n]`, `replaces[n]`: the call; `outcome`, `settling`: an `Attempt`'s; `proxy`, `record`: its process and directory; `connected`: the account's row, `lost`: a commit whose answer was lost |
| `ConnectorCalls` | calls to Connections | `entry[c]`: the token cache's; `issue[t]`, `serves[t]`, `began[t]`: an authentication, `orphans`: those a forget came between; `lane[t]`: `inLane`'s chain; `call[k]`, `of[k]`, `attempt[k]`, `token[k]`: `executeFetch` and `withToken`; `spent`, `revoked`: `scope.ts`'s |
| `ProjectData` | a Project's row, application, repository, tombstone and Preview schema | rows; `at[r]`, `mode`, `chain`: the Hub's prepares; `line`, `doing`, `ledger`, `releases`: the runner's; `step[d]`: a deletion |
| `MC…` | the model values and symmetries TLC uses | |
| `BuilderRun_proofs`, `TurnSource_proofs`, `LiveConversation_proofs`, `ProjectData_proofs`, `ModelAccounts_proofs`, `CliproxyPool_proofs`, `GoogleSignIn_proofs`, `ConnectorCalls_proofs` | the proofs of section 4 | |

The modules split the system where its parts meet in few events. `BuilderRun` says when a run ends and what
its row says, and has the checkout, the gate and the inbox as choices among their outcomes; `TurnSource` has
which files are where, and of the row nothing; `LiveConversation` has of a row whether it is open, and of the
source nothing; `ProjectData` has a run as its row, its artifact and its prepare.
The header of each module names what it simplifies. One action is what happens between two awaits that
another actor can observe. An external effect may fail where the code handles a failure, within the bound `MaxFaults`.
*Operators marked `broken`* are not used by a specification. Each is a definition as a plausible bug would
have it, and says what the bug is.

### `BuilderRun`

* `row` is the table, with the columns guards read. `main` is the git ref, as the set of changes in its
  history. `db`, `faults` say whether a transaction succeeds.
* `hub`, `epoch`: the process. `epoch` is its owner id (a Hub's id is new at each boot).
* `pc[r]` is the call a live run makes next, `stage[r]` is `RunStage`, `stop[r]` the abort reason,
  `final[r]`, `tries[r]` the exit's `outcome` and attempt.
* `todo`, `seen`, `settling`, `step`, `loss` are the lease pass: rows taken, their snapshot, the one
  being settled, the `await` it is at, and the `takenOver` map.
* `pending`, `signals`: requests between their transaction and what they do after it.

A transaction is one action with up to three outcomes: it commits and answers; it commits and its answer is
lost (`AnswerLost`: the connection drops on COMMIT, `platform/db.ts` throws though the row changed); it fails
while the database is down. The failure of an action goes through `Fail`, which is `outcomeOf` and the
exit, so each await of `run.ts` has the same ways out the code gives it. What is abstracted, and why it
loses nothing the properties tell apart: *`phase`* is written and never read by a guard, and what its write
refuses is kept (`SetPhase`). *Time*: a row no listed live run works may be stale at any moment; a question
may expire at any moment; this adds behaviours, never removes them. *A git command that outlives a crashed
Hub* lands at the crash or never, and at most one does. One Hub per database is given by the advisory lock,
so two never run at once.

Two assumptions on timing. The lease runs every 10 s and takes a row over 30 s after its last heartbeat
(`src/docs/reference/pilot-supervision.md`, `RUN_STALE_AFTER_MS`). Constant `Prompt` says what of that is assumed:

* `"pass"`: what a pass decided about a run is written before a start of that run has come to its
  candidate. A start has a sandbox to open, a turn of the agent and a check before it; the pass has one
  or two transactions. The code has no guard for it: without it a pass may fail a run whose candidate is
  recorded since. What holds without it is what the theorems say that do not assume it: all but `EndingsAgree`
  and `PromiseIsKept`.
* `"start"`: a start that is under way is over before its row turns stale. Assumed only in runs that
  show something the code does, to show that it happens even then.

### The modules around it

* **`TurnSource`.** A turn merges `main` into the mirror, seeds the checkout from it or keeps the one there is,
  lets the agent edit and finish, and writes what it pulls to the mirror, one write after another. An edit-time write, the
  gate's pull and the end's write interleave with edits the agent's processes make, and a write may hang and
  outlive its turn. Revisions are numbers with a tree and a past, so a compare and swap, a merge
  and an "is an ancestor of" are what git answers.
* **`LiveConversation`.** The instance is found or made again whenever somebody opens the conversation:
  a run, or the browser. To open its session is two awaits more, between which a kill or a sweep may retire the instance:
  the session is then made on the workspace of whatever entry there is, or of none. The deletion of a session may fail,
  and then the next open finds the old one; an open whose session has not the workspace it found is refused. A
  run holds its machine with a deadline that it sets without awaiting it, lets it go while it
  waits, and takes it back on an answer. The idle sweep and the reaper read what is idle in one step and act in another.
* **`ModelAccounts`.** Tokens are their grant and how often it was refreshed; the provider honours the last
  ones. A run reads the row, joins the refresh in flight or begins one; the flight reads the row for the run that
  began it, spends the token and writes the row by its id.
* **`CliproxyPool`.** Every process of a key has the same directory. A process that exits between the answer
  that it is available and the handler that would hear of it stays "ready" until the idle pass, as in the code.
* **`GoogleSignIn`.** A look, a pasted address, the timer and the person's next start each end a sign-in; `finish`
  keeps the first outcome and closes the proxy. The connection of the account commits in one step and is answered in
  another, where the answer may be lost: the look then fails and the sign-in goes on waiting.
* **`ConnectorCalls`.** A call is admitted against its scope and its binding, leases a token, waits in the
  token's lane, sends, and on a refusal drops the token and leases once more. Its deadline answers the consumer while its
  work goes on. Every request that disables a Connection forgets its entry, a repeated one too.
* **`ProjectData`.** A prepare is in three hands: the Hub's chain, the request, the runner's chain. Each gives
  up by itself: the Hub after two minutes, the runner by stopping, the presence lock by losing its connection. A
  deletion may fail after any step and be asked for again, by two administrators at once.

## 3. What is checked

`tlc -config <run>.cfg <module>`. Figures are distinct states.

| Run | Instance | Checks |
|---|---|---|
| `OneRun` (184 000) | `MCBuilderRun`: 1 run, 3 Hubs, 1 fault, a foreign writer, all events, `FairSpec` | `RowFollowsMain`, `EndingAgreesWithMain`, `StopIsNamed`, `StoppedRunEnds`, `HubStops`, `EveryRunEnds` |
| `Promise` (780 000) | 2 runs of a conversation, 2 Hubs, all events | `OneOpenRun`, `SettledRunNeverRewritten`, `StopPreventsAdmission`, `KeepsThePromise`: `BuilderRun` implements `AdmissionPromise` |
| `Turns` (1.4 million) | `MCTurnSource`: 2 trees, one of which passes, 2 turns, 2 red finishes, 4 revisions, 1 fault | `MainPassesTheCheck`, `AdmittedIsWhatTheTurnLeft`, `EndedTurnIsMirrored`, `MirrorKeepsMain`, `TurnEnds` |
| `Waits` (868 000) | `MCLiveConversation`: 2 runs, 2 questions, 3 instances, 2 machines, 1 message key, 1 fault | `OneReplyEndsEachWait`, `HeldMachineStaysAwake`, `RunKeepsItsInstance`, `ReaperSparesOpenRuns`, `RunComesToRest` |
| `Models` (2.5 million) | `MCModelAccounts`: 2 runs, 2 writes of the row, 2 refreshes of a grant, 1 crash, 1 fault | `RowHasTheLastTokens`, `SpentTokenIsNotSentAgain` |
| `Pool` (54 000) | `MCCliproxyPool`: 2 calls, 2 processes, 1 crash, 1 failed start | `OneProxyRuns`, `LeasedProxyIsNotStopped`, `StoppedProxyIsRead`, `CloseLeavesNoProxy`, `CallsHear` |
| `SignIns` (643 000) | `MCGoogleSignIn`: 1 person, 3 sign-ins | `OutcomeSaysConnected`, `OutcomeIsFinal`, `SignInsEnd` |
| `Calls` (604 000) | `MCConnectorCalls`: 2 calls on a Connection, a budget of 2, 4 authentications | `ForgottenHoldsNoToken`, `FreshTokenKept`, `OneAuthenticationAtATime`, `OneServicePerToken`, `CallsEnd` |
| `Data` (1.2 million) | `MCProjectData`: 2 runs, 2 deletions, artifacts `<<1>>` and `<<1, 2>>`, any number of crashes | `CompletedLeavesNothing`, `ApplicationKeepsItsData` |

`Turns`, `Waits` and `Data` check their module's `TypeOK` too. That of every module is proved.

What they show, of what a test would hardly reach:

* **Runs.** Through crashes, lost answers, stops and passes, a row says its source changed exactly when `main`
  has the change; nobody but who stopped it is named; a Project has one open run; a stopped run ends, a closing
  Hub exits and no run stays open for ever.
* **Source.** Nothing reaches `main` that the check did not pass, though verdicts are cached and edits go on behind
  them; what is admitted is what the turn left; an ended turn's work is in the mirror, and what a mirror had of `main` stays.
* **Conversations.** One reply ends each wait and none is taken twice; a held machine is not on its way to
  be paused; no sweep or kill works on the instance a run has, and no run on the session of another; every run comes to rest.
* **Accounts.** Runs that find tokens expired together spend the refresh token once, and the row has the last
  tokens, whoever ended meanwhile. A proxy is never stopped under a call, and no two run in one directory.
* **Sign-ins.** Nobody is told of a success that is none, and no sign-in goes on waiting over an account it connected, unless
  the database lost the answer.
* **Connections.** Calls that miss together share an authentication, and one at a time has the credential, however often
  the Connection is forgotten. A forgotten Connection's token is not put back by an authentication in flight; a refused call
  costs no later call its token; a token carries one request at a time; a failure in a lane lets the next go on.
* **Data.** A divergent history is reset only while the Project has no application, a late runner and a late Hub
  included, but for the one window the repository names; a deletion that completed left nothing.

Why the bounds are enough. *Runs*: three Hubs let the second Hub crash while it settles what the first left and the
third settle both; one fault is a lost answer, and while the database is down every transaction fails, whatever
its number. Two runs are what one pass, one Project's busy check and one conversation's slot can confuse; a
third meets only the same pairs. What a second Project adds, a pass over a snapshot it read long before, is proved
for every number of them. *Source*: two turns are a turn and one under which it left a write; four revisions
are a merge, two pulls of changed files and one more; two trees are one that passes and one that does
not; a second red finish spends the budget. *Conversations*: two runs and two machines give each a
successor that the first one's deadlines, kill or sweep may hit; three instances are the one that is let go of,
its replacement, and one whose name a session or an open under way still has; one fault is a deletion, a kill or
a call that fails; two questions let a key be offered to a later wait. *Accounts*: a second run joins or
overtakes the first one's flight; a second write replaces the row under it; a second refresh follows a spent
one. A second process of a proxy starts beside the first one's stop, exit or failed start, which are the
pairs a directory and an entry can be confused by; three sign-ins are one that is replaced, its replacement
and a start that comes between. *Connections*: two calls are a holder and one that waits or was refused;
four authentications are one each, one more after each refusal; a Connection is forgotten any number of times.
*Data*: two runs are a prepare that the Hub
gave up on and the next; the two artifacts are a history and one it diverges from, in either order; two
deletions are one that fails and its retry, or two at once.

Every bound is a constant in the guard of the actions it bounds (`Boot`, `Crash`, `Begin`, `Unused`, `Faulty` and
the like), commented "bound" where it is declared. Deadlock is not checked: when all runs, calls and sign-ins
were made and no fault is left the
bounded system does stop. That nothing stops early is what the liveness properties say. Symmetry is used
only in runs without liveness: runs of one conversation (or of one row, or Project), and administrators,
are told apart by nothing else.

### Fairness

* `BuilderRun`, `FairSpec`: a call that can be made is made (weak fairness of the live run, the start, the
  signal and the pass): each is a promise that settles. The lease job runs again after each pass
  (`platform/jobs.ts`) and takes every stale row in one statement, so a row that is stale again and again is taken
  (strong fairness: the pass is busy in between). PostgreSQL comes back, and a supervisor boots the Hub. A
  closing Hub drains its requests (strong fairness of `StopRuns`: a request may come before each drain, and the
  listener closes). No code bounds how often an agent asks: `EveryRunEnds` is about an agent that ends its
  turn if it can again and again, and `StoppedRunEnds` needs no such thing.
* `TurnSource`: each await of the turn settles, the agent finishes in the end (its turn has a silence limit), and
  nothing is assumed of edits, of other conversations or of a machine.
* `LiveConversation`: every call ends, the agent's turn by its silence limit, a wait by its timer; a retire settles
  whether its session's deletion does or fails. The sweep, the browser and E2B are not fair.
* `CliproxyPool`: every await of a start or a stop is bounded by a timer or ends with its process; the close waits for them.
* `GoogleSignIn`: every management call and stop has a deadline, and the timer fires. A person does nothing for sure.
* `ConnectorCalls`: a timer fires, a fetch answers or is aborted at the call's deadline, a read of the store settles. No
  administrator has to disable anything, and nothing assumes that a forget follows.

### Where the repository says otherwise

Three runs expect a violation; each checks a sentence of a doc or a comment.

* `PendingStop`: "a pending stop prevents a later success" (`architecture.md`). A run that changed no
  source settles without a look at the stop; between its FINALIZING phase and that write a stop may commit.
* `LiveRun`: "a run this Hub works is never taken over by it" (`service.ts`). A replay of the message
  that starts after the pass looked for the run is claimed while the pass settles it. What holds all the
  same is in the theorems that assume no timing.
* `OneSignIn`: "one sign-in at a time for the whole installation" (`login.ts`). A start that replaces its own
  sign-in takes the one place only after an await, in which another start finds the place free.

What no run expects, and the models show too:

* A queued row that never had an owner, because the answer of its creation was lost, ends `HUB_RESTART` with no Hub
  ever stopped, though "any other owner stopped with its process" (`service.ts`).
* A Hub that stops between the provider's answer and the commit takes the only copy of the new tokens, though
  "a Hub that stops never takes the only copy with it" (`oauth-holds.ts`). `lost` has the grants this happened to, and both
  properties of `ModelAccounts` name it as their exception.
* A start of a proxy that fails after the proxy refreshed, and the boot, delete the copy unread, though the
  write-back is called "just before that copy is deleted" (`pool.ts`); `StoppedProxyIsRead` is about the pool's stop. An exit
  handler's or a failed start's late removal may take the directory a new proxy has just been given, and that start fails.
* After a write that outlived its turn, every write of the next turn may be refused by the compare and swap
  (`EndedTurnIsMirrored` is about turns without one).
* A session whose deletion failed, or one that was made while a kill retired its instance, is on the workspace of an
  instance that is gone, or on none. Every open of the conversation is then refused (`BUILDER_SANDBOX_COMMAND_INTERFACE_REQUIRED`)
  until a sweep or a kill lets go of the conversation again and deletes the session. `RunKeepsItsInstance` says
  that no run works on it.
* A sign-in whose account was connected, and whose connection's answer the database lost, goes on waiting: a later look
  connects it again and ends it, or the timer tells the person that it expired (the exception in `OutcomeSaysConnected`).
* A call that retries after a Connection was forgotten may begin an authentication beside the one a forget left behind, and
  one more after each repeated forget; those begun after the disable are refused the credential.
* A run that starts between the reaper's read of the runs and its kill loses its machine.
* Deadlines are set one after another *per instance* (`sandbox.ts`), and a run's end does not wait for the one it
  sets (`checkout.ts`). When an instance is killed with a deadline still to set and the kill fails, the next instance
  resumes the same machine and the old deadline may land after its own: the machine pauses under a run until a
  keepalive sets the deadline again. `stray` records that it happened, and `HeldMachineStaysAwake` names it as its
  exception. The attempt to prove the property found this; with two faults TLC finds it too.
* The prepare of a run that lost its lease may bring back the schema of a deleted Project (the exception in
  `CompletedLeavesNothing`).
* A connection that drops under a prepare leaves a window for a reset, which
  `docs/specs/0015-checked-boundaries/0015-part-iam.md` accepts (the exception in `ApplicationKeepsItsData`).

## 4. What is proved

Every theorem is about every value of the constants: any number of runs, Projects, Hubs, processes, sign-ins, calls,
Connections and faults, from the assumptions the modules name. These say that counters and bounds are numbers (`BoundAssumption`,
`BudgetAssumption`), that the constants have the shape the module uses them in (`ShapeAssumption`, `IdsAssumption`,
`TreesAssumption`, `ArtifactsAssumption`), and that names of different kinds differ (`NamesAssumption`). Only
`EndingsAgree` and `PromiseIsKept` assume anything of timing.

### `BuilderRun`

* `TypeCorrect`: `Spec => []TypeOK`. `TypeOK` has the conjunct that a run at its exit's write has
  an ending to write, without which the row's types are not inductive. One lemma per way a live run moves
  (`FinishType`, `LeaveType`, `FailType`, `ProceedType`, `GoToType`), one per group of variables.
* `OneOpenRunHolds`: `Spec => []OneOpenRun`, and `SettledRunIsFinal`: `Spec => SettledRunNeverRewritten`.
  Both rest on `RowStep`: every step either makes a row where none was, in a Project with no open run,
  or changes only rows that are open. `RunStepWrites` and `PassStepWrites` prove it action by action:
  the guards `Mine`, `TakesPhase`, `CanSettleBuild` and `EndsUnclaimed` each imply the row is open.
* `MainMovesForward`: `Spec => NothingOverwritten`; `RowsFollowMain`: `Spec => []RowFollowsMain`;
  `StopIsRespected`: `Spec => StopPreventsAdmission`.
* `StopIsSomebodys`: `Spec => StopIsNamed`.
* `EndingsAgree`: `"pass" \in Prompt` gives `Spec => []EndingAgreesWithMain`.
* `PromiseIsKept`: `"pass" \in Prompt` gives `Spec => KeepsThePromise`, that `BuilderRun` implements `AdmissionPromise`.

The proofs about `main` say first what any step does, in one predicate per group of variables, each proved
action by action (`MainFollows`: only a run at its move is new on `main`; `RowsFollow`: who records a
candidate or a result; `PlacesFollow`: how a run comes to its move or its advance; `PassFollows`:
how the pass comes to an advance; `RowsEnd`: what a step ends; `CandidatesFollow`, `PassDecides`). The
invariants then follow from those predicates alone.

* `MainInv` strengthens `RowFollowsMain`: whoever may still move `main` has its candidate recorded
  (`MovesRecorded`: a run past `recordCandidate` does not check the row again); whoever is about to
  record an advance knows the change is on `main` (`AdvancesAdmitted`: the run moved it, the pass looked, or
  the result it read in the row said so, and `main` never goes back); a row not made yet has recorded
  nothing, so that making it forgets nothing (`NoRowNoCandidate`).
* `EndInv` strengthens `EndingAgreesWithMain`. A run at its move has a running row that no pass has in
  hand (`MovesAlone`), so `main` does not move after an ending. What a pass decided of a run is so until it
  writes it (`PassKnows`): no candidate if it closes, nothing on `main` if it refuses. A run whose change is
  on `main` settles it or writes nothing over it (`LandedSettles`), which needs that the memory of
  a run past its candidate says so (`StageFollows`): that is what keeps `outcomeOf` from failing
  it. A queued row has no candidate (`QueuedNoCandidate`), so that a stop may end it. `"pass"` is used in one
  lemma, `CandidatesStep`.
* `NameInv` is what `StopIsNamed` needs: who carries a stop (a signal, an aborted run, an ending to write) carries
  one that somebody asked for, of a run that has a row; an open row says nothing of a stop yet. Without the ending to
  write it is not inductive: the exit decides `USER_CANCELLED` in one step and writes it in another.

`PromiseIsKept` maps each step to one of the abstract specification or to none. What a step shows of its row
to the outside is one of three moves (`RowMoves`: it stays open with its candidate, it records the candidate of a
run nobody stopped, or it ends), and each is an abstract action (`RowMovesKeeps`): that an ending keeps or drops
what is on `main` comes from `RowsEnd` and `RowFollowsMain`. A run's move of `main` is `Admit` or a stutter
(`MovedKeeps`), which needs `MovesRecorded` and `MovesAlone`: whoever moves `main` has an open row with its
candidate recorded. The creation of a row is `Ask`, since the Project was not busy, and a row that was not made yet is
stopped by nobody (`NameInv`). Thus the refinement rests on `MainInv`, `EndInv`, `NameInv` and the types, and on
no invariant of its own.

### The source of a turn

`TurnSource_proofs`: `TypeCorrect`, `MainPasses` (`Spec => []MainPassesTheCheck`), `TurnIsMirrored`
(`Spec => []EndedTurnIsMirrored`), `AdmittedIsLeft` (`Spec => AdmittedIsWhatTheTurnLeft`) and `KeepsMain`
(`Spec => MirrorKeepsMain`), for any trees and any check. The inductive invariant, `SourceInv`, adds to the types:

* `LogFollows`: what is in a revision's past has its own past there. "Is an ancestor of", which every fast forward asks,
  is then transitive, and what a write builds on the mirror keeps what the mirror had of `main`.
* `StageFollows`, `PushesFollow`: where a turn or a push is says what it has. A turn that admits has a push
  that is over and a candidate that passed; a push that is over has nothing left to write.
* `WritesFollow`: what a push expects, and what it writes, is its start, something in the start's history, or a revision
  the turn made on that start. This is why a write that outlives its turn does no harm: what it expects is no longer the mirror.
* `MainIsBefore`: until a turn's push is over, nothing that the turn made is in `main`.
* `PassesTheCheck`: the cached verdicts are the check's. `CheckoutStays`: from the gate's pull on, what is judged,
  mirrored and admitted is the tree in the checkout, which no tool of the agent edits any more.
* `AloneWithTheMirror`: a turn that began with no push under way is the only writer of the mirror, and what it expects
  of it is there. `EndedTurnIsMirrored` is this conjunct at the end of a push.

One lemma per action says that it keeps the invariant (`…Keeps`).

### Conversations and their machines

`LiveConversation_proofs`: `TypeCorrect`, `OneReply` (`OneReplyEndsEachWait`), `InstanceIsKept`
(`RunKeepsItsInstance`), `HeldStaysAwake` (`HeldMachineStaysAwake`) and `ReaperSpares` (`ReaperSparesOpenRuns`), for any
number of runs, questions, instances and machines. The invariant `LiveInv`:

* `StageFollows`: where a run is says what it has, its instance, its hold and its open question. `RepliesFollow`:
  every reply accepted is for a question asked, and one for the open question is in its slot.
* `EntryFollows`: an instance that is let go of is not the conversation's any more, and what a run opens its session for
  is its own instance. The check of the session's workspace then gives `RunKeepsItsInstance`: whatever session an earlier
  run or a request of the browser left, a run that is not refused has one of its instance (`OpenedSession`).
* `DeadlineFollows` is the hold: from its start to its end the run's deadline is the last in its instance's lane, or
  the one the machine has. It is not inductive alone, because another instance's deadline may be set on the same machine.
  `OnlyTheEntrySets` says that none is left with one to set, but after the kill that fails (`stray`), for which
  `UsedWhilePending` is needed: an instance with a deadline to set is not swept, since a run used it.
* `LanesShort` bounds a lane, so that `TypeOK`'s bound is no assumption on how fast E2B answers.
* `MachinesKnown`, `ReapFollows`: a machine that was named was made; past its look the reaper's run is no open one.

### A Project's data

`ProjectData_proofs`: `TypeCorrect`, `CompletedIsGone` (`Spec => []CompletedLeavesNothing`) and `ApplicationKeeps`
(`Spec => ApplicationKeepsItsData`), for any number of runs, of deletions and of crashes, and any lists of migrations. `DataInv`:

* `QueuesFollow` relates the three hands of a prepare: only the first of the Hub's chain is past its queue, and the
  runner has none that the Hub did not send.
* `ResetFollows`: a prepare that may reset is one whose lock is held, so that no grant comes, or is one the
  Hub gave up on, whose lock is lost (the window the exception names). What the runner applies goes on from what is there.
* `DeletionFollows`: how far a deletion is says what is gone, of every deletion at once; unless a lost run is
  left, whatever the runner was given is behind the release that waits for it.

### The accounts, the proxies and the sign-ins

* `ModelAccounts_proofs`: `AccountTypeCorrect`, `RowIsUpToDate` (`Spec => []RowHasTheLastTokens`) and
  `RefreshTokenIsSpentOnce` (`Spec => SpentTokenIsNotSentAgain`). The row alone is not inductive. `FlightKnows` says that what the
  flight read is the row's still, unless a sign-in came, and that what it got is the provider's last; `RunsBehind`, that no
  run is ahead of the row or of what the flight read; `AllGiven`, that nobody has tokens the provider did not give.
  Each has a lemma for the flight's steps and one for the others.
* `CliproxyPool_proofs`: `PoolTypeCorrect`, `OneProxyRunsHolds`, `LeasedProxyStays`, `ClosedPoolIsEmpty` and
  `StoppedProxyWasRead`. `Placed` ties the place of a proxy to the entry of the map, both ways, and lets only the proxy the
  entry names have a process: two that run would both be named. `Leased` says that an open pool stops what nobody
  leases, `Closing` that a close has only the proxy it waits for, `Captured` that what a stop has read stays read.
* `GoogleSignIn_proofs`: `SignInTypeCorrect`, `OutcomeIsTrue` (`Spec => []OutcomeSaysConnected`) and `OutcomeStays`
  (`Spec => OutcomeIsFinal`). `Handed` says that only a sign-in that was handed out has an outcome, a look or a record;
  `Says`, that a success is of a connected account, and that one connected waits only for its look's answer or for good.

### The calls to Connections

* `ConnectorCalls_proofs`: `CallsTypeCorrect`, `ForgottenStaysForgotten` (`ForgottenHoldsNoToken`), `LaneCarriesOne`
  (`OneServicePerToken`), `AuthenticationsAreShared` (`OneAuthenticationAtATime`) and `LiveTokenIsKept`
  (`FreshTokenKept`). `EntryKnows` says that an entry which waits has an authentication of its own under way;
  `ForgottenKnows`, that one under way for a forgotten Connection has yet to read its credential, which refuses it, or is
  not the entry's; `OrphansKnow`, that one under way is its entry's unless a forget came between, and that those
  a forget left serve a
  Connection that is disabled, so that none after them gets the credential: this is why one at a time has it, for any
  number of calls and of forgets.
  `WorkKnows` says that who sends is first in its token's lane, which the lemmas on `Head`, `Tail` and `Append` keep.

### What is only model-checked

The eight liveness properties: `StoppedRunEnds`, `HubStops`, `EveryRunEnds`, `TurnEnds`, `RunComesToRest`, `CallsEnd`,
`CallsHear` and `SignInsEnd`. Each holds under fairness only, and a proof would need `ENABLED`, which is out of the
prover's reach. Every invariant and every action property that a passing run checks, and the refinement, is a theorem.
`NothingOverwritten` is proved and in no run of its own, since `KeepsThePromise` has it for the instance.

## 5. Not modelled

* *Receipts*: a command's receipt is reserved and completed under a row lock within one transaction; what two
  retries do is one statement of SQL.
* *Project creation*: its repository is made between two transactions; the next thing to model.
* *Limits of a handler's port, invocations, the relay*: counters checked and taken with no await in between.
* *The agent library and what it stores*: its threads, the deletion of a stalled session, its own deadline on a
  scorer. What of it ends a turn or asks a question is a choice of outcome.
* *In the modelled parts*: the refusal of a bundle that is too large, an administrator's check of a
  Connection, a process kill that fails, egress logs, what a
  conversation's title and session record keep, the other sign-ins, the drop of a Project's conversations, the
  close of the Hub for anything but its runs and its proxies.
* *Identity, workspaces, authentication, HTTP, telemetry*: an order of checks in SQL or in a route, with no step
  of another actor in between that the check does not lock out.
* *Registry, hosting*: pure functions over content addresses, and one request forwarded.
* *The web app, the Keycloak theme, contracts, packages, infrastructure, scripts, evaluations*: user
  interface, generated vocabularies, deployment and tools.

Most of the repository's lines are of the last three kinds, which hold no protocol between actors: the models
cover the code that does, and a larger share of the lines is not to be had without writing down user interface.
`PROJECT.json` lists every component with its status, every hazard with the property that covers it or why
none does, and the source lines each definition models.

## 6. What is left, in order

1. Project creation with its receipt, against a deletion of the Project it made.
2. Composition: `LiveConversation`'s run and `TurnSource`'s turn as one, so that a machine lost at a resume is
   the checkout that the next turn seeds.
3. Abstract specifications of the other components, as `AdmissionPromise` is of `BuilderRun`: a mirror that keeps each
   ended turn, a subscription whose tokens are spent once, a deletion that is done or not.
