------------------------------ MODULE BuilderRun ------------------------------
(***************************************************************************)
(* The life of a Builder run: the rows of builder.builder_run, `main` of    *)
(* each Project in the Conexus Git, the run a Hub works in memory, the      *)
(* lease pass that settles what a Hub left behind, the person's stop, and a *)
(* Hub that crashes, closes and boots again.                                *)
(*                                                                         *)
(* Simplifications.                                                         *)
(*  - A run is named by the idempotency key that makes it, so a Run is at   *)
(*    once a request, a row and the candidate its agent offers.             *)
(*  - A revision is the set of changes its history holds: a candidate is    *)
(*    its base plus the run itself, and "is an ancestor of" is \subseteq.   *)
(*  - The `phase` column is left out: no guard reads it. What its write     *)
(*    refuses is kept (SetPhase).                                          *)
(*  - Time is left out: a row nobody in this Hub works may be stale at any  *)
(*    moment, a question may expire at any moment.                          *)
(*  - A transaction is one step. Its answer may be lost after the commit    *)
(*    (AnswerLost), and while the database is down every one fails.         *)
(***************************************************************************)
EXTENDS Naturals, FiniteSets

CONSTANTS
  Runs,            \* idempotency keys, one per run that can be made
  Projects,
  Conversations,
  Writers,         \* changes something other than a run puts on a `main`
  ConversationOf,  \* the conversation each run belongs to
  ProjectOf,       \* the Project each conversation belongs to
  MaxBoots,        \* bound: how many times a Hub boots
  MaxFaults,       \* bound: how many database and git faults strike
  Events,          \* bound: which of "stop", "ask" and "close" happen: a person
                   \* stops a run, an agent asks, a Hub is closed in order
  Prompt,          \* assumptions on timing, a subset of {"pass", "start"}.
                   \* "pass": a lease pass writes what it decided about a run before
                   \* a start of that run gets as far as its candidate. "start": a
                   \* start that is under way is over before its row turns stale.
  None             \* no run

ASSUME ShapeAssumption ==
  /\ ConversationOf \in [Runs -> Conversations]
  /\ ProjectOf \in [Conversations -> Projects]
ASSUME BoundAssumption ==
  /\ MaxBoots \in Nat \ {0}
  /\ MaxFaults \in Nat
  /\ Events \subseteq {"stop", "ask", "close"}
  /\ Prompt \subseteq {"pass", "start"}
ASSUME NamesAssumption == None \notin Runs /\ Runs \cap Writers = {}

VARIABLES
  row,       \* row[r]: the run's row in builder.builder_run
  main,      \* main[p]: the revision `main` of the Project's repository is at
  db,        \* whether the database answers
  faults,    \* how many faults have struck
  hub,       \* the one Hub that may hold the instance lock
  epoch,     \* how many Hubs have booted; the owner id of the current one
  pending,   \* runs a request read QUEUED and is about to start
  signals,   \* stops recorded in the row and about to be signalled
  pc,        \* pc[r]: where the run this Hub works is; "idle" when it works none
  stage,     \* stage[r]: how far the run's source got (RunStage)
  stop,      \* stop[r]: the reason the run's stop signal was aborted with, until its exit
  final,     \* final[r]: the ending its exit still has to write (RunOutcome)
  tries,     \* tries[r]: ending writes that failed
  todo,      \* runs the lease pass took and has not come to
  seen,      \* seen[r]: what the take read of the run's row
  settling,  \* the run the pass settles now
  step,      \* the next call of that settlement
  loss       \* loss[r]: how a run taken over and not yet settled lost its owner

rowVars  == <<row, db, faults>>
hubVars  == <<hub, epoch>>
askVars  == <<pending, signals>>
liveVars == <<pc, stage, stop, final, tries>>
passVars == <<todo, seen, settling, step, loss>>
vars == <<rowVars, main, hubVars, askVars, liveVars, passVars>>

-----------------------------------------------------------------------------
(* Vocabulary *)

OpenStates  == {"QUEUED", "RUNNING"}
EndedStates == {"SUCCEEDED", "FAILED", "INTERRUPTED"}
SourceKinds == {"SOURCE_CHANGED", "SOURCE_CHANGED_BUILD_FAILED"}

InterruptionCodes == {"USER_CANCELLED", "HUB_RESTART", "BUILDER_QUESTION_EXPIRED"}
NotAdmitted == {"BUILDER_SOURCE_BASE_MOVED", "BUILDER_SOURCE_ADMISSION_FAILED", "BUILDER_RUN_CANCELLED"}
StopCodes   == {"BUILDER_RUN_CANCELLED", "BUILDER_LATE_RESULT_REFUSED"}
\* FAILURE stands for every failure whose name nothing reads: one that a transaction, a
\* git command, the sandbox, the model or the check throws.
Codes == InterruptionCodes \cup NotAdmitted \cup StopCodes \cup
  {"none", "ROW_ENDED", "BUILDER_RUN_SETTLE_LOST", "BUILDER_PREVIEW_NOT_BUILT", "FAILURE"}

\* AGENT_UNADMITTED tells only a diagnostic from CLAIMED, and ADMITTED from CANDIDATE_RECORDED.
Stages == {"UNCLAIMED", "CLAIMED", "CANDIDATE_RECORDED"}
Steps  == {"none", "close", "look", "refuse", "advance", "settle"}

\* The places of a live run. Each name is the call the run makes next.
BeforeSession == {"claim", "prepare", "preparing"}
Turning       == {"turn", "agent", "ask", "waiting", "conclude", "finalize", "settle"}
Admitting     == {"admit", "record", "recording", "recorded", "moving"}
Settling      == {"advance", "built", "unbuilt"}
Ending        == {"ending", "leaving"}
Places        == {"idle"} \cup BeforeSession \cup Turning \cup Admitting \cup Settling \cup Ending

Owners    == 0 .. MaxBoots   \* 0: the row has no owner
Revisions == SUBSET (Runs \cup Writers)

Row == [state: {"NONE"} \cup OpenStates \cup EndedStates, cancel: BOOLEAN, base: Revisions,
        candidate: BOOLEAN, result: BOOLEAN, kind: {"none", "RESPONSE_ONLY"} \cup SourceKinds,
        code: Codes, owner: Owners]
\* SETTLED and LEFT write nothing more, so they are one outcome here.
Settled == [how |-> "SETTLED", code |-> "none"]
Outcome == {Settled} \cup [how: {"FAILED", "INTERRUPTED"}, code: Codes]
Seen    == [candidate: BOOLEAN, result: BOOLEAN, owner: Owners]

NoRow  == [state |-> "NONE", cancel |-> FALSE, base |-> {}, candidate |-> FALSE,
           result |-> FALSE, kind |-> "none", code |-> "none", owner |-> 0]
NoSeen == [candidate |-> FALSE, result |-> FALSE, owner |-> 0]

Project(r)   == ProjectOf[ConversationOf[r]]
Open(r)      == row[r].state \in OpenStates
Ended(r)     == row[r].state \in EndedStates
Live(r)      == pc[r] # "idle"
Working(r)   == Live(r) /\ pc[r] \notin Ending
Candidate(r) == row[r].base \cup {r}
OnMain(r)    == r \in main[Project(r)]

-----------------------------------------------------------------------------
(* The database *)

Answered   == db = "up" /\ UNCHANGED <<db, faults>>
AnswerLost == db = "up" /\ faults < MaxFaults /\ db' = "down" /\ faults' = faults + 1
Refused    == db = "down" /\ UNCHANGED rowVars
Denied     == db = "up" /\ faults < MaxFaults /\ faults' = faults + 1 /\ UNCHANGED <<row, db>>

MineEndedToo(r)   == row[r].owner = epoch                                    \* broken: any state
MineNotStopped(r) == Open(r) /\ row[r].owner = epoch /\ ~row[r].cancel       \* broken: no stop asked for
\* The proof withRun admits: the row is open and this Hub owns it.
Mine(r) == Open(r) /\ row[r].owner = epoch
TakesPhaseStopped(r) == Mine(r) /\ row[r].state = "RUNNING" \* broken: a stop asked for or not
\* What a phase and a candidate write over: a running row with no stop asked for.
TakesPhase(r) == Mine(r) /\ row[r].state = "RUNNING" /\ ~row[r].cancel

\* The final columns of an ending. An interruption keeps or sets the stop's time.
EndedRow(r, state, kind, code) ==
  [row[r] EXCEPT !.state = state, !.kind = kind, !.code = code,
                 !.cancel = @ \/ state = "INTERRUPTED"]
EndRun(r, state, kind, code) == row' = [row EXCEPT ![r] = EndedRow(r, state, kind, code)]

-----------------------------------------------------------------------------
(* A live run's moves *)

GoTo(r, place) ==
  /\ pc' = [pc EXCEPT ![r] = place]
  /\ UNCHANGED <<stop, final, tries>>

LeftWhenEnded(r, code) == code = "ROW_ENDED" \* broken: a recorded candidate fails like any other
\* The exit leaves the row alone: it ended, or its source may be on `main` and a sweep reads which.
Left(r, code) ==
  \/ code = "ROW_ENDED"
  \/ stage[r] = "CANDIDATE_RECORDED" /\ code \notin NotAdmitted

WhatStoppedIt(r, code) == \* broken: asks whether the run was stopped before it asks by whom
  IF stop[r] # "none" \/ code \in StopCodes THEN "USER_CANCELLED"
  ELSE IF code = "BUILDER_QUESTION_EXPIRED" THEN code
  ELSE "none"
Interruption(r, code) ==
  IF stop[r] = "HUB_STOPPING" THEN "HUB_RESTART"
  ELSE IF code = "BUILDER_QUESTION_EXPIRED" THEN code
  ELSE IF stop[r] # "none" \/ code \in StopCodes THEN "USER_CANCELLED"
  ELSE "none"

\* How a run ends, from the failure that ended it.
OutcomeOf(r, code) ==
  IF Left(r, code) THEN Settled
  ELSE IF Interruption(r, code) # "none" THEN [how |-> "INTERRUPTED", code |-> Interruption(r, code)]
  ELSE [how |-> "FAILED", code |-> code]

\* A question that is not released fails a run that would end interrupted. A run with no
\* session has no question.
EndQuestions(r, outcome) ==
  {outcome} \cup IF outcome.how = "INTERRUPTED" /\ pc[r] \notin BeforeSession
                  THEN {[how |-> "FAILED", code |-> "FAILURE"]} ELSE {}

\* The exit is done with the row.
Finish(r) ==
  /\ pc' = [pc EXCEPT ![r] = "leaving"]
  /\ stage' = [stage EXCEPT ![r] = "UNCLAIMED"]
  /\ stop' = [stop EXCEPT ![r] = "none"]
  /\ final' = [final EXCEPT ![r] = Settled]
  /\ tries' = [tries EXCEPT ![r] = 0]

\* The exit, with the outcome it writes.
Leave(r, outcome) ==
  IF outcome = Settled THEN Finish(r)
  ELSE /\ pc' = [pc EXCEPT ![r] = "ending"]
       /\ final' \in {[final EXCEPT ![r] = end] : end \in EndQuestions(r, outcome)}
       /\ stop' = [stop EXCEPT ![r] = "none"]
       /\ UNCHANGED <<stage, tries>>

\* A VM that stopped being held open, once the run has one, is the failure that counts.
EndedBy(r, code) ==
  {code} \cup IF pc[r] \in {"claim", "prepare"} \/ code = "ROW_ENDED" THEN {} ELSE {"FAILURE"}
Fail(r, code) == \E ended \in EndedBy(r, code) : Leave(r, OutcomeOf(r, ended))

\* The row that refused a phase says why: it ended, a stop was asked for, or it is another Hub's.
PhaseRefusal(r) ==
  IF row[r].state # "RUNNING" THEN "ROW_ENDED"
  ELSE IF row[r].cancel THEN "BUILDER_RUN_CANCELLED" ELSE "FAILURE"

SetPhase(r, from, to, nextStage) ==
  /\ pc[r] = from
  /\ UNCHANGED rowVars
  /\ \/ /\ db = "up" /\ TakesPhase(r)
        /\ GoTo(r, to) /\ stage' = [stage EXCEPT ![r] = nextStage]
     \/ db = "up" /\ ~TakesPhase(r) /\ Fail(r, PhaseRefusal(r))
     \/ Fail(r, "FAILURE")  \* the database is down, or the author lost the access
  /\ UNCHANGED <<main, hubVars, askVars, passVars>>

\* A step of the run that touches no row.
Works(r, from) == pc[r] = from /\ UNCHANGED <<rowVars, main, hubVars, askVars, passVars>>
Proceed(r, to) == GoTo(r, to) /\ UNCHANGED stage
Stopped(r)     == stop[r] # "none"

-----------------------------------------------------------------------------
(* A message makes a run, or replays the run its key already made *)

ProjectBusyQueued(r) == \* broken: looks for a queued run only
  \E other \in Runs : row[other].state = "QUEUED" /\ Project(other) = Project(r)
ProjectBusy(r) == \E other \in Runs : Open(other) /\ Project(other) = Project(r)

CreateRun(r) ==
  /\ hub \in {"up", "closing"} /\ row[r].state = "NONE"
  /\ ~ProjectBusy(r)
  /\ row' = [row EXCEPT ![r] = [NoRow EXCEPT !.state = "QUEUED", !.base = main[Project(r)]]]
  /\ \/ Answered /\ pending' = pending \cup {r}
     \/ AnswerLost /\ UNCHANGED pending
  /\ UNCHANGED <<main, hubVars, signals, liveVars, passVars>>

ReplayRun(r) ==
  /\ hub \in {"up", "closing"} /\ db = "up" /\ row[r].state = "QUEUED"
  /\ pending' = pending \cup {r}
  /\ UNCHANGED <<rowVars, main, hubVars, signals, liveVars, passVars>>

\* The Hub holds one live run per conversation; a second one stays queued in the row.
ConversationBusy(r) == \E other \in Runs : Live(other) /\ ConversationOf[other] = ConversationOf[r]

StartRun(r) ==
  /\ r \in pending
  /\ pending' = pending \ {r}
  /\ IF ConversationBusy(r) THEN UNCHANGED liveVars
     ELSE Proceed(r, "claim")
  /\ UNCHANGED <<rowVars, main, hubVars, signals, passVars>>

-----------------------------------------------------------------------------
(* The run: from its claim to the end of the agent's turn *)

\* A fault may be that the author lost the access since the request was admitted.
Claim(r) ==
  /\ pc[r] = "claim"
  /\ \/ /\ row[r].state = "QUEUED"
        /\ row' = [row EXCEPT ![r].state = "RUNNING", ![r].owner = epoch]
        /\ \/ Answered /\ GoTo(r, "prepare") /\ stage' = [stage EXCEPT ![r] = "CLAIMED"]
           \/ AnswerLost /\ Fail(r, "FAILURE")
     \/ row[r].state # "QUEUED" /\ Answered /\ UNCHANGED row /\ Fail(r, "FAILURE")
     \/ Denied /\ Fail(r, "FAILURE")
     \/ Refused /\ Fail(r, "FAILURE")
  /\ UNCHANGED <<main, hubVars, askVars, passVars>>

EnterPreparing(r) == SetPhase(r, "prepare", "preparing", "CLAIMED")

Prepare(r) ==
  /\ Works(r, "preparing")
  /\ \/ ~Stopped(r) /\ Proceed(r, "turn")
     \/ Stopped(r) /\ Fail(r, "BUILDER_RUN_CANCELLED")
     \/ Fail(r, "FAILURE")

EnterAgent(r) == SetPhase(r, "turn", "agent", "CLAIMED")

\* The agent's step ends without a question.
TurnEnds(r) ==
  /\ Works(r, "agent")
  /\ \/ ~Stopped(r) /\ Proceed(r, "conclude")
     \/ Stopped(r) /\ Fail(r, "BUILDER_RUN_CANCELLED")
     \/ Fail(r, "FAILURE")

TurnAsks(r) == "ask" \in Events /\ Works(r, "agent") /\ ~Stopped(r) /\ Proceed(r, "ask")

EnterWaiting(r) == SetPhase(r, "ask", "waiting", stage[r])

AwaitReply(r) ==
  /\ Works(r, "waiting")
  /\ \/ ~Stopped(r) /\ Proceed(r, "turn")                      \* an answer or a message
     \/ ~Stopped(r) /\ Fail(r, "BUILDER_QUESTION_EXPIRED")
     \/ ~Stopped(r) /\ Fail(r, "FAILURE")                      \* the VM is not the one that was let go
     \/ Stopped(r) /\ Fail(r, "BUILDER_RUN_CANCELLED")

-----------------------------------------------------------------------------
(* The run: from its verdict to its ending *)

Conclude(r) ==
  /\ Works(r, "conclude")
  /\ \/ ~Stopped(r) /\ Proceed(r, "finalize")                        \* no candidate: a response
     \/ ~Stopped(r) /\ Proceed(r, "admit")                           \* green, or a page that did not render
     \/ Stopped(r) /\ Fail(r, "BUILDER_LATE_RESULT_REFUSED")
     \/ Stopped(r) /\ Fail(r, "BUILDER_RUN_CANCELLED")
     \/ Fail(r, "FAILURE")                                           \* red

EnterFinalizing(r) == SetPhase(r, "finalize", "settle", stage[r])

SettleResponse(r) ==
  /\ pc[r] = "settle"
  /\ \/ /\ Mine(r) /\ row[r].state = "RUNNING" /\ ~row[r].candidate
        /\ EndRun(r, "SUCCEEDED", "RESPONSE_ONLY", "none")
        /\ \/ Answered /\ Finish(r)
           \/ AnswerLost /\ Fail(r, "FAILURE")
     \/ /\ ~(Mine(r) /\ row[r].state = "RUNNING" /\ ~row[r].candidate)
        /\ Answered /\ UNCHANGED row /\ Fail(r, "FAILURE")
     \/ Refused /\ Fail(r, "FAILURE")
  /\ UNCHANGED <<main, hubVars, askVars, passVars>>

EnterAdmission(r) == SetPhase(r, "admit", "record", stage[r])

CheckStopUnrecorded(r) == \* broken: `main` moves before the candidate is recorded
  /\ Works(r, "record")
  /\ IF Stopped(r) THEN Fail(r, "BUILDER_RUN_CANCELLED") ELSE Proceed(r, "moving")
\* The last looks at the stop signal, before the candidate's write and before `main` moves.
CheckStop(r) ==
  \E at \in {"record", "recorded"} :
    /\ Works(r, at)
    /\ IF Stopped(r) THEN Fail(r, "BUILDER_RUN_CANCELLED")
       ELSE Proceed(r, IF at = "record" THEN "recording" ELSE "moving")

RecordCandidate(r) ==
  /\ pc[r] = "recording"
  /\ "pass" \in Prompt => r \notin todo \cup {settling}
  /\ \/ /\ TakesPhase(r)
        /\ row' = [row EXCEPT ![r].candidate = TRUE]
        /\ \/ Answered /\ GoTo(r, "recorded") /\ stage' = [stage EXCEPT ![r] = "CANDIDATE_RECORDED"]
           \/ AnswerLost /\ Fail(r, "FAILURE")
     \/ Answered /\ UNCHANGED row /\ Fail(r, "FAILURE")  \* not so, or the author lost the access
     \/ Refused /\ Fail(r, "FAILURE")
  /\ UNCHANGED <<main, hubVars, askVars, passVars>>

\* `main` moves from exactly the run's base; an update that failed is read back, and
\* `main` already at the candidate converged.
Moved(r) ==
  IF main[Project(r)] \in {row[r].base, Candidate(r)}
  THEN [main EXCEPT ![Project(r)] = Candidate(r)] ELSE main

MoveMain(r) ==
  /\ pc[r] = "moving"
  /\ main' = Moved(r)
  /\ IF main[Project(r)] \in {row[r].base, Candidate(r)}
     THEN Proceed(r, "advance")
     ELSE Fail(r, "BUILDER_SOURCE_BASE_MOVED")
  /\ UNCHANGED <<rowVars, hubVars, askVars, passVars>>

\* The git command fails before it moved `main`, or after, with the read back failing too.
MoveMainFails(r) ==
  /\ pc[r] = "moving" /\ faults < MaxFaults
  /\ main' \in {main, Moved(r)}
  /\ faults' = faults + 1
  /\ Fail(r, "FAILURE")
  /\ UNCHANGED <<row, db, hubVars, askVars, passVars>>

\* The build is sealed and its server prepared, or the page did not render or the preparation failed.
PreparePreview == {"built", "unbuilt"}

AdvanceSource(r) ==
  /\ pc[r] = "advance"
  /\ \/ /\ Mine(r) /\ row[r].state = "RUNNING" /\ row[r].candidate
        /\ row' = [row EXCEPT ![r].result = TRUE]
        /\ \/ Answered /\ \E next \in PreparePreview : Proceed(r, next)
           \/ AnswerLost /\ Fail(r, "FAILURE")
     \/ /\ ~(Mine(r) /\ row[r].state = "RUNNING" /\ row[r].candidate)
        /\ Answered /\ UNCHANGED row /\ Fail(r, "FAILURE")
     \/ Refused /\ Fail(r, "FAILURE")
  /\ UNCHANGED <<main, hubVars, askVars, passVars>>

CanSettleBuild(r) == Mine(r) /\ row[r].state = "RUNNING" /\ row[r].result

\* Whatever stops the settlement of a build settles it as a failed build.
SettleBuilt(r) ==
  /\ pc[r] = "built"
  /\ \/ /\ CanSettleBuild(r)
        /\ EndRun(r, "SUCCEEDED", "SOURCE_CHANGED", "none")
        /\ \/ Answered /\ Finish(r)
           \/ AnswerLost /\ Proceed(r, "unbuilt")
     \/ ~CanSettleBuild(r) /\ Answered /\ UNCHANGED row /\ Proceed(r, "unbuilt")
     \/ Refused /\ Proceed(r, "unbuilt")
  /\ UNCHANGED <<main, hubVars, askVars, passVars>>

\* A failed build's settlement, or none when its write fails too: the exit writes nothing more.
SettleUnbuilt(r) ==
  /\ pc[r] = "unbuilt"
  /\ \/ /\ CanSettleBuild(r)
        /\ EndRun(r, "FAILED", "SOURCE_CHANGED_BUILD_FAILED", "FAILURE")
        /\ Answered \/ AnswerLost
     \/ ~CanSettleBuild(r) /\ Answered /\ UNCHANGED row
     \/ Refused
  /\ Finish(r)
  /\ UNCHANGED <<main, hubVars, askVars, passVars>>

-----------------------------------------------------------------------------
(* The run's exit *)

\* A run no claim reached ends only a row still queued and unowned, and takes no row as done.
EndsUnclaimed(r) == row[r].state = "QUEUED" /\ row[r].owner = 0
EndingTries == 3

TryAgain(r) ==
  IF tries[r] + 1 = EndingTries THEN Finish(r)
  ELSE tries' = [tries EXCEPT ![r] = @ + 1] /\ UNCHANGED <<pc, stage, stop, final>>

WriteEnding(r) ==
  LET writes == IF stage[r] = "UNCLAIMED" THEN EndsUnclaimed(r) ELSE Mine(r) IN
  /\ pc[r] = "ending"
  /\ \/ /\ writes
        /\ EndRun(r, final[r].how, "none", final[r].code)
        /\ \/ Answered /\ Finish(r)
           \/ AnswerLost /\ TryAgain(r)
     \/ /\ ~writes /\ Answered /\ UNCHANGED row
        /\ IF stage[r] = "UNCLAIMED" THEN Finish(r) ELSE TryAgain(r)
     \/ Refused /\ TryAgain(r)
  /\ UNCHANGED <<main, hubVars, askVars, passVars>>

\* The browser hears the ending, the session is released and the Hub lets the run go.
LetGo(r) == Works(r, "leaving") /\ Proceed(r, "idle")

RunStep(r) ==
  \/ Claim(r) \/ EnterPreparing(r) \/ Prepare(r) \/ EnterAgent(r) \/ TurnEnds(r) \/ TurnAsks(r)
  \/ EnterWaiting(r) \/ AwaitReply(r) \/ Conclude(r) \/ EnterFinalizing(r) \/ SettleResponse(r)
  \/ EnterAdmission(r) \/ CheckStop(r) \/ RecordCandidate(r) \/ MoveMain(r) \/ MoveMainFails(r)
  \/ AdvanceSource(r) \/ SettleBuilt(r) \/ SettleUnbuilt(r)
  \/ WriteEnding(r) \/ LetGo(r)

-----------------------------------------------------------------------------
(* The person's stop: the row first, then the signal *)

\* A run that ended and is not live has nothing to stop: the row is only read.
RequestCancellation(r) ==
  /\ "stop" \in Events /\ hub \in {"up", "closing"} /\ (Open(r) \/ Live(r)) /\ r \notin signals
  /\ row' = [row EXCEPT ![r] =
       IF row[r].state = "QUEUED" THEN EndedRow(r, "INTERRUPTED", "none", "USER_CANCELLED")
       ELSE IF row[r].state = "RUNNING" THEN [row[r] EXCEPT !.cancel = TRUE] ELSE row[r]]
  /\ \/ Answered /\ signals' = signals \cup {r}
     \/ AnswerLost /\ UNCHANGED signals
  /\ UNCHANGED <<main, hubVars, pending, liveVars, passVars>>

SignalStop(r) ==
  /\ r \in signals
  /\ signals' = signals \ {r}
  /\ stop' = [stop EXCEPT ![r] = IF Working(r) /\ @ = "none" THEN "USER_CANCELLED" ELSE @]
  /\ UNCHANGED <<rowVars, main, hubVars, pending, pc, stage, final, tries, passVars>>

-----------------------------------------------------------------------------
(* The run lease *)

PassIdle == todo = {} /\ settling = None
MayBeStaleRunning(r) == ~Live(r) /\ row[r].state = "RUNNING" \* broken: a queued run is nobody's
\* Stale: open, and not among the live runs the pass listed. A start the list missed
\* has written no heartbeat until its claim.
MayBeStale(r) ==
  /\ Open(r)
  /\ Live(r) => row[r].state = "QUEUED"
  /\ "start" \in Prompt => ~Live(r) /\ r \notin pending

TakeOver(S) ==
  /\ hub = "up" /\ PassIdle
  /\ S # {} /\ \A r \in S : MayBeStale(r)
  /\ row' = [r \in Runs |-> IF r \in S THEN [row[r] EXCEPT !.owner = epoch] ELSE row[r]]
  /\ \/ /\ Answered
        /\ todo' = S
        /\ seen' = [r \in Runs |-> IF r \in S
             THEN [candidate |-> row[r].candidate, result |-> row[r].result, owner |-> row[r].owner]
             ELSE NoSeen]
     \/ AnswerLost /\ UNCHANGED <<todo, seen>>
  /\ UNCHANGED <<main, hubVars, askVars, liveVars, settling, step, loss>>

LossOf(r) ==
  IF loss[r] # "none" THEN loss[r]
  ELSE IF seen[r].owner = epoch THEN "SETTLE_LOST" ELSE "OWNER_GONE"

FirstStepNoLook(r) == \* broken: takes a run with no recorded result for one that was not admitted
  IF ~seen[r].candidate THEN "close" ELSE IF seen[r].result THEN "advance" ELSE "refuse"
FirstStep(r) ==
  IF ~seen[r].candidate THEN "close" ELSE IF seen[r].result THEN "advance" ELSE "look"

\* The pass comes to a run it took: it skips one that went live, and settles the others
\* from the row and `main` alone. A Hub that is closing ends the pass.
PassNext(r) ==
  /\ settling = None /\ r \in todo
  /\ IF hub # "up"
     THEN todo' = {} /\ seen' = [q \in Runs |-> NoSeen] /\ UNCHANGED <<settling, step, loss>>
     ELSE /\ todo' = todo \ {r} /\ seen' = [seen EXCEPT ![r] = NoSeen]
          /\ IF Live(r) THEN UNCHANGED <<settling, step, loss>>
             ELSE /\ settling' = r
                  /\ loss' = [loss EXCEPT ![r] = LossOf(r)]
                  /\ step' = FirstStep(r)
  /\ UNCHANGED <<rowVars, main, hubVars, askVars, liveVars>>

\* The pass is done with the run: settled, or left owned here for a later pass.
PassDone(r, settled) ==
  /\ settling' = None /\ step' = "none"
  /\ loss' = IF settled THEN [loss EXCEPT ![r] = "none"] ELSE loss
  /\ UNCHANGED <<todo, seen>>
PassGoesOn(next) == step' = next /\ UNCHANGED <<todo, seen, settling, loss>>

\* One write of the settlement: it needs the run still open and owned here.
PassWrite(r, at, admits, newRow, last, next) ==
  /\ settling = r /\ step = at
  /\ \/ /\ admits
        /\ row' = [row EXCEPT ![r] = newRow]
        /\ \/ Answered /\ IF last THEN PassDone(r, TRUE) ELSE PassGoesOn(next)
           \/ AnswerLost /\ PassDone(r, FALSE)
     \/ ~admits /\ Answered /\ UNCHANGED row /\ PassDone(r, FALSE)
     \/ Refused /\ PassDone(r, FALSE)
  /\ UNCHANGED <<main, hubVars, askVars, liveVars>>

\* No candidate: this Hub's own lost ending, or a run whose Hub is gone.
PassCloses(r) ==
  PassWrite(r, "close", Mine(r),
    IF loss[r] = "SETTLE_LOST" THEN EndedRow(r, "FAILED", "none", "BUILDER_RUN_SETTLE_LOST")
    ELSE EndedRow(r, "INTERRUPTED", "none", "HUB_RESTART"), TRUE, "none")

\* `main`'s history says whether the candidate was admitted.
PassLooks(r) ==
  /\ settling = r /\ step = "look"
  /\ \/ PassGoesOn(IF OnMain(r) THEN "advance" ELSE "refuse") /\ UNCHANGED faults
     \/ faults < MaxFaults /\ faults' = faults + 1 /\ PassDone(r, FALSE)
  /\ UNCHANGED <<row, db, main, hubVars, askVars, liveVars>>

PassRefuses(r) ==
  PassWrite(r, "refuse", Mine(r),
    EndedRow(r, "FAILED", "none", "BUILDER_SOURCE_ADMISSION_FAILED"), TRUE, "none")

PassAdvances(r) ==
  PassWrite(r, "advance", Mine(r) /\ row[r].state = "RUNNING" /\ row[r].candidate,
    [row[r] EXCEPT !.result = TRUE], FALSE, "settle")

PassSettles(r) ==
  PassWrite(r, "settle", CanSettleBuild(r),
    EndedRow(r, "FAILED", "SOURCE_CHANGED_BUILD_FAILED", "BUILDER_PREVIEW_NOT_BUILT"), TRUE, "none")

PassStep(r) ==
  PassNext(r) \/ PassCloses(r) \/ PassLooks(r) \/ PassRefuses(r) \/ PassAdvances(r) \/ PassSettles(r)

-----------------------------------------------------------------------------
(* The Hub, the database and whoever else writes `main` *)

Boot ==
  /\ hub = "down" /\ db = "up" /\ epoch < MaxBoots
  /\ hub' = "up" /\ epoch' = epoch + 1
  /\ UNCHANGED <<rowVars, main, askVars, liveVars, passVars>>

\* What a dead Hub held in memory.
Forget ==
  /\ pending' = {} /\ signals' = {}
  /\ pc' = [r \in Runs |-> "idle"]
  /\ stage' = [r \in Runs |-> "UNCLAIMED"]
  /\ stop' = [r \in Runs |-> "none"]
  /\ final' = [r \in Runs |-> Settled]
  /\ tries' = [r \in Runs |-> 0]
  /\ todo' = {} /\ seen' = [r \in Runs |-> NoSeen]
  /\ settling' = None /\ step' = "none"
  /\ loss' = [r \in Runs |-> "none"]

\* A crash, a forced exit or a lost instance lock. A git command the Hub had started may still land.
Crash ==
  /\ hub # "down" /\ epoch < MaxBoots
  /\ hub' = "down"
  /\ Forget
  /\ \/ UNCHANGED main
     \/ \E r \in Runs : pc[r] = "moving" /\ main' = Moved(r)
  /\ UNCHANGED <<rowVars, epoch>>

\* A signal closes the Hub: its jobs and its listeners first, then its runs are stopped.
Close ==
  /\ hub = "up" /\ "close" \in Events /\ epoch < MaxBoots
  /\ hub' = "closing"
  /\ UNCHANGED <<rowVars, main, epoch, askVars, liveVars, passVars>>

StopRunsSilently == \* broken: waits for the runs and does not stop them
  /\ hub = "closing" /\ PassIdle /\ pending = {} /\ signals = {}
  /\ hub' = "stopping"
  /\ UNCHANGED <<rowVars, main, epoch, askVars, liveVars, passVars>>
StopRuns ==
  /\ hub = "closing" /\ PassIdle /\ pending = {} /\ signals = {}
  /\ hub' = "stopping"
  /\ stop' = [r \in Runs |-> IF Working(r) /\ stop[r] = "none" THEN "HUB_STOPPING" ELSE stop[r]]
  /\ UNCHANGED <<rowVars, main, epoch, askVars, pc, stage, final, tries, passVars>>

HubExits ==
  /\ hub = "stopping" /\ \A r \in Runs : ~Live(r)
  /\ hub' = "down"
  /\ Forget
  /\ UNCHANGED <<rowVars, main, epoch>>

DatabaseFails ==
  /\ db = "up" /\ faults < MaxFaults
  /\ db' = "down" /\ faults' = faults + 1
  /\ UNCHANGED <<row, main, hubVars, askVars, liveVars, passVars>>

DatabaseReturns ==
  /\ db = "down" /\ db' = "up"
  /\ UNCHANGED <<row, faults, main, hubVars, askVars, liveVars, passVars>>

\* A writer that is no run of the Hub moves a Project's `main` forward.
WriterMovesMain(w) ==
  /\ \A p \in Projects : w \notin main[p]
  /\ \E p \in Projects : main' = [main EXCEPT ![p] = @ \cup {w}]
  /\ UNCHANGED <<rowVars, hubVars, askVars, liveVars, passVars>>

-----------------------------------------------------------------------------
(* The specification *)

Init ==
  /\ row = [r \in Runs |-> NoRow]
  /\ main = [p \in Projects |-> {}]
  /\ db = "up" /\ faults = 0
  /\ hub = "up" /\ epoch = 1
  /\ pending = {} /\ signals = {}
  /\ pc = [r \in Runs |-> "idle"]
  /\ stage = [r \in Runs |-> "UNCLAIMED"]
  /\ stop = [r \in Runs |-> "none"]
  /\ final = [r \in Runs |-> Settled]
  /\ tries = [r \in Runs |-> 0]
  /\ todo = {} /\ seen = [r \in Runs |-> NoSeen]
  /\ settling = None /\ step = "none"
  /\ loss = [r \in Runs |-> "none"]

Next ==
  \/ \E r \in Runs : CreateRun(r) \/ ReplayRun(r) \/ StartRun(r)
  \/ \E r \in Runs : RunStep(r)
  \/ \E r \in Runs : RequestCancellation(r) \/ SignalStop(r)
  \/ \E S \in SUBSET Runs : TakeOver(S)
  \/ \E r \in Runs : PassStep(r)
  \/ Boot \/ Crash \/ Close \/ StopRuns \/ HubExits
  \/ DatabaseFails \/ DatabaseReturns
  \/ \E w \in Writers : WriterMovesMain(w)

Spec == Init /\ [][Next]_vars

\* What the code's scheduling gives. A call that can be made is made: a live run's next
\* one, a request's, the pass's. The lease job runs again and again and takes every stale
\* run; the database comes back; the supervisor starts a Hub again; a closing Hub drains
\* its requests and waits for its runs.
Fairness ==
  /\ \A r \in Runs :
       /\ WF_vars(RunStep(r)) /\ WF_vars(StartRun(r)) /\ WF_vars(SignalStop(r))
       /\ SF_vars(\E S \in SUBSET Runs : r \in S /\ TakeOver(S))
  /\ WF_vars(\E r \in Runs : PassStep(r))
  /\ WF_vars(DatabaseReturns) /\ WF_vars(Boot) /\ SF_vars(StopRuns) /\ WF_vars(HubExits)
FairSpec == Spec /\ Fairness

-----------------------------------------------------------------------------
(* Properties *)

RowsTypeOK ==
  /\ row \in [Runs -> Row]
  /\ db \in {"up", "down"} /\ faults \in 0 .. MaxFaults
MainTypeOK == main \in [Projects -> Revisions]
HubTypeOK == hub \in {"up", "closing", "stopping", "down"} /\ epoch \in 1 .. MaxBoots
AskTypeOK == pending \subseteq Runs /\ signals \subseteq Runs
LiveTypeOK ==
  /\ pc \in [Runs -> Places]
  /\ stage \in [Runs -> Stages]
  /\ stop \in [Runs -> {"none", "USER_CANCELLED", "HUB_STOPPING"}]
  /\ final \in [Runs -> Outcome]
  /\ \A r \in Runs : pc[r] = "ending" => final[r] # Settled
  /\ tries \in [Runs -> 0 .. EndingTries - 1]
PassTypeOK ==
  /\ todo \subseteq Runs /\ seen \in [Runs -> Seen]
  /\ settling \in Runs \cup {None} /\ step \in Steps
  /\ loss \in [Runs -> {"none", "SETTLE_LOST", "OWNER_GONE"}]
\* Every variable holds what the code's types say, and the bounds hold: no row takes a state,
\* a code or an owner outside the vocabulary, a run that writes its ending has one to write, and
\* no ending is tried more than three times.
TypeOK ==
  /\ RowsTypeOK /\ MainTypeOK /\ HubTypeOK /\ AskTypeOK /\ LiveTypeOK /\ PassTypeOK

\* A Project has one open run, whichever Hubs crashed, whatever a pass took over and
\* whichever run of an ended row is still live in memory.
OneOpenRun ==
  \A r, other \in Runs : Open(r) /\ Open(other) /\ Project(r) = Project(other) => r = other

\* `main` never holds a change its row does not know of: the candidate is recorded before
\* `main` moves, and the result only once it moved. It is what a restart settles a run by.
RowFollowsMain ==
  \A r \in Runs : /\ OnMain(r) => row[r].candidate
                  /\ row[r].result => OnMain(r)

\* What the person reads is what happened: an ended run says its source changed exactly
\* when its candidate is on `main`, whoever wrote the ending (the run, its exit, the stop, or
\* a pass after a crash or after writes whose answers were lost).
EndingAgreesWithMain ==
  \A r \in Runs : Ended(r) => (row[r].kind \in SourceKinds <=> OnMain(r))

\* A settled run is never rewritten, though its run may still be live and a pass may have
\* taken it over before.
SettledRunNeverRewritten == [][\A r \in Runs : Ended(r) => row'[r] = row[r]]_vars

\* `main` only moves forward: no admission drops what another writer put there.
NothingOverwritten == [][\A p \in Projects : main[p] \subseteq main'[p]]_vars

\* A stop recorded before the candidate prevents the admission, whether or not its signal
\* arrives and whichever Hub settles the run.
StopPreventsAdmission ==
  [][\A r \in Runs : row[r].cancel /\ ~row[r].candidate => ~row'[r].candidate /\ r \notin main'[Project(r)]]_vars

\* USER_CANCELLED is only said of a run somebody asked to stop.
StopIsNamed ==
  [][\A r \in Runs : Open(r) /\ row'[r].code = "USER_CANCELLED" => row[r].cancel \/ RequestCancellation(r)]_vars

\* A recorded stop ends the run, even when its signal is lost and the agent would ask forever.
StoppedRunEnds == \A r \in Runs : Open(r) /\ row[r].cancel ~> Ended(r)

\* A Hub that is told to stop exits: no run, pass or retry holds it.
HubStops == hub = "closing" ~> hub = "down"

\* Every run ends, so a Project never stays busy: through crashes, lost answers, a database
\* that goes away, a start that is skipped, and endings that could not be written.
EveryRunEnds == \A r \in Runs : SF_vars(TurnEnds(r)) => (Open(r) ~> Ended(r))

\* The whole of it keeps the promise made to a Project's people: each step of a Hub, a pass,
\* a stop or a crash is one step of AdmissionPromise, or none.
StatusOf(r) ==
  CASE row[r].state = "NONE" -> "none"
    [] Open(r) -> IF row[r].candidate THEN "offered" ELSE "open"
    [] Ended(r) -> IF row[r].kind \in SourceKinds THEN "kept" ELSE "dropped"
Admission == INSTANCE AdmissionPromise WITH
  ProjectOfRun <- [r \in Runs |-> Project(r)],
  status <- [r \in Runs |-> StatusOf(r)],
  stopped <- {r \in Runs : row[r].cancel},
  base <- [r \in Runs |-> row[r].base]
KeepsThePromise == Admission!Promise

-----------------------------------------------------------------------------
(* What the repository says and the code does not do *)

\* "A stop records the intent before it signals the run, so a pending stop prevents a later
\* success" (architecture.md). A response settles without looking at the stop.
PendingStopPreventsSuccess ==
  [][\A r \in Runs : Open(r) /\ row[r].cancel /\ ~row[r].candidate => row'[r].state # "SUCCEEDED"]_vars

\* "A run this Hub works is never taken over by it" (service.ts). A run that starts after the
\* pass looked for it among the live ones is claimed while the pass settles it.
LiveRunNeverTakenOver == \A r \in Runs : settling = r => ~(Working(r) /\ row[r].state = "RUNNING")

=============================================================================
