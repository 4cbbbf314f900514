--------------------------- MODULE BuilderRun_proofs ---------------------------
(***************************************************************************)
(* What holds of Builder runs for every set of runs, Projects and writers,  *)
(* every number of Hubs and faults, and every timing: the types, who writes *)
(* a row, what a row says of `main`, whose stop a row names, and - when a   *)
(* lease pass writes what it decided before a start of that run comes to    *)
(* its candidate - that an ending agrees with `main` and that the whole     *)
(* implements AdmissionPromise.                                             *)
(***************************************************************************)
EXTENDS BuilderRun, TLAPS

-----------------------------------------------------------------------------
(* The types *)

LEMMA ProjectType == \A r \in Runs : Project(r) \in Projects
  BY ShapeAssumption DEF Project

LEMMA OwnersType == HubTypeOK => epoch \in Owners
  BY BoundAssumption DEF HubTypeOK, Owners

LEMMA NoRowType == NoRow \in Row
  BY BoundAssumption DEF NoRow, Row, Owners, Revisions, Codes, OpenStates, EndedStates, SourceKinds

\* A run's exit keeps the types, whatever outcome it leaves with.
LEMMA FinishType ==
  ASSUME LiveTypeOK, NEW r \in Runs, Finish(r)
  PROVE  LiveTypeOK'
  BY DEF LiveTypeOK, Finish, Places, Ending, Stages, Settled, Outcome, Codes, EndingTries

LEMMA LeaveType ==
  ASSUME LiveTypeOK, NEW r \in Runs, NEW outcome \in Outcome, Leave(r, outcome)
  PROVE  LiveTypeOK'
<1>1. CASE outcome = Settled
  BY <1>1, FinishType DEF Leave
<1>2. CASE outcome # Settled
  <2>1. EndQuestions(r, outcome) \subseteq Outcome \ {Settled}
    BY <1>2 DEF EndQuestions, Outcome, Settled, Codes
  <2>2. PICK end \in Outcome \ {Settled} : final' = [final EXCEPT ![r] = end]
    BY <1>2, <2>1 DEF Leave
  <2> QED
    BY <1>2, <2>2 DEF Leave, LiveTypeOK, Places, Ending
<1> QED BY <1>1, <1>2

LEMMA OutcomeType ==
  ASSUME NEW r \in Runs, NEW code \in Codes
  PROVE  OutcomeOf(r, code) \in Outcome
<1>1. Interruption(r, code) \in Codes
  BY DEF Interruption, Codes, InterruptionCodes
<1> QED
  BY <1>1 DEF OutcomeOf, Outcome, Settled, Codes

LEMMA FailType ==
  ASSUME LiveTypeOK, NEW r \in Runs, NEW code \in Codes, Fail(r, code)
  PROVE  LiveTypeOK'
<1>1. PICK ended \in EndedBy(r, code) : Leave(r, OutcomeOf(r, ended))
  BY DEF Fail
<1>2. ended \in Codes
  BY DEF EndedBy, Codes
<1> QED BY <1>1, <1>2, OutcomeType, LeaveType

LEMMA ProceedType ==
  ASSUME LiveTypeOK, NEW r \in Runs, NEW place \in Places \ {"ending"}, Proceed(r, place)
  PROVE  LiveTypeOK'
  BY DEF LiveTypeOK, Proceed, GoTo

LEMMA GoToType ==
  ASSUME LiveTypeOK, NEW r \in Runs, NEW place \in Places \ {"ending"}, NEW next \in Stages,
         GoTo(r, place), stage' = [stage EXCEPT ![r] = next]
  PROVE  LiveTypeOK'
  BY DEF LiveTypeOK, GoTo

\* The answers of the database keep the types of its own variables.
LEMMA AnswerType ==
  ASSUME RowsTypeOK, NEW newRow \in [Runs -> Row], row' = newRow,
         Answered \/ AnswerLost \/ Denied \/ Refused
  PROVE  RowsTypeOK'
  BY BoundAssumption DEF RowsTypeOK, Answered, AnswerLost, Denied, Refused, rowVars

LEMMA EndedRowType ==
  ASSUME RowsTypeOK, NEW r \in Runs, NEW state \in EndedStates,
         NEW kind \in {"none", "RESPONSE_ONLY"} \cup SourceKinds, NEW code \in Codes
  PROVE  EndedRow(r, state, kind, code) \in Row
  BY DEF RowsTypeOK, EndedRow, Row

LEMMA EndRunType ==
  ASSUME RowsTypeOK, NEW r \in Runs, NEW state \in EndedStates,
         NEW kind \in {"none", "RESPONSE_ONLY"} \cup SourceKinds, NEW code \in Codes,
         EndRun(r, state, kind, code), Answered \/ AnswerLost
  PROVE  RowsTypeOK'
<1>1. [row EXCEPT ![r] = EndedRow(r, state, kind, code)] \in [Runs -> Row]
  BY EndedRowType DEF RowsTypeOK
<1> QED BY <1>1, AnswerType DEF EndRun

\* A step that leaves a group of variables alone keeps their types.
LEMMA StillTyped ==
  /\ RowsTypeOK /\ UNCHANGED rowVars => RowsTypeOK'
  /\ MainTypeOK /\ UNCHANGED main => MainTypeOK'
  /\ HubTypeOK /\ UNCHANGED hubVars => HubTypeOK'
  /\ AskTypeOK /\ UNCHANGED askVars => AskTypeOK'
  /\ LiveTypeOK /\ UNCHANGED liveVars => LiveTypeOK'
  /\ PassTypeOK /\ UNCHANGED passVars => PassTypeOK'
  BY DEF RowsTypeOK, rowVars, MainTypeOK, HubTypeOK, hubVars, AskTypeOK, askVars,
         LiveTypeOK, liveVars, PassTypeOK, passVars

LEMMA SetPhaseType ==
  ASSUME TypeOK, NEW r \in Runs, NEW from \in Places, NEW to \in Places \ {"ending"}, NEW next \in Stages,
         SetPhase(r, from, to, next)
  PROVE  TypeOK'
<1>1. LiveTypeOK'
  <2>1. PhaseRefusal(r) \in Codes /\ "FAILURE" \in Codes
    BY DEF PhaseRefusal, Codes, StopCodes
  <2> QED BY <2>1, FailType, GoToType DEF SetPhase, TypeOK
<1> QED BY <1>1, StillTyped DEF SetPhase, TypeOK

\* A step of the run in memory alone.
LEMMA WorksType ==
  ASSUME TypeOK, NEW r \in Runs, NEW from, Works(r, from), LiveTypeOK'
  PROVE  TypeOK'
  BY StillTyped DEF Works, TypeOK

LEMMA CodesType == {"FAILURE", "BUILDER_RUN_CANCELLED", "BUILDER_LATE_RESULT_REFUSED",
    "BUILDER_QUESTION_EXPIRED", "BUILDER_SOURCE_BASE_MOVED", "USER_CANCELLED", "HUB_RESTART",
    "BUILDER_SOURCE_ADMISSION_FAILED", "BUILDER_RUN_SETTLE_LOST", "BUILDER_PREVIEW_NOT_BUILT",
    "none"} \subseteq Codes
  BY DEF Codes, StopCodes, InterruptionCodes, NotAdmitted

LEMMA PlacesType == {"idle", "claim", "prepare", "preparing", "turn", "agent", "ask", "waiting",
    "conclude", "finalize", "settle", "admit", "record", "recording", "recorded", "moving",
    "advance", "built", "unbuilt", "ending", "leaving"} \subseteq Places
  BY DEF Places, BeforeSession, Turning, Admitting, Settling, Ending

LEMMA RequestTypes ==
  ASSUME TypeOK, NEW r \in Runs
  PROVE  /\ CreateRun(r) => TypeOK'
         /\ ReplayRun(r) => TypeOK'
         /\ StartRun(r) => TypeOK'
         /\ RequestCancellation(r) => TypeOK'
         /\ SignalStop(r) => TypeOK'
<1> USE DEF TypeOK
<1>1. ASSUME CreateRun(r) PROVE TypeOK'
  <2>1. [NoRow EXCEPT !.state = "QUEUED", !.base = main[Project(r)]] \in Row
    BY NoRowType, ProjectType DEF MainTypeOK, Row, OpenStates
  <2>2. RowsTypeOK'
    BY <1>1, <2>1, AnswerType DEF CreateRun, RowsTypeOK
  <2> QED BY <1>1, <2>2, StillTyped DEF CreateRun, AskTypeOK
<1>2. ASSUME ReplayRun(r) PROVE TypeOK'
  BY <1>2, StillTyped DEF ReplayRun, AskTypeOK
<1>3. ASSUME StartRun(r) PROVE TypeOK'
  <2>1. LiveTypeOK'
    BY <1>3, ProceedType, PlacesType, StillTyped DEF StartRun
  <2> QED BY <1>3, <2>1, StillTyped DEF StartRun, AskTypeOK
<1>4. ASSUME RequestCancellation(r) PROVE TypeOK'
  <2> DEFINE newRow == [row EXCEPT ![r] =
       IF row[r].state = "QUEUED" THEN EndedRow(r, "INTERRUPTED", "none", "USER_CANCELLED")
       ELSE IF row[r].state = "RUNNING" THEN [row[r] EXCEPT !.cancel = TRUE] ELSE row[r]]
  <2>1. newRow \in [Runs -> Row]
    <3>1. EndedRow(r, "INTERRUPTED", "none", "USER_CANCELLED") \in Row
      BY EndedRowType, CodesType DEF EndedStates
    <3>2. [row[r] EXCEPT !.cancel = TRUE] \in Row
      BY DEF RowsTypeOK, Row
    <3> QED BY <3>1, <3>2 DEF RowsTypeOK
  <2>2. RowsTypeOK'
    BY <1>4, <2>1, AnswerType DEF RequestCancellation
  <2> QED BY <1>4, <2>2, StillTyped DEF RequestCancellation, AskTypeOK
<1>5. ASSUME SignalStop(r) PROVE TypeOK'
  <2>1. LiveTypeOK'
    BY <1>5 DEF SignalStop, LiveTypeOK
  <2> QED BY <1>5, <2>1, StillTyped DEF SignalStop, AskTypeOK
<1> QED BY <1>1, <1>2, <1>3, <1>4, <1>5

\* A transaction of the run: it writes a row of the type, or none, and the run goes on typed.
LEMMA WriteType ==
  ASSUME TypeOK, NEW newRow \in [Runs -> Row],
         \/ row' = newRow /\ (Answered \/ AnswerLost)
         \/ UNCHANGED row /\ (Answered \/ Denied)
         \/ Refused,
         LiveTypeOK', UNCHANGED <<main, hubVars, askVars, passVars>>
  PROVE  TypeOK'
<1>1. RowsTypeOK'
  <2>1. row \in [Runs -> Row]
    BY DEF TypeOK, RowsTypeOK
  <2> QED BY <2>1, AnswerType, StillTyped DEF TypeOK, Refused, rowVars
<1> QED BY <1>1, StillTyped DEF TypeOK

LEMMA RowTypes ==
  ASSUME RowsTypeOK, NEW r \in Runs, NEW changed \in Row
  PROVE  /\ row[r] \in Row
         /\ [row EXCEPT ![r] = changed] \in [Runs -> Row]
  BY DEF RowsTypeOK

LEMMA TurnTypes ==
  ASSUME TypeOK, NEW r \in Runs
  PROVE  /\ EnterPreparing(r) => TypeOK'
         /\ Prepare(r) => TypeOK'
         /\ EnterAgent(r) => TypeOK'
         /\ TurnEnds(r) => TypeOK'
         /\ TurnAsks(r) => TypeOK'
         /\ EnterWaiting(r) => TypeOK'
         /\ AwaitReply(r) => TypeOK'
         /\ Conclude(r) => TypeOK'
         /\ EnterFinalizing(r) => TypeOK'
         /\ EnterAdmission(r) => TypeOK'
         /\ CheckStop(r) => TypeOK'
         /\ LetGo(r) => TypeOK'
<1>1. LiveTypeOK
  BY DEF TypeOK
<1>2. stage[r] \in Stages /\ "CLAIMED" \in Stages
  BY <1>1 DEF LiveTypeOK, Stages
<1>3. /\ EnterPreparing(r) => TypeOK'
      /\ EnterAgent(r) => TypeOK'
      /\ EnterWaiting(r) => TypeOK'
      /\ EnterFinalizing(r) => TypeOK'
      /\ EnterAdmission(r) => TypeOK'
  BY <1>2, SetPhaseType, PlacesType
     DEF EnterPreparing, EnterAgent, EnterWaiting, EnterFinalizing, EnterAdmission
<1>4. /\ Prepare(r) => TypeOK'
      /\ TurnEnds(r) => TypeOK'
      /\ TurnAsks(r) => TypeOK'
      /\ LetGo(r) => TypeOK'
  BY <1>1, WorksType, ProceedType, FailType, PlacesType, CodesType
     DEF Prepare, TurnEnds, TurnAsks, LetGo
<1>5. AwaitReply(r) => TypeOK'
  BY <1>1, WorksType, ProceedType, FailType, PlacesType, CodesType DEF AwaitReply
<1>6. Conclude(r) => TypeOK'
  BY <1>1, WorksType, ProceedType, FailType, PlacesType, CodesType DEF Conclude
<1>7. CheckStop(r) => TypeOK'
  BY <1>1, WorksType, ProceedType, FailType, PlacesType, CodesType DEF CheckStop
<1> QED BY <1>3, <1>4, <1>5, <1>6, <1>7

LEMMA WritingTypes ==
  ASSUME TypeOK, NEW r \in Runs
  PROVE  /\ Claim(r) => TypeOK'
         /\ SettleResponse(r) => TypeOK'
         /\ RecordCandidate(r) => TypeOK'
         /\ AdvanceSource(r) => TypeOK'
         /\ SettleBuilt(r) => TypeOK'
         /\ SettleUnbuilt(r) => TypeOK'
         /\ WriteEnding(r) => TypeOK'
<1>1. RowsTypeOK /\ LiveTypeOK /\ row[r] \in Row
  BY RowTypes DEF TypeOK, RowsTypeOK
<1>2. \A state \in EndedStates, kind \in {"none", "RESPONSE_ONLY"} \cup SourceKinds, code \in Codes :
        [row EXCEPT ![r] = EndedRow(r, state, kind, code)] \in [Runs -> Row]
  BY <1>1, EndedRowType, RowTypes
<1>3. ASSUME Claim(r) PROVE TypeOK'
  <2>1. [row[r] EXCEPT !.state = "RUNNING", !.owner = epoch] \in Row
    BY <1>1, OwnersType DEF TypeOK, Row, OpenStates
  <2>2. [row EXCEPT ![r].state = "RUNNING", ![r].owner = epoch]
          = [row EXCEPT ![r] = [row[r] EXCEPT !.state = "RUNNING", !.owner = epoch]]
    BY <1>1 DEF RowsTypeOK
  <2>3. LiveTypeOK'
    BY <1>1, <1>3, GoToType, FailType, PlacesType, CodesType DEF Claim, Stages
  <2>4. \/ row' = [row EXCEPT ![r].state = "RUNNING", ![r].owner = epoch] /\ (Answered \/ AnswerLost)
        \/ UNCHANGED row /\ (Answered \/ Denied)
        \/ Refused
    BY <1>3 DEF Claim, Denied
  <2>5. UNCHANGED <<main, hubVars, askVars, passVars>>
    BY <1>3 DEF Claim
  <2>6. [row EXCEPT ![r].state = "RUNNING", ![r].owner = epoch] \in [Runs -> Row]
    BY <1>1, <2>1, <2>2, RowTypes
  <2> QED BY <2>3, <2>4, <2>5, <2>6, WriteType
<1>4. ASSUME SettleResponse(r) PROVE TypeOK'
  <2>1. LiveTypeOK'
    BY <1>1, <1>4, FinishType, FailType, CodesType DEF SettleResponse
  <2>2. [row EXCEPT ![r] = EndedRow(r, "SUCCEEDED", "RESPONSE_ONLY", "none")] \in [Runs -> Row]
    BY <1>2, CodesType DEF EndedStates
  <2> QED BY <1>4, <2>1, <2>2, WriteType DEF SettleResponse, EndRun
<1>5. ASSUME RecordCandidate(r) PROVE TypeOK'
  <2>1. [row EXCEPT ![r].candidate = TRUE] \in [Runs -> Row]
    BY <1>1 DEF RowsTypeOK, Row
  <2>2. LiveTypeOK'
    BY <1>1, <1>5, GoToType, FailType, PlacesType, CodesType DEF RecordCandidate, Stages
  <2> QED BY <1>5, <2>1, <2>2, WriteType DEF RecordCandidate
<1>6. ASSUME AdvanceSource(r) PROVE TypeOK'
  <2>1. [row EXCEPT ![r].result = TRUE] \in [Runs -> Row]
    BY <1>1 DEF RowsTypeOK, Row
  <2>2. LiveTypeOK'
    BY <1>1, <1>6, ProceedType, FailType, PlacesType, CodesType DEF AdvanceSource, PreparePreview
  <2> QED BY <1>6, <2>1, <2>2, WriteType DEF AdvanceSource
<1>7. ASSUME SettleBuilt(r) PROVE TypeOK'
  <2>1. LiveTypeOK'
    BY <1>1, <1>7, FinishType, ProceedType, PlacesType DEF SettleBuilt
  <2>2. [row EXCEPT ![r] = EndedRow(r, "SUCCEEDED", "SOURCE_CHANGED", "none")] \in [Runs -> Row]
    BY <1>2, CodesType DEF EndedStates, SourceKinds
  <2> QED BY <1>7, <2>1, <2>2, WriteType DEF SettleBuilt, EndRun
<1>8. ASSUME SettleUnbuilt(r) PROVE TypeOK'
  <2>1. LiveTypeOK'
    BY <1>1, <1>8, FinishType DEF SettleUnbuilt
  <2>2. [row EXCEPT ![r] = EndedRow(r, "FAILED", "SOURCE_CHANGED_BUILD_FAILED", "FAILURE")] \in [Runs -> Row]
    BY <1>2, CodesType DEF EndedStates, SourceKinds
  <2> QED BY <1>8, <2>1, <2>2, WriteType DEF SettleUnbuilt, EndRun
<1>9. ASSUME WriteEnding(r) PROVE TypeOK'
  <2>1. TryAgain(r) => LiveTypeOK'
    <3>1. CASE tries[r] + 1 = EndingTries
      BY <1>1, <3>1, FinishType DEF TryAgain
    <3>2. CASE tries[r] + 1 # EndingTries
      BY <1>1, <3>2 DEF TryAgain, LiveTypeOK, EndingTries
    <3> QED BY <3>1, <3>2
  <2>2. LiveTypeOK'
    BY <1>1, <1>9, <2>1, FinishType DEF WriteEnding
  <2>3. [row EXCEPT ![r] = EndedRow(r, final[r].how, "none", final[r].code)] \in [Runs -> Row]
    <3>1. final[r].how \in EndedStates /\ final[r].code \in Codes
      BY <1>1, <1>9 DEF WriteEnding, LiveTypeOK, Outcome, EndedStates
    <3> QED BY <1>2, <3>1
  <2> QED BY <1>9, <2>2, <2>3, WriteType DEF WriteEnding, EndRun
<1> QED BY <1>3, <1>4, <1>5, <1>6, <1>7, <1>8, <1>9

LEMMA MovedType ==
  ASSUME RowsTypeOK, MainTypeOK, NEW r \in Runs
  PROVE  Moved(r) \in [Projects -> Revisions]
<1>1. Candidate(r) \in Revisions
  BY DEF RowsTypeOK, Row, Revisions, Candidate
<1> QED BY <1>1 DEF Moved, MainTypeOK

LEMMA MovingTypes ==
  ASSUME TypeOK, NEW r \in Runs
  PROVE  /\ MoveMain(r) => TypeOK'
         /\ MoveMainFails(r) => TypeOK'
<1>1. RowsTypeOK /\ MainTypeOK /\ LiveTypeOK
  BY DEF TypeOK
<1>2. ASSUME MoveMain(r) PROVE TypeOK'
  <2>1. MainTypeOK'
    BY <1>1, <1>2, MovedType DEF MoveMain, MainTypeOK
  <2>2. LiveTypeOK'
    BY <1>1, <1>2, ProceedType, FailType, PlacesType, CodesType DEF MoveMain
  <2> QED BY <1>2, <2>1, <2>2, StillTyped DEF MoveMain, TypeOK
<1>3. ASSUME MoveMainFails(r) PROVE TypeOK'
  <2>1. MainTypeOK'
    BY <1>1, <1>3, MovedType DEF MoveMainFails, MainTypeOK
  <2>2. LiveTypeOK'
    BY <1>1, <1>3, FailType, CodesType DEF MoveMainFails
  <2>3. RowsTypeOK'
    BY <1>1, <1>3, BoundAssumption DEF MoveMainFails, RowsTypeOK
  <2> QED BY <1>3, <2>1, <2>2, <2>3, StillTyped DEF MoveMainFails, TypeOK
<1> QED BY <1>2, <1>3

LEMMA RunStepType ==
  ASSUME TypeOK, NEW r \in Runs, RunStep(r)
  PROVE  TypeOK'
  BY TurnTypes, WritingTypes, MovingTypes DEF RunStep

\* The pass.
LEMMA PassDoneType ==
  ASSUME PassTypeOK, NEW r \in Runs, NEW settled \in BOOLEAN, PassDone(r, settled)
  PROVE  PassTypeOK'
  BY DEF PassTypeOK, PassDone, Steps

LEMMA PassGoesOnType ==
  ASSUME PassTypeOK, NEW next \in Steps, PassGoesOn(next)
  PROVE  PassTypeOK'
  BY DEF PassTypeOK, PassGoesOn

LEMMA PassWriteType ==
  ASSUME TypeOK, NEW r \in Runs, NEW at, NEW admits \in BOOLEAN, NEW newRow \in Row,
         NEW last \in BOOLEAN, NEW next \in Steps, PassWrite(r, at, admits, newRow, last, next)
  PROVE  TypeOK'
<1>1. RowsTypeOK /\ PassTypeOK
  BY DEF TypeOK
<1>2. PassTypeOK'
  BY <1>1, PassDoneType, PassGoesOnType DEF PassWrite
<1>3. RowsTypeOK'
  <2>1. [row EXCEPT ![r] = newRow] \in [Runs -> Row] /\ row \in [Runs -> Row]
    BY <1>1 DEF RowsTypeOK
  <2> QED BY <1>1, <2>1, AnswerType, StillTyped DEF PassWrite, Refused
<1> QED BY <1>2, <1>3, StillTyped DEF PassWrite, TypeOK

LEMMA PassNextType ==
  ASSUME TypeOK, NEW r \in Runs, PassNext(r)
  PROVE  TypeOK'
<1>1. NoSeen \in Seen
  BY BoundAssumption DEF NoSeen, Seen, Owners
<1>2. LossOf(r) \in {"none", "SETTLE_LOST", "OWNER_GONE"}
  BY DEF TypeOK, PassTypeOK, LossOf
<1>3. FirstStep(r) \in Steps
  BY DEF FirstStep, Steps
<1>4. PassTypeOK'
  BY <1>1, <1>2, <1>3 DEF PassNext, TypeOK, PassTypeOK
<1> QED BY <1>4, StillTyped DEF PassNext, TypeOK

LEMMA PassStepType ==
  ASSUME TypeOK, NEW r \in Runs, PassStep(r)
  PROVE  TypeOK'
<1>1. RowsTypeOK /\ row[r] \in Row
  BY DEF TypeOK, RowsTypeOK
<1>2. \A state \in EndedStates, kind \in {"none", "RESPONSE_ONLY"} \cup SourceKinds, code \in Codes :
        EndedRow(r, state, kind, code) \in Row
  BY <1>1, EndedRowType
<1>3. {"none", "settle"} \subseteq Steps
  BY DEF Steps
<1>4. CASE PassNext(r)
  BY <1>4, PassNextType
<1>5. CASE PassCloses(r)
  <2>1. /\ EndedRow(r, "FAILED", "none", "BUILDER_RUN_SETTLE_LOST") \in Row
        /\ EndedRow(r, "INTERRUPTED", "none", "HUB_RESTART") \in Row
    BY <1>2, CodesType DEF EndedStates
  <2>2. Mine(r) \in BOOLEAN
    BY DEF Mine
  <2> QED BY <1>3, <1>5, <2>1, <2>2, PassWriteType DEF PassCloses
<1>6. CASE PassLooks(r)
  <2>1. PassTypeOK /\ PassTypeOK'
    BY <1>6, PassGoesOnType, PassDoneType DEF PassLooks, Steps, TypeOK
  <2>2. RowsTypeOK'
    <3>1. faults' = faults \/ (faults < MaxFaults /\ faults' = faults + 1)
      BY <1>6, Zenon DEF PassLooks
    <3>2. row' = row /\ db' = db
      BY <1>6 DEF PassLooks
    <3> QED BY <1>1, <3>1, <3>2, BoundAssumption DEF RowsTypeOK
  <2> QED BY <1>6, <2>1, <2>2, StillTyped DEF PassLooks, TypeOK
<1>7. CASE PassRefuses(r)
  <2>1. EndedRow(r, "FAILED", "none", "BUILDER_SOURCE_ADMISSION_FAILED") \in Row
    BY <1>2, CodesType DEF EndedStates
  <2>2. Mine(r) \in BOOLEAN
    BY DEF Mine
  <2> QED BY <1>3, <1>7, <2>1, <2>2, PassWriteType DEF PassRefuses
<1>8. CASE PassAdvances(r)
  <2>1. [row[r] EXCEPT !.result = TRUE] \in Row
    BY <1>1 DEF Row
  <2>2. (Mine(r) /\ row[r].state = "RUNNING" /\ row[r].candidate) \in BOOLEAN
    OBVIOUS
  <2> QED BY <1>3, <1>8, <2>1, <2>2, PassWriteType DEF PassAdvances
<1>9. CASE PassSettles(r)
  <2>1. EndedRow(r, "FAILED", "SOURCE_CHANGED_BUILD_FAILED", "BUILDER_PREVIEW_NOT_BUILT") \in Row
    BY <1>2, CodesType DEF EndedStates, SourceKinds
  <2>2. CanSettleBuild(r) \in BOOLEAN
    BY DEF CanSettleBuild
  <2> QED BY <1>3, <1>9, <2>1, <2>2, PassWriteType DEF PassSettles
<1> QED BY <1>4, <1>5, <1>6, <1>7, <1>8, <1>9 DEF PassStep

LEMMA TakeOverType ==
  ASSUME TypeOK, NEW S \in SUBSET Runs, TakeOver(S)
  PROVE  TypeOK'
<1>1. row \in [Runs -> Row] /\ epoch \in Owners
  BY OwnersType DEF TypeOK, RowsTypeOK
<1>2. [r \in Runs |-> IF r \in S THEN [row[r] EXCEPT !.owner = epoch] ELSE row[r]] \in [Runs -> Row]
  BY <1>1 DEF Row
<1>3. RowsTypeOK'
  BY <1>2, AnswerType DEF TakeOver, TypeOK
<1>4. PassTypeOK'
  <2>1. NoSeen \in Seen
    BY BoundAssumption DEF NoSeen, Seen, Owners
  <2>2. \A r \in Runs :
          [candidate |-> row[r].candidate, result |-> row[r].result, owner |-> row[r].owner] \in Seen
    BY <1>1 DEF Row, Seen
  <2> QED BY <2>1, <2>2 DEF TakeOver, TypeOK, PassTypeOK
<1> QED BY <1>3, <1>4, StillTyped DEF TakeOver, TypeOK

\* What the machine and the world do.
LEMMA ForgetType ==
  ASSUME Forget
  PROVE  AskTypeOK' /\ LiveTypeOK' /\ PassTypeOK'
<1>1. AskTypeOK'
  BY DEF Forget, AskTypeOK
<1>2. LiveTypeOK'
  BY DEF Forget, LiveTypeOK, Places, Stages, Outcome, EndingTries
<1>3. PassTypeOK'
  <2>1. NoSeen \in Seen
    BY BoundAssumption DEF NoSeen, Seen, Owners
  <2> QED BY <2>1 DEF Forget, PassTypeOK, Steps
<1> QED BY <1>1, <1>2, <1>3

LEMMA WorldTypes ==
  ASSUME TypeOK
  PROVE  /\ Boot => TypeOK'
         /\ Crash => TypeOK'
         /\ Close => TypeOK'
         /\ StopRuns => TypeOK'
         /\ HubExits => TypeOK'
         /\ DatabaseFails => TypeOK'
         /\ DatabaseReturns => TypeOK'
         /\ \A w \in Writers : WriterMovesMain(w) => TypeOK'
<1> USE DEF TypeOK
<1>1. ASSUME Boot PROVE TypeOK'
  <2>1. HubTypeOK'
    BY <1>1, BoundAssumption DEF Boot, HubTypeOK
  <2> QED BY <1>1, <2>1, StillTyped DEF Boot
<1>2. ASSUME Crash PROVE TypeOK'
  <2>1. HubTypeOK'
    BY <1>2 DEF Crash, HubTypeOK
  <2>2. MainTypeOK'
    BY <1>2, MovedType DEF Crash, MainTypeOK
  <2> QED BY <1>2, <2>1, <2>2, ForgetType, StillTyped DEF Crash
<1>3. ASSUME Close PROVE TypeOK'
  <2>1. HubTypeOK'
    BY <1>3 DEF Close, HubTypeOK
  <2> QED BY <1>3, <2>1, StillTyped DEF Close
<1>4. ASSUME StopRuns PROVE TypeOK'
  <2>1. HubTypeOK'
    BY <1>4 DEF StopRuns, HubTypeOK
  <2>2. LiveTypeOK'
    BY <1>4 DEF StopRuns, LiveTypeOK
  <2> QED BY <1>4, <2>1, <2>2, StillTyped DEF StopRuns
<1>5. ASSUME HubExits PROVE TypeOK'
  <2>1. HubTypeOK'
    BY <1>5 DEF HubExits, HubTypeOK
  <2> QED BY <1>5, <2>1, ForgetType, StillTyped DEF HubExits
<1>6. ASSUME DatabaseFails PROVE TypeOK'
  <2>1. RowsTypeOK'
    BY <1>6, BoundAssumption DEF DatabaseFails, RowsTypeOK
  <2> QED BY <1>6, <2>1, StillTyped DEF DatabaseFails
<1>7. ASSUME DatabaseReturns PROVE TypeOK'
  <2>1. RowsTypeOK'
    BY <1>7 DEF DatabaseReturns, RowsTypeOK
  <2> QED BY <1>7, <2>1, StillTyped DEF DatabaseReturns
<1>8. ASSUME NEW w \in Writers, WriterMovesMain(w) PROVE TypeOK'
  <2>1. MainTypeOK'
    BY <1>8 DEF WriterMovesMain, MainTypeOK, Revisions
  <2> QED BY <1>8, <2>1, StillTyped DEF WriterMovesMain
<1> QED BY <1>1, <1>2, <1>3, <1>4, <1>5, <1>6, <1>7, <1>8

LEMMA InitType ==
  ASSUME Init
  PROVE  TypeOK
<1>1. RowsTypeOK
  BY NoRowType, BoundAssumption DEF Init, RowsTypeOK
<1>2. MainTypeOK /\ HubTypeOK /\ AskTypeOK
  BY BoundAssumption DEF Init, MainTypeOK, HubTypeOK, AskTypeOK, Revisions
<1>3. LiveTypeOK
  BY DEF Init, LiveTypeOK, Places, Stages, Outcome, EndingTries
<1>4. PassTypeOK
  <2>1. NoSeen \in Seen
    BY BoundAssumption DEF NoSeen, Seen, Owners
  <2> QED BY <2>1 DEF Init, PassTypeOK, Steps
<1> QED BY <1>1, <1>2, <1>3, <1>4 DEF TypeOK

LEMMA NextType ==
  ASSUME TypeOK, [Next]_vars
  PROVE  TypeOK'
<1>1. CASE UNCHANGED vars
  BY <1>1, StillTyped DEF vars, TypeOK
<1>2. CASE Next
  BY <1>2, RequestTypes, RunStepType, TakeOverType, PassStepType, WorldTypes DEF Next
<1> QED BY <1>1, <1>2

\* Rows, `main`, the Hub's memory and the pass hold only what their types say, in every
\* behaviour of any number of runs, Hubs and faults; an ending is never tried a fourth time.
THEOREM TypeCorrect == Spec => []TypeOK
<1>1. Init => TypeOK
  BY InitType
<1>2. TypeOK /\ [Next]_vars => TypeOK'
  BY NextType
<1> QED BY <1>1, <1>2, PTL DEF Spec

-----------------------------------------------------------------------------
(* Who writes which row: the two facts every property of rows rests on *)

\* A message makes a row where none was, and only in a Project with no open run.
Makes(r) ==
  /\ row[r].state = "NONE" /\ ~ProjectBusy(r)
  /\ \E made \in Row : row' = [row EXCEPT ![r] = made]

\* Any other step writes over open rows only.
WritesOpenRows == \A r \in Runs : Open(r) \/ row'[r] = row[r]

LEMMA EndRunWrites ==
  ASSUME TypeOK, NEW r \in Runs, Open(r), NEW changed, row' = [row EXCEPT ![r] = changed]
  PROVE  WritesOpenRows
  BY DEF WritesOpenRows, TypeOK, RowsTypeOK

LEMMA SameRows ==
  ASSUME UNCHANGED row
  PROVE  WritesOpenRows
  BY DEF WritesOpenRows

LEMMA CreateMakes ==
  ASSUME TypeOK, NEW r \in Runs, CreateRun(r)
  PROVE  Makes(r)
<1>1. [NoRow EXCEPT !.state = "QUEUED", !.base = main[Project(r)]] \in Row
  BY NoRowType, ProjectType DEF TypeOK, MainTypeOK, Row, OpenStates
<1> QED BY <1>1 DEF CreateRun, Makes

LEMMA RunStepWrites ==
  ASSUME TypeOK, NEW r \in Runs, RunStep(r)
  PROVE  WritesOpenRows
<1>1. CASE Claim(r)
  <2>1. CASE row[r].state = "QUEUED" /\ row' = [row EXCEPT ![r].state = "RUNNING", ![r].owner = epoch]
    BY <2>1 DEF WritesOpenRows, Open, OpenStates, TypeOK, RowsTypeOK
  <2>2. CASE UNCHANGED row
    BY <2>2, SameRows
  <2> QED BY <1>1, <2>1, <2>2 DEF Claim, Denied, Refused, rowVars
<1>2. CASE SettleResponse(r)
  BY <1>2, EndRunWrites, SameRows DEF SettleResponse, EndRun, Mine, Refused, rowVars
<1>3. CASE RecordCandidate(r)
  <2>1. CASE TakesPhase(r) /\ row' = [row EXCEPT ![r].candidate = TRUE]
    BY <2>1 DEF TakesPhase, Mine, WritesOpenRows, TypeOK, RowsTypeOK
  <2>2. CASE UNCHANGED row
    BY <2>2, SameRows
  <2> QED BY <1>3, <2>1, <2>2 DEF RecordCandidate, Refused, rowVars
<1>4. CASE AdvanceSource(r)
  <2>1. CASE Mine(r) /\ row' = [row EXCEPT ![r].result = TRUE]
    BY <2>1 DEF Mine, WritesOpenRows, TypeOK, RowsTypeOK
  <2>2. CASE UNCHANGED row
    BY <2>2, SameRows
  <2> QED BY <1>4, <2>1, <2>2 DEF AdvanceSource, Refused, rowVars
<1>5. CASE SettleBuilt(r) \/ SettleUnbuilt(r)
  <2>1. (CanSettleBuild(r) /\ \E changed : row' = [row EXCEPT ![r] = changed]) \/ UNCHANGED row
    BY <1>5 DEF SettleBuilt, SettleUnbuilt, EndRun, Refused, rowVars
  <2> QED BY <2>1, EndRunWrites, SameRows DEF CanSettleBuild, Mine
<1>6. CASE WriteEnding(r)
  <2>1. ((EndsUnclaimed(r) \/ Mine(r)) /\ \E changed : row' = [row EXCEPT ![r] = changed]) \/ UNCHANGED row
    BY <1>6 DEF WriteEnding, EndRun, Refused, rowVars
  <2> QED BY <2>1, EndRunWrites, SameRows DEF EndsUnclaimed, Mine, Open, OpenStates
<1>7. CASE \/ EnterPreparing(r) \/ EnterAgent(r) \/ EnterWaiting(r) \/ EnterFinalizing(r)
           \/ EnterAdmission(r)
  BY <1>7, SameRows DEF EnterPreparing, EnterAgent, EnterWaiting, EnterFinalizing, EnterAdmission,
     SetPhase, rowVars
<1>8. CASE \/ Prepare(r) \/ TurnEnds(r) \/ TurnAsks(r) \/ AwaitReply(r) \/ Conclude(r)
           \/ CheckStop(r) \/ LetGo(r)
  BY <1>8, SameRows DEF Prepare, TurnEnds, TurnAsks, AwaitReply, Conclude, CheckStop, LetGo, Works, rowVars
<1>9. CASE MoveMain(r) \/ MoveMainFails(r)
  BY <1>9, SameRows DEF MoveMain, MoveMainFails, rowVars
<1> QED BY <1>1, <1>2, <1>3, <1>4, <1>5, <1>6, <1>7, <1>8, <1>9 DEF RunStep

LEMMA PassStepWrites ==
  ASSUME TypeOK, NEW r \in Runs, PassStep(r)
  PROVE  WritesOpenRows
<1>1. CASE PassNext(r) \/ PassLooks(r)
  BY <1>1, SameRows DEF PassNext, PassLooks, rowVars
<1>2. CASE PassCloses(r) \/ PassRefuses(r) \/ PassAdvances(r) \/ PassSettles(r)
  <2>1. (Mine(r) /\ \E changed : row' = [row EXCEPT ![r] = changed]) \/ UNCHANGED row
    BY <1>2 DEF PassCloses, PassRefuses, PassAdvances, PassSettles, PassWrite, CanSettleBuild,
       Refused, rowVars
  <2> QED BY <2>1, EndRunWrites, SameRows DEF Mine
<1> QED BY <1>1, <1>2 DEF PassStep

LEMMA RowStep ==
  ASSUME TypeOK, [Next]_vars
  PROVE  (\E r \in Runs : Makes(r)) \/ WritesOpenRows
<1>1. CASE \E r \in Runs : CreateRun(r)
  BY <1>1, CreateMakes
<1>2. CASE \E r \in Runs : RunStep(r)
  BY <1>2, RunStepWrites
<1>3. CASE \E r \in Runs : RequestCancellation(r)
  <2>1. PICK r \in Runs : RequestCancellation(r)
    BY <1>3
  <2>2. CASE Open(r)
    BY <2>1, <2>2, EndRunWrites DEF RequestCancellation
  <2>3. CASE ~Open(r)
    BY <2>1, <2>3 DEF RequestCancellation, Open, OpenStates, WritesOpenRows, TypeOK, RowsTypeOK
  <2> QED BY <2>2, <2>3
<1>4. CASE \E S \in SUBSET Runs : TakeOver(S)
  BY <1>4 DEF TakeOver, MayBeStale, WritesOpenRows, TypeOK, RowsTypeOK
<1>5. CASE \E r \in Runs : PassStep(r)
  BY <1>5, PassStepWrites
<1>6. CASE \E r \in Runs : ReplayRun(r) \/ StartRun(r) \/ SignalStop(r)
  BY <1>6, SameRows DEF ReplayRun, StartRun, SignalStop, rowVars
<1>7. CASE \/ Boot \/ Crash \/ Close \/ StopRuns \/ HubExits \/ DatabaseFails \/ DatabaseReturns
           \/ (\E w \in Writers : WriterMovesMain(w)) \/ UNCHANGED vars
  BY <1>7, SameRows DEF Boot, Crash, Close, StopRuns, HubExits, DatabaseFails, DatabaseReturns,
     WriterMovesMain, vars, rowVars
<1> QED BY <1>1, <1>2, <1>3, <1>4, <1>5, <1>6, <1>7 DEF Next

-----------------------------------------------------------------------------
(* One open run in each Project *)

LEMMA OneOpenRunStep ==
  ASSUME TypeOK, OneOpenRun, [Next]_vars
  PROVE  OneOpenRun'
<1>1. CASE \E r \in Runs : Makes(r)
  <2>1. PICK r \in Runs : Makes(r)
    BY <1>1
  <2>2. \A other \in Runs : other # r => row'[other] = row[other]
    BY <2>1 DEF Makes, TypeOK, RowsTypeOK
  <2>3. \A other \in Runs : Open(other) => Project(other) # Project(r)
    BY <2>1 DEF Makes, ProjectBusy
  <2> QED BY <2>2, <2>3 DEF OneOpenRun, Open, Project
<1>2. CASE WritesOpenRows
  <2>1. \A r \in Runs : Open(r)' => Open(r)
    BY <1>2 DEF WritesOpenRows, Open
  <2> QED BY <2>1 DEF OneOpenRun, Project
<1> QED BY <1>1, <1>2, RowStep

\* A Project has at most one open run, however many messages, replays, crashes and takeovers
\* there were: createBuilderRun looks under the Project's lock, and no write reopens a row.
THEOREM OneOpenRunHolds == Spec => []OneOpenRun
<1>1. Init => OneOpenRun
  BY DEF Init, NoRow, OneOpenRun, Open, OpenStates
<1>2. TypeOK /\ OneOpenRun /\ [Next]_vars => OneOpenRun'
  BY OneOpenRunStep
<1> QED BY <1>1, <1>2, TypeCorrect, PTL DEF Spec

LEMMA EndedRowStays ==
  ASSUME TypeOK, [Next]_vars, NEW r \in Runs, Ended(r)
  PROVE  row'[r] = row[r]
<1>1. ~Open(r) /\ row[r].state # "NONE"
  BY DEF Ended, Open, EndedStates, OpenStates
<1>2. CASE \E made \in Runs : Makes(made)
  BY <1>1, <1>2 DEF Makes, TypeOK, RowsTypeOK
<1>3. CASE WritesOpenRows
  BY <1>1, <1>3 DEF WritesOpenRows
<1> QED BY <1>2, <1>3, RowStep

\* An ended row is final: every write of a run, its exit, a stop or a pass needs it open, and
\* no message makes a run of a key that made one.
THEOREM SettledRunIsFinal == Spec => SettledRunNeverRewritten
<1>1. TypeOK /\ [Next]_vars => [\A r \in Runs : Ended(r) => row'[r] = row[r]]_vars
  BY EndedRowStays
<1> QED BY <1>1, TypeCorrect, PTL DEF Spec, SettledRunNeverRewritten

-----------------------------------------------------------------------------
(* What moves `main` is recorded: the invariant *)

\* A run that may still move `main` has its candidate recorded.
MovesRecorded == \A r \in Runs : pc[r] \in {"recorded", "moving"} => row[r].candidate

\* Whoever is about to record an advance knows the change is on `main`: the run because it moved
\* it there, the pass because it looked or because the row it read said so.
AdvancesAdmitted ==
  \A r \in Runs :
    /\ pc[r] = "advance" => OnMain(r)
    /\ seen[r].result => OnMain(r)
    /\ settling = r /\ step = "advance" => OnMain(r)

\* A key that made no run has recorded nothing.
NoRowNoCandidate == \A r \in Runs : row[r].state = "NONE" => ~row[r].candidate

MainInv == RowFollowsMain /\ MovesRecorded /\ AdvancesAdmitted /\ NoRowNoCandidate

-----------------------------------------------------------------------------
(* What a step does to `main` *)

\* `main` keeps what it has, and only a run at its move is new on it.
MainFollows ==
  /\ \A p \in Projects : main[p] \subseteq main'[p]
  /\ \A q \in Runs : q \in main'[Project(q)] => OnMain(q) \/ pc[q] = "moving"

LEMMA MovedFollows ==
  ASSUME TypeOK, NEW r \in Runs, pc[r] = "moving", main' \in {main, Moved(r)}
  PROVE  MainFollows
<1>1. CASE main' = main
  BY <1>1 DEF MainFollows, OnMain
<1>2. CASE main' = Moved(r)
  <2>1. CASE main[Project(r)] \in {row[r].base, Candidate(r)}
    <3>1. main' = [main EXCEPT ![Project(r)] = @ \cup {r}]
      BY <1>2, <2>1 DEF Moved, Candidate, TypeOK, MainTypeOK
    <3>2. \A q \in Runs : q \in main'[Project(q)] => q \in main[Project(q)] \/ q = r
      BY <3>1, ProjectType DEF TypeOK, MainTypeOK
    <3> QED BY <3>1, <3>2, ProjectType DEF MainFollows, OnMain, TypeOK, MainTypeOK
  <2>2. CASE main[Project(r)] \notin {row[r].base, Candidate(r)}
    BY <1>2, <2>2 DEF Moved, MainFollows, OnMain
  <2> QED BY <2>1, <2>2
<1> QED BY <1>1, <1>2

LEMMA SameMain ==
  ASSUME UNCHANGED main
  PROVE  MainFollows
  BY DEF MainFollows, OnMain

LEMMA MainStep ==
  ASSUME TypeOK, [Next]_vars
  PROVE  MainFollows
<1>1. CASE \E r \in Runs : MoveMain(r) \/ MoveMainFails(r)
  BY <1>1, MovedFollows DEF MoveMain, MoveMainFails
<1>2. CASE Crash
  BY <1>2, MovedFollows, SameMain DEF Crash
<1>3. CASE \E w \in Writers : WriterMovesMain(w)
  <2>1. PICK w \in Writers, p \in Projects : main' = [main EXCEPT ![p] = @ \cup {w}]
    BY <1>3 DEF WriterMovesMain
  <2>2. w \notin Runs
    BY NamesAssumption
  <2> QED BY <2>1, <2>2, ProjectType DEF MainFollows, OnMain, TypeOK, MainTypeOK
<1>4. CASE \E r \in Runs : RunStep(r) /\ ~MoveMain(r) /\ ~MoveMainFails(r)
  BY <1>4, SameMain DEF RunStep, Claim, EnterPreparing, Prepare, EnterAgent, TurnEnds, TurnAsks,
     EnterWaiting, AwaitReply, Conclude, EnterFinalizing, SettleResponse, EnterAdmission, CheckStop,
     RecordCandidate, AdvanceSource, SettleBuilt, SettleUnbuilt, WriteEnding, LetGo, SetPhase, Works
<1>5. CASE \E r \in Runs : PassStep(r)
  BY <1>5, SameMain DEF PassStep, PassNext, PassCloses, PassLooks, PassRefuses, PassAdvances,
     PassSettles, PassWrite
<1>6. CASE \/ \E r \in Runs : \/ CreateRun(r) \/ ReplayRun(r) \/ StartRun(r)
                              \/ RequestCancellation(r) \/ SignalStop(r)
           \/ \E S \in SUBSET Runs : TakeOver(S)
  BY <1>6, SameMain DEF CreateRun, ReplayRun, StartRun, RequestCancellation, SignalStop, TakeOver
<1>7. CASE Boot \/ Close \/ StopRuns \/ HubExits \/ DatabaseFails \/ DatabaseReturns \/ UNCHANGED vars
  BY <1>7, SameMain DEF Boot, Close, StopRuns, HubExits, DatabaseFails, DatabaseReturns, vars
<1> QED BY <1>1, <1>2, <1>3, <1>4, <1>5, <1>6, <1>7 DEF Next

\* `main` only moves forward: the update compares and swaps from the run's base, so what another
\* writer put there since is never dropped.
THEOREM MainMovesForward == Spec => NothingOverwritten
<1>1. TypeOK /\ [Next]_vars => [\A p \in Projects : main[p] \subseteq main'[p]]_vars
  BY MainStep DEF MainFollows
<1> QED BY <1>1, TypeCorrect, PTL DEF Spec, NothingOverwritten

-----------------------------------------------------------------------------
(* What a step does to what a row records *)

\* A row is made with nothing recorded. Nothing recorded is forgotten; a candidate is recorded by a
\* running run that nobody asked to stop, and a result by whoever is about to record an advance.
RowsFollow ==
  \A q \in Runs :
    \/ row[q].state = "NONE" /\ row'[q].state # "NONE" /\ ~row'[q].candidate /\ ~row'[q].result
    \/ /\ row'[q].state = "NONE" => row'[q] = row[q]
       /\ row[q].candidate => row'[q].candidate
       /\ row'[q].candidate => row[q].candidate \/ (RecordCandidate(q) /\ TakesPhase(q))
       /\ row'[q].result => row[q].result \/ pc[q] = "advance" \/ (settling = q /\ step = "advance")

LEMMA RowsStay ==
  ASSUME UNCHANGED row
  PROVE  RowsFollow
  BY DEF RowsFollow

\* An ending changes neither what was recorded nor that there is a row.
LEMMA EndFollows ==
  ASSUME TypeOK, NEW r \in Runs, NEW state \in EndedStates, NEW kind, NEW code,
         row' = [row EXCEPT ![r] = EndedRow(r, state, kind, code)]
  PROVE  RowsFollow
<1>1. /\ EndedRow(r, state, kind, code).state = state
      /\ EndedRow(r, state, kind, code).candidate = row[r].candidate
      /\ EndedRow(r, state, kind, code).result = row[r].result
  BY DEF EndedRow, TypeOK, RowsTypeOK, Row
<1>2. row'[r] = EndedRow(r, state, kind, code) /\ \A q \in Runs : q # r => row'[q] = row[q]
  BY DEF TypeOK, RowsTypeOK
<1> QED BY <1>1, <1>2 DEF RowsFollow, EndedStates

LEMMA RunRows ==
  ASSUME TypeOK, NEW r \in Runs, RunStep(r)
  PROVE  RowsFollow
<1>1. CASE Claim(r)
  <2>1. CASE row[r].state = "QUEUED" /\ row' = [row EXCEPT ![r].state = "RUNNING", ![r].owner = epoch]
    BY <2>1 DEF RowsFollow, TypeOK, RowsTypeOK, Row
  <2>2. CASE UNCHANGED row
    BY <2>2, RowsStay
  <2> QED BY <1>1, <2>1, <2>2 DEF Claim, Denied, Refused, rowVars
<1>2. CASE SettleResponse(r)
  <2>1. CASE EndRun(r, "SUCCEEDED", "RESPONSE_ONLY", "none")
    BY <2>1, EndFollows DEF EndRun, EndedStates
  <2>2. CASE UNCHANGED row
    BY <2>2, RowsStay
  <2> QED BY <1>2, <2>1, <2>2 DEF SettleResponse, Refused, rowVars
<1>3. CASE RecordCandidate(r)
  <2>1. CASE TakesPhase(r) /\ row' = [row EXCEPT ![r].candidate = TRUE]
    BY <1>3, <2>1 DEF TakesPhase, RowsFollow, TypeOK, RowsTypeOK, Row
  <2>2. CASE UNCHANGED row
    BY <2>2, RowsStay
  <2> QED BY <1>3, <2>1, <2>2 DEF RecordCandidate, Refused, rowVars
<1>4. CASE AdvanceSource(r)
  <2>1. CASE row[r].state = "RUNNING" /\ row' = [row EXCEPT ![r].result = TRUE]
    BY <1>4, <2>1 DEF AdvanceSource, RowsFollow, TypeOK, RowsTypeOK, Row
  <2>2. CASE UNCHANGED row
    BY <2>2, RowsStay
  <2> QED BY <1>4, <2>1, <2>2 DEF AdvanceSource, Refused, rowVars
<1>5. CASE SettleBuilt(r)
  <2>1. CASE EndRun(r, "SUCCEEDED", "SOURCE_CHANGED", "none")
    BY <2>1, EndFollows DEF EndRun, EndedStates
  <2>2. CASE UNCHANGED row
    BY <2>2, RowsStay
  <2> QED BY <1>5, <2>1, <2>2 DEF SettleBuilt, Refused, rowVars
<1>6. CASE SettleUnbuilt(r)
  <2>1. CASE EndRun(r, "FAILED", "SOURCE_CHANGED_BUILD_FAILED", "FAILURE")
    BY <2>1, EndFollows DEF EndRun, EndedStates
  <2>2. CASE UNCHANGED row
    BY <2>2, RowsStay
  <2> QED BY <1>6, <2>1, <2>2 DEF SettleUnbuilt, Refused, rowVars
<1>7. CASE WriteEnding(r)
  <2>1. final[r].how \in {"FAILED", "INTERRUPTED"}
    BY <1>7 DEF WriteEnding, TypeOK, LiveTypeOK, Outcome
  <2>2. CASE EndRun(r, final[r].how, "none", final[r].code)
    BY <2>1, <2>2, EndFollows DEF EndRun, EndedStates
  <2>3. CASE UNCHANGED row
    BY <2>3, RowsStay
  <2> QED BY <1>7, <2>2, <2>3 DEF WriteEnding, Refused, rowVars
<1>8. CASE \/ EnterPreparing(r) \/ EnterAgent(r) \/ EnterWaiting(r) \/ EnterFinalizing(r)
           \/ EnterAdmission(r) \/ Prepare(r) \/ TurnEnds(r) \/ TurnAsks(r) \/ AwaitReply(r)
           \/ Conclude(r) \/ CheckStop(r) \/ LetGo(r) \/ MoveMain(r) \/ MoveMainFails(r)
  BY <1>8, RowsStay DEF EnterPreparing, EnterAgent, EnterWaiting, EnterFinalizing, EnterAdmission,
     SetPhase, Prepare, TurnEnds, TurnAsks, AwaitReply, Conclude, CheckStop, LetGo, Works, MoveMain,
     MoveMainFails, rowVars
<1> QED BY <1>1, <1>2, <1>3, <1>4, <1>5, <1>6, <1>7, <1>8 DEF RunStep

LEMMA PassRows ==
  ASSUME TypeOK, NEW r \in Runs, PassStep(r)
  PROVE  RowsFollow
<1>1. CASE PassNext(r) \/ PassLooks(r)
  BY <1>1, RowsStay DEF PassNext, PassLooks, rowVars
<1>2. CASE PassCloses(r) \/ PassRefuses(r) \/ PassSettles(r)
  <2>1. \/ UNCHANGED row
        \/ \E kind, code : \E state \in EndedStates : row' = [row EXCEPT ![r] = EndedRow(r, state, kind, code)]
    <3>1. "FAILED" \in EndedStates /\ "INTERRUPTED" \in EndedStates
      BY DEF EndedStates
    <3> QED BY <1>2, <3>1 DEF PassCloses, PassRefuses, PassSettles, PassWrite, Refused, rowVars
  <2> QED BY <2>1, RowsStay, EndFollows
<1>3. CASE PassAdvances(r)
  <2>1. CASE row[r].state = "RUNNING" /\ row' = [row EXCEPT ![r] = [row[r] EXCEPT !.result = TRUE]]
    BY <1>3, <2>1 DEF PassAdvances, PassWrite, RowsFollow, TypeOK, RowsTypeOK, Row
  <2>2. CASE UNCHANGED row
    BY <2>2, RowsStay
  <2> QED BY <1>3, <2>1, <2>2 DEF PassAdvances, PassWrite, Refused, rowVars
<1> QED BY <1>1, <1>2, <1>3 DEF PassStep

LEMMA RowsStep ==
  ASSUME TypeOK, [Next]_vars
  PROVE  RowsFollow
<1>1. CASE \E r \in Runs : CreateRun(r)
  <2>1. PICK r \in Runs : CreateRun(r)
    BY <1>1
  <2> QED BY <2>1 DEF CreateRun, RowsFollow, NoRow, TypeOK, RowsTypeOK, Row
<1>2. CASE \E r \in Runs : RunStep(r)
  BY <1>2, RunRows
<1>3. CASE \E r \in Runs : RequestCancellation(r)
  <2>1. PICK r \in Runs : RequestCancellation(r)
    BY <1>3
  <2>2. CASE row[r].state = "QUEUED"
    BY <2>1, <2>2, EndFollows DEF RequestCancellation, EndedStates
  <2>3. CASE row[r].state # "QUEUED"
    BY <2>1, <2>3 DEF RequestCancellation, RowsFollow, TypeOK, RowsTypeOK, Row
  <2> QED BY <2>2, <2>3
<1>4. CASE \E S \in SUBSET Runs : TakeOver(S)
  BY <1>4 DEF TakeOver, MayBeStale, Open, OpenStates, RowsFollow, TypeOK, RowsTypeOK, Row
<1>5. CASE \E r \in Runs : PassStep(r)
  BY <1>5, PassRows
<1>6. CASE \E r \in Runs : ReplayRun(r) \/ StartRun(r) \/ SignalStop(r)
  BY <1>6, RowsStay DEF ReplayRun, StartRun, SignalStop, rowVars
<1>7. CASE \/ Boot \/ Crash \/ Close \/ StopRuns \/ HubExits \/ DatabaseFails \/ DatabaseReturns
           \/ (\E w \in Writers : WriterMovesMain(w)) \/ UNCHANGED vars
  BY <1>7, RowsStay DEF Boot, Crash, Close, StopRuns, HubExits, DatabaseFails, DatabaseReturns,
     WriterMovesMain, vars, rowVars
<1> QED BY <1>1, <1>2, <1>3, <1>4, <1>5, <1>6, <1>7 DEF Next

-----------------------------------------------------------------------------
(* What a step does to the places of the runs and of the pass *)

\* A run comes to its move with its candidate recorded, and to its advance with its change on `main`.
PlacesFollow ==
  \A q \in Runs :
    /\ pc'[q] = "recorded" =>
         pc[q] = "recorded" \/ (row'[q].candidate /\ RecordCandidate(q) /\ TakesPhase(q))
    /\ pc'[q] = "moving" => pc[q] \in {"recorded", "moving"}
    /\ pc'[q] = "advance" => pc[q] = "advance" \/ q \in main'[Project(q)]

LEMMA PlacesStay ==
  ASSUME UNCHANGED pc
  PROVE  PlacesFollow
  BY DEF PlacesFollow

LEMMA GoesElsewhere ==
  ASSUME TypeOK, NEW r \in Runs, NEW place, place \notin {"recorded", "moving", "advance"},
         pc' = [pc EXCEPT ![r] = place]
  PROVE  PlacesFollow
  BY DEF PlacesFollow, TypeOK, LiveTypeOK

LEMMA FailGoesElsewhere ==
  ASSUME TypeOK, NEW r \in Runs, NEW code, Fail(r, code)
  PROVE  PlacesFollow
<1>1. pc' = [pc EXCEPT ![r] = "leaving"] \/ pc' = [pc EXCEPT ![r] = "ending"]
  BY DEF Fail, Leave, Finish
<1> QED BY <1>1, GoesElsewhere

LEMMA RunPlaces ==
  ASSUME TypeOK, NEW r \in Runs, RunStep(r)
  PROVE  PlacesFollow
<1>1. CASE CheckStop(r)
  <2>1. CASE \E code : Fail(r, code)
    BY <2>1, FailGoesElsewhere
  <2>2. CASE pc[r] = "record" /\ Proceed(r, "recording")
    BY <2>2, GoesElsewhere DEF Proceed, GoTo
  <2>3. CASE pc[r] = "recorded" /\ Proceed(r, "moving")
    BY <2>3 DEF Proceed, GoTo, PlacesFollow, TypeOK, LiveTypeOK
  <2> QED BY <1>1, <2>1, <2>2, <2>3 DEF CheckStop, Works
<1>2. CASE RecordCandidate(r)
  <2>1. CASE \E code : Fail(r, code)
    BY <2>1, FailGoesElsewhere
  <2>2. CASE TakesPhase(r) /\ row' = [row EXCEPT ![r].candidate = TRUE] /\ GoTo(r, "recorded")
    BY <1>2, <2>2 DEF GoTo, PlacesFollow, TypeOK, LiveTypeOK, RowsTypeOK, Row
  <2> QED BY <1>2, <2>1, <2>2 DEF RecordCandidate
<1>3. CASE MoveMain(r)
  <2>1. CASE \E code : Fail(r, code)
    BY <2>1, FailGoesElsewhere
  <2>2. CASE /\ main' = [main EXCEPT ![Project(r)] = Candidate(r)]
             /\ Proceed(r, "advance")
    BY <2>2, ProjectType DEF Proceed, GoTo, Candidate, PlacesFollow, TypeOK, LiveTypeOK, MainTypeOK
  <2> QED BY <1>3, <2>1, <2>2 DEF MoveMain, Moved
<1>4. CASE \/ EnterPreparing(r) \/ EnterAgent(r) \/ EnterWaiting(r) \/ EnterFinalizing(r)
           \/ EnterAdmission(r)
  BY <1>4, FailGoesElsewhere, GoesElsewhere DEF EnterPreparing, EnterAgent, EnterWaiting,
     EnterFinalizing, EnterAdmission, SetPhase, GoTo
<1>5. CASE \/ Claim(r) \/ Prepare(r) \/ TurnEnds(r) \/ TurnAsks(r) \/ AwaitReply(r) \/ Conclude(r)
  BY <1>5, FailGoesElsewhere, GoesElsewhere DEF Claim, Prepare, TurnEnds, TurnAsks, AwaitReply,
     Conclude, Proceed, GoTo
<1>6. CASE SettleResponse(r) \/ MoveMainFails(r)
  BY <1>6, FailGoesElsewhere, GoesElsewhere DEF SettleResponse, MoveMainFails, Finish
<1>7. CASE AdvanceSource(r)
  BY <1>7, FailGoesElsewhere, GoesElsewhere DEF AdvanceSource, PreparePreview, Proceed, GoTo
<1>8. CASE SettleBuilt(r) \/ SettleUnbuilt(r) \/ LetGo(r)
  BY <1>8, GoesElsewhere DEF SettleBuilt, SettleUnbuilt, LetGo, Finish, Proceed, GoTo
<1>9. CASE WriteEnding(r)
  BY <1>9, GoesElsewhere, PlacesStay DEF WriteEnding, TryAgain, Finish
<1> QED BY <1>1, <1>2, <1>3, <1>4, <1>5, <1>6, <1>7, <1>8, <1>9 DEF RunStep

LEMMA PlacesStep ==
  ASSUME TypeOK, [Next]_vars
  PROVE  PlacesFollow
<1>1. CASE \E r \in Runs : RunStep(r)
  BY <1>1, RunPlaces
<1>2. CASE \E r \in Runs : StartRun(r)
  BY <1>2, PlacesStay, GoesElsewhere DEF StartRun, Proceed, GoTo, liveVars
<1>3. CASE Crash \/ HubExits
  BY <1>3 DEF Crash, HubExits, Forget, PlacesFollow
<1>4. CASE \E r \in Runs : PassStep(r)
  BY <1>4, PlacesStay DEF PassStep, PassNext, PassCloses, PassLooks, PassRefuses, PassAdvances,
     PassSettles, PassWrite, liveVars
<1>5. CASE \/ \E r \in Runs : CreateRun(r) \/ ReplayRun(r) \/ RequestCancellation(r) \/ SignalStop(r)
           \/ \E S \in SUBSET Runs : TakeOver(S)
           \/ \E w \in Writers : WriterMovesMain(w)
  BY <1>5, PlacesStay DEF CreateRun, ReplayRun, RequestCancellation, SignalStop, TakeOver,
     WriterMovesMain, liveVars
<1>6. CASE Boot \/ Close \/ StopRuns \/ DatabaseFails \/ DatabaseReturns \/ UNCHANGED vars
  BY <1>6, PlacesStay DEF Boot, Close, StopRuns, DatabaseFails, DatabaseReturns, vars, liveVars
<1> QED BY <1>1, <1>2, <1>3, <1>4, <1>5, <1>6 DEF Next

\* What the pass read of a result was in the row, and it comes to an advance by that or by a look.
PassFollows ==
  \A q \in Runs :
    /\ seen'[q].result => seen[q].result \/ row[q].result
    /\ settling' = q /\ step' = "advance" =>
         (settling = q /\ step = "advance") \/ seen[q].result \/ OnMain(q)

LEMMA PassStays ==
  ASSUME UNCHANGED <<seen, settling, step>>
  PROVE  PassFollows
  BY DEF PassFollows

LEMMA PassPlaces ==
  ASSUME TypeOK, NEW r \in Runs, PassStep(r)
  PROVE  PassFollows
<1>1. CASE PassNext(r)
  BY <1>1 DEF PassNext, FirstStep, NoSeen, PassFollows, TypeOK, PassTypeOK, Seen
<1>2. CASE PassLooks(r)
  BY <1>2, NamesAssumption DEF PassLooks, PassGoesOn, PassDone, PassFollows
<1>3. CASE PassCloses(r) \/ PassRefuses(r) \/ PassAdvances(r) \/ PassSettles(r)
  BY <1>3, NamesAssumption DEF PassCloses, PassRefuses, PassAdvances, PassSettles, PassWrite,
     PassGoesOn, PassDone, PassFollows
<1> QED BY <1>1, <1>2, <1>3 DEF PassStep

LEMMA PassPlacesStep ==
  ASSUME TypeOK, [Next]_vars
  PROVE  PassFollows
<1>1. CASE \E r \in Runs : PassStep(r)
  BY <1>1, PassPlaces
<1>2. CASE \E S \in SUBSET Runs : TakeOver(S)
  BY <1>2, PassStays DEF TakeOver, NoSeen, PassFollows
<1>3. CASE Crash \/ HubExits
  BY <1>3, NamesAssumption DEF Crash, HubExits, Forget, NoSeen, PassFollows
<1>4. CASE \E r \in Runs : RunStep(r)
  BY <1>4, PassStays DEF RunStep, Claim, EnterPreparing, Prepare, EnterAgent, TurnEnds, TurnAsks,
     EnterWaiting, AwaitReply, Conclude, EnterFinalizing, SettleResponse, EnterAdmission, CheckStop,
     RecordCandidate, MoveMain, MoveMainFails, AdvanceSource, SettleBuilt, SettleUnbuilt, WriteEnding,
     LetGo, SetPhase, Works, passVars
<1>5. CASE \/ \E r \in Runs : \/ CreateRun(r) \/ ReplayRun(r) \/ StartRun(r)
                              \/ RequestCancellation(r) \/ SignalStop(r)
           \/ \E w \in Writers : WriterMovesMain(w)
  BY <1>5, PassStays DEF CreateRun, ReplayRun, StartRun, RequestCancellation, SignalStop,
     WriterMovesMain, passVars
<1>6. CASE Boot \/ Close \/ StopRuns \/ DatabaseFails \/ DatabaseReturns \/ UNCHANGED vars
  BY <1>6, PassStays DEF Boot, Close, StopRuns, DatabaseFails, DatabaseReturns, vars, passVars
<1> QED BY <1>1, <1>2, <1>3, <1>4, <1>5, <1>6 DEF Next

-----------------------------------------------------------------------------
(* It holds, and what it gives: rows and `main` *)

LEMMA MainInvStep ==
  ASSUME TypeOK, MainInv, [Next]_vars
  PROVE  MainInv'
<1>1. MainFollows /\ RowsFollow /\ PlacesFollow /\ PassFollows
  BY MainStep, RowsStep, PlacesStep, PassPlacesStep
<1>2. ASSUME NEW q \in Runs, OnMain(q)
      PROVE  q \in main'[Project(q)]
  BY <1>1, <1>2, ProjectType DEF MainFollows, OnMain
<1>3. ASSUME NEW q \in Runs, row[q].candidate
      PROVE  row'[q].candidate
  BY <1>1, <1>3 DEF RowsFollow, MainInv, NoRowNoCandidate
<1>4. RowFollowsMain'
  <2> SUFFICES ASSUME NEW q \in Runs
               PROVE  /\ q \in main'[Project(q)] => row'[q].candidate
                      /\ row'[q].result => q \in main'[Project(q)]
    BY DEF RowFollowsMain, OnMain, Project
  <2>1. ASSUME q \in main'[Project(q)] PROVE row'[q].candidate
    BY <1>1, <1>3, <2>1 DEF MainFollows, MainInv, RowFollowsMain, MovesRecorded
  <2>2. ASSUME row'[q].result PROVE q \in main'[Project(q)]
    BY <1>1, <1>2, <2>2 DEF RowsFollow, MainInv, RowFollowsMain, AdvancesAdmitted
  <2> QED BY <2>1, <2>2
<1>5. MovesRecorded'
  BY <1>1, <1>3 DEF PlacesFollow, MainInv, MovesRecorded
<1>6. AdvancesAdmitted'
  <2> SUFFICES ASSUME NEW q \in Runs
               PROVE  /\ pc'[q] = "advance" => q \in main'[Project(q)]
                      /\ seen'[q].result => q \in main'[Project(q)]
                      /\ settling' = q /\ step' = "advance" => q \in main'[Project(q)]
    BY DEF AdvancesAdmitted, OnMain, Project
  <2> QED BY <1>1, <1>2 DEF PlacesFollow, PassFollows, MainInv, AdvancesAdmitted, RowFollowsMain
<1>7. NoRowNoCandidate'
  BY <1>1 DEF RowsFollow, MainInv, NoRowNoCandidate
<1> QED BY <1>4, <1>5, <1>6, <1>7 DEF MainInv

LEMMA MainInvHolds == Spec => []MainInv
<1>1. Init => MainInv
  BY ProjectType DEF Init, NoRow, NoSeen, MainInv, RowFollowsMain, MovesRecorded, AdvancesAdmitted,
     NoRowNoCandidate, OnMain
<1>2. TypeOK /\ MainInv /\ [Next]_vars => MainInv'
  BY MainInvStep
<1> QED BY <1>1, <1>2, TypeCorrect, PTL DEF Spec

\* A change on `main` has its candidate in the row, and a result in the row is on `main`: the run
\* records before it moves and advances after, and the pass advances only what it found on `main`.
THEOREM RowsFollowMain == Spec => []RowFollowsMain
<1>1. MainInv => RowFollowsMain
  BY DEF MainInv
<1> QED BY <1>1, MainInvHolds, PTL

\* A stop recorded before the candidate keeps the change off `main` for good: the candidate's
\* write needs no stop, and `main` moves only for a recorded candidate.
THEOREM StopIsRespected == Spec => StopPreventsAdmission
<1>1. TypeOK /\ MainInv /\ MainInv' /\ [Next]_vars =>
        [\A r \in Runs : row[r].cancel /\ ~row[r].candidate =>
           ~row'[r].candidate /\ r \notin main'[Project(r)]]_vars
  <2> SUFFICES ASSUME TypeOK, MainInv, MainInv', [Next]_vars,
                      NEW r \in Runs, row[r].cancel, ~row[r].candidate
               PROVE  ~row'[r].candidate /\ r \notin main'[Project(r)]
    OBVIOUS
  <2>1. ~row'[r].candidate
    BY RowsStep DEF RowsFollow, TakesPhase
  <2>2. r \in main'[Project(r)] => row'[r].candidate
    BY DEF MainInv, RowFollowsMain, OnMain, Project
  <2> QED BY <2>1, <2>2
<1> QED BY <1>1, TypeCorrect, MainInvHolds, PTL DEF Spec, StopPreventsAdmission

-----------------------------------------------------------------------------
(* Endings and `main`: the invariant *)

QueuedNoCandidate == \A r \in Runs : row[r].state = "QUEUED" => ~row[r].candidate

\* A run at its move works an open row that no pass has in hand.
MovesAlone ==
  \A r \in Runs : pc[r] \in {"recorded", "moving"} =>
    row[r].state = "RUNNING" /\ r \notin todo /\ settling # r

\* A run past its candidate's write knows it, and one past its claim knows that.
StageFollows ==
  \A r \in Runs :
    /\ pc[r] \in {"recorded", "moving"} \cup Settling => stage[r] = "CANDIDATE_RECORDED"
    /\ pc[r] \notin {"idle", "claim", "ending", "leaving"} => stage[r] # "UNCLAIMED"

\* A run whose change is on `main` settles it, or writes no ending over it.
LandedSettles == \A r \in Runs : OnMain(r) /\ stage[r] # "UNCLAIMED" => pc[r] \in Settling

\* What the pass decided of a run is still so when it writes it.
PassKnows ==
  \A r \in Runs :
    /\ r \in todo /\ ~seen[r].candidate => ~row[r].candidate
    /\ settling = r /\ step = "close" => ~row[r].candidate
    /\ settling = r /\ step = "refuse" => ~OnMain(r)

EndInv ==
  /\ EndingAgreesWithMain /\ QueuedNoCandidate /\ MovesAlone
  /\ StageFollows /\ LandedSettles /\ PassKnows

-----------------------------------------------------------------------------
(* A live run's stage *)

LEMMA MoveStages ==
  ASSUME TypeOK, StageFollows, LandedSettles, UNCHANGED main,
         NEW r \in Runs, NEW place \in Places, NEW next \in Stages,
         pc' = [pc EXCEPT ![r] = place], stage' = [stage EXCEPT ![r] = next],
         place \in {"recorded", "moving"} \cup Settling => next = "CANDIDATE_RECORDED",
         place \notin {"idle", "claim", "ending", "leaving"} => next # "UNCLAIMED",
         OnMain(r) /\ next # "UNCLAIMED" => place \in Settling
  PROVE  (StageFollows /\ LandedSettles)'
  BY DEF StageFollows, LandedSettles, OnMain, Project, TypeOK, LiveTypeOK

LEMMA ProceedStages ==
  ASSUME TypeOK, StageFollows, LandedSettles, UNCHANGED main, NEW r \in Runs,
         NEW place \in Places, Proceed(r, place),
         place \in {"recorded", "moving"} \cup Settling => stage[r] = "CANDIDATE_RECORDED",
         place \notin {"idle", "claim", "ending", "leaving"} => stage[r] # "UNCLAIMED",
         OnMain(r) /\ stage[r] # "UNCLAIMED" => place \in Settling
  PROVE  (StageFollows /\ LandedSettles)'
<1>1. stage' = [stage EXCEPT ![r] = stage[r]] /\ stage[r] \in Stages
  BY DEF Proceed, TypeOK, LiveTypeOK
<1> QED BY <1>1, MoveStages DEF Proceed, GoTo

LEMMA FinishStages ==
  ASSUME TypeOK, StageFollows, LandedSettles, UNCHANGED main, NEW r \in Runs, Finish(r)
  PROVE  (StageFollows /\ LandedSettles)'
  BY MoveStages DEF Finish, Places, Ending, Settling, Stages

\* A run that fails before its change is on `main` may write an ending.
LEMMA FailStages ==
  ASSUME TypeOK, StageFollows, LandedSettles, UNCHANGED main, NEW r \in Runs, NEW code,
         pc[r] \notin Settling, Fail(r, code)
  PROVE  (StageFollows /\ LandedSettles)'
<1>1. PICK outcome : Leave(r, outcome)
  BY DEF Fail
<1>2. CASE outcome = Settled
  BY <1>1, <1>2, FinishStages DEF Leave
<1>3. CASE outcome # Settled
  <2>1. pc' = [pc EXCEPT ![r] = "ending"] /\ stage' = [stage EXCEPT ![r] = stage[r]] /\ stage[r] \in Stages
    BY <1>1, <1>3 DEF Leave, TypeOK, LiveTypeOK
  <2> QED BY <2>1, MoveStages DEF LandedSettles, Places, Ending, Settling
<1> QED BY <1>2, <1>3

\* Once its candidate is recorded, a failure that does not say it was not admitted leaves the row.
LEMMA FailureFinishes ==
  ASSUME NEW r \in Runs, stage[r] = "CANDIDATE_RECORDED", Fail(r, "FAILURE")
  PROVE  Finish(r)
<1>1. PICK ended \in EndedBy(r, "FAILURE") : Leave(r, OutcomeOf(r, ended))
  BY DEF Fail
<1>2. ended = "FAILURE"
  BY DEF EndedBy
<1>3. OutcomeOf(r, ended) = Settled
  BY <1>2 DEF OutcomeOf, Left, NotAdmitted
<1> QED BY <1>1, <1>3 DEF Leave

LEMMA RunStages ==
  ASSUME TypeOK, MainInv, EndInv, NEW r \in Runs, RunStep(r)
  PROVE  (StageFollows /\ LandedSettles)'
<1> USE DEF EndInv
<1>1. CASE Claim(r)
  <2>1. UNCHANGED main /\ pc[r] \notin Settling
    BY <1>1 DEF Claim, Settling
  <2>2. CASE \E code : Fail(r, code)
    BY <2>1, <2>2, FailStages
  <2>3. CASE row[r].state = "QUEUED" /\ GoTo(r, "prepare") /\ stage' = [stage EXCEPT ![r] = "CLAIMED"]
    <3>1. ~OnMain(r)
      BY <2>3 DEF QueuedNoCandidate, MainInv, RowFollowsMain
    <3> QED BY <2>1, <2>3, <3>1, MoveStages DEF GoTo, Places, BeforeSession, Settling, Stages
  <2> QED BY <1>1, <2>2, <2>3 DEF Claim
<1>2. CASE \/ EnterPreparing(r) \/ EnterAgent(r) \/ EnterWaiting(r) \/ EnterFinalizing(r)
           \/ EnterAdmission(r)
  <2>1. UNCHANGED main /\ pc[r] \notin Settling /\ stage[r] # "UNCLAIMED" /\ ~OnMain(r)
    BY <1>2 DEF EnterPreparing, EnterAgent, EnterWaiting, EnterFinalizing, EnterAdmission, SetPhase,
       Settling, StageFollows, LandedSettles
  <2>2. CASE \E code : Fail(r, code)
    BY <2>1, <2>2, FailStages
  <2>3. CASE \E place \in {"preparing", "agent", "waiting", "settle", "record"}, next \in {"CLAIMED", stage[r]} :
               GoTo(r, place) /\ stage' = [stage EXCEPT ![r] = next]
    <3>1. {"CLAIMED", stage[r]} \subseteq Stages
      BY DEF Stages, TypeOK, LiveTypeOK
    <3>2. {"preparing", "agent", "waiting", "settle", "record"} \subseteq
            Places \ ({"recorded", "moving"} \cup Settling)
      BY DEF Places, BeforeSession, Turning, Admitting, Settling
    <3> QED BY <2>1, <2>3, <3>1, <3>2, MoveStages DEF GoTo
  <2> QED BY <1>2, <2>2, <2>3 DEF EnterPreparing, EnterAgent, EnterWaiting, EnterFinalizing,
             EnterAdmission, SetPhase
<1>3. CASE Prepare(r) \/ TurnEnds(r) \/ TurnAsks(r) \/ AwaitReply(r) \/ Conclude(r)
  <2>1. UNCHANGED main /\ pc[r] \notin Settling /\ stage[r] # "UNCLAIMED" /\ ~OnMain(r)
    BY <1>3 DEF Prepare, TurnEnds, TurnAsks, AwaitReply, Conclude, Works, Settling, StageFollows,
       LandedSettles
  <2>2. CASE \E code : Fail(r, code)
    BY <2>1, <2>2, FailStages
  <2>3. CASE \E place \in {"turn", "conclude", "ask", "finalize", "admit"} : Proceed(r, place)
    <3>1. {"turn", "conclude", "ask", "finalize", "admit"} \subseteq
            Places \ ({"recorded", "moving"} \cup Settling)
      BY DEF Places, Turning, Admitting, Settling
    <3> QED BY <2>1, <2>3, <3>1, ProceedStages
  <2> QED BY <1>3, <2>2, <2>3 DEF Prepare, TurnEnds, TurnAsks, AwaitReply, Conclude
<1>4. CASE SettleResponse(r)
  <2>1. UNCHANGED main /\ pc[r] \notin Settling
    BY <1>4 DEF SettleResponse, Settling
  <2> QED BY <1>4, <2>1, FailStages, FinishStages DEF SettleResponse
<1>5. CASE CheckStop(r)
  <2>1. UNCHANGED main /\ pc[r] \notin Settling /\ stage[r] # "UNCLAIMED" /\ ~OnMain(r)
    BY <1>5 DEF CheckStop, Works, Settling, StageFollows, LandedSettles
  <2>2. CASE \E code : Fail(r, code)
    BY <2>1, <2>2, FailStages
  <2>3. CASE Proceed(r, "recording")
    BY <2>1, <2>3, ProceedStages DEF Places, Admitting, Settling
  <2>4. CASE pc[r] = "recorded" /\ Proceed(r, "moving")
    BY <2>1, <2>4, ProceedStages DEF Places, Admitting, StageFollows
  <2> QED BY <1>5, <2>2, <2>3, <2>4 DEF CheckStop, Works
<1>6. CASE RecordCandidate(r)
  <2>1. UNCHANGED main /\ pc[r] \notin Settling /\ ~OnMain(r)
    BY <1>6 DEF RecordCandidate, Settling, StageFollows, LandedSettles
  <2>2. CASE \E code : Fail(r, code)
    BY <2>1, <2>2, FailStages
  <2>3. CASE GoTo(r, "recorded") /\ stage' = [stage EXCEPT ![r] = "CANDIDATE_RECORDED"]
    BY <2>1, <2>3, MoveStages DEF GoTo, Places, Admitting, Stages
  <2> QED BY <1>6, <2>2, <2>3 DEF RecordCandidate
<1>7. CASE AdvanceSource(r)
  <2>1. UNCHANGED main /\ stage[r] = "CANDIDATE_RECORDED"
    BY <1>7 DEF AdvanceSource, Settling, StageFollows
  <2>2. CASE Fail(r, "FAILURE")
    BY <2>1, <2>2, FailureFinishes, FinishStages
  <2>3. CASE Proceed(r, "built") \/ Proceed(r, "unbuilt")
    BY <2>1, <2>3, ProceedStages DEF Places, Settling
  <2> QED BY <1>7, <2>2, <2>3 DEF AdvanceSource, PreparePreview
<1>8. CASE SettleBuilt(r) \/ SettleUnbuilt(r)
  <2>1. UNCHANGED main /\ stage[r] = "CANDIDATE_RECORDED"
    BY <1>8 DEF SettleBuilt, SettleUnbuilt, Settling, StageFollows
  <2>2. CASE Finish(r)
    BY <2>1, <2>2, FinishStages
  <2>3. CASE Proceed(r, "unbuilt")
    BY <2>1, <2>3, ProceedStages DEF Places, Settling
  <2> QED BY <1>8, <2>2, <2>3 DEF SettleBuilt, SettleUnbuilt
<1>9. CASE WriteEnding(r)
  <2>1. UNCHANGED main
    BY <1>9 DEF WriteEnding
  <2>2. CASE UNCHANGED <<pc, stage>>
    BY <2>1, <2>2 DEF StageFollows, LandedSettles, OnMain, Project
  <2> QED BY <1>9, <2>1, <2>2, FinishStages DEF WriteEnding, TryAgain
<1>10. CASE LetGo(r)
  <2>1. UNCHANGED main /\ (OnMain(r) => stage[r] = "UNCLAIMED")
    BY <1>10 DEF LetGo, Works, LandedSettles, Settling
  <2> QED BY <1>10, <2>1, ProceedStages DEF LetGo, Places, Settling
<1>11. CASE MoveMain(r) \/ MoveMainFails(r)
  <2>1. stage[r] = "CANDIDATE_RECORDED" /\ pc[r] = "moving"
    BY <1>11 DEF MoveMain, MoveMainFails, StageFollows
  <2>2. CASE UNCHANGED main /\ \E code : Fail(r, code)
    BY <2>1, <2>2, FailStages DEF Settling
  <2>3. \A q \in Runs : q # r /\ q \in main'[Project(q)] /\ main' = [main EXCEPT ![Project(r)] = @ \cup {r}] => OnMain(q)
    BY ProjectType DEF OnMain, TypeOK, MainTypeOK
  <2>4. main[Project(r)] \in {row[r].base, Candidate(r)} =>
          [main EXCEPT ![Project(r)] = Candidate(r)] = [main EXCEPT ![Project(r)] = @ \cup {r}]
    BY DEF Candidate
  <2>5. CASE main' = [main EXCEPT ![Project(r)] = @ \cup {r}] /\ Proceed(r, "advance")
    BY <2>1, <2>3, <2>5 DEF Proceed, GoTo, StageFollows, LandedSettles, OnMain, Project, Settling,
       TypeOK, LiveTypeOK
  <2>6. CASE main' = [main EXCEPT ![Project(r)] = @ \cup {r}] /\ Fail(r, "FAILURE")
    <3>1. Finish(r)
      BY <2>1, <2>6, FailureFinishes
    <3> QED BY <2>1, <2>3, <2>6, <3>1 DEF Finish, StageFollows, LandedSettles, OnMain, Project, Settling,
       TypeOK, LiveTypeOK
  <2> QED BY <1>11, <2>2, <2>4, <2>5, <2>6 DEF MoveMain, MoveMainFails, Moved
<1> QED BY <1>1, <1>2, <1>3, <1>4, <1>5, <1>6, <1>7, <1>8, <1>9, <1>10, <1>11 DEF RunStep

LEMMA StagesStep ==
  ASSUME TypeOK, MainInv, EndInv, [Next]_vars
  PROVE  (StageFollows /\ LandedSettles)'
<1> USE DEF EndInv
<1>1. CASE \E r \in Runs : RunStep(r)
  BY <1>1, RunStages
<1>2. CASE \E r \in Runs : StartRun(r)
  <2>1. PICK r \in Runs : StartRun(r)
    BY <1>2
  <2>2. CASE UNCHANGED liveVars
    BY <2>1, <2>2 DEF StartRun, liveVars, StageFollows, LandedSettles, OnMain, Project
  <2>3. CASE ~ConversationBusy(r) /\ Proceed(r, "claim")
    <3>1. pc[r] = "idle" /\ UNCHANGED main
      BY <2>1, <2>3 DEF StartRun, ConversationBusy, Live
    <3> QED BY <2>3, <3>1, ProceedStages DEF LandedSettles, Places, BeforeSession, Settling
  <2> QED BY <2>1, <2>2, <2>3 DEF StartRun
<1>3. CASE Crash \/ HubExits
  BY <1>3 DEF Crash, HubExits, Forget, StageFollows, LandedSettles, Settling
<1>4. CASE \E w \in Writers : WriterMovesMain(w)
  <2>1. PICK w \in Writers, p \in Projects : main' = [main EXCEPT ![p] = @ \cup {w}] /\ UNCHANGED liveVars
    BY <1>4 DEF WriterMovesMain
  <2>2. w \notin Runs
    BY NamesAssumption
  <2>3. \A q \in Runs : OnMain(q)' => OnMain(q)
    BY <2>1, <2>2, ProjectType DEF OnMain, Project, TypeOK, MainTypeOK
  <2> QED BY <2>1, <2>3 DEF liveVars, StageFollows, LandedSettles
<1>5. CASE UNCHANGED <<main, pc, stage>>
  BY <1>5 DEF StageFollows, LandedSettles, OnMain, Project
<1>6. CASE \E r \in Runs : PassStep(r)
  BY <1>5, <1>6 DEF PassStep, PassNext, PassCloses, PassLooks, PassRefuses, PassAdvances,
     PassSettles, PassWrite, liveVars
<1>7. CASE \/ \E r \in Runs : CreateRun(r) \/ ReplayRun(r) \/ RequestCancellation(r) \/ SignalStop(r)
           \/ \E S \in SUBSET Runs : TakeOver(S)
  BY <1>5, <1>7 DEF CreateRun, ReplayRun, RequestCancellation, SignalStop, TakeOver, liveVars
<1>8. CASE Boot \/ Close \/ StopRuns \/ DatabaseFails \/ DatabaseReturns \/ UNCHANGED vars
  BY <1>5, <1>8 DEF Boot, Close, StopRuns, DatabaseFails, DatabaseReturns, vars, liveVars
<1> QED BY <1>1, <1>2, <1>3, <1>4, <1>6, <1>7, <1>8 DEF Next

-----------------------------------------------------------------------------
(* What a step ends *)

\* A run that ends says whether its change is on `main`, and it is not at its move.
RowsEnd ==
  \A q \in Runs :
    /\ row'[q].state = "QUEUED" =>
         ~row'[q].candidate \/ (row[q].state = "QUEUED" /\ row'[q].candidate = row[q].candidate)
    /\ row'[q].state \in EndedStates /\ ~Ended(q) =>
         UNCHANGED main /\ (row'[q].kind \in SourceKinds <=> OnMain(q))
    /\ row[q].state = "RUNNING" /\ row'[q].state # "RUNNING" => pc'[q] \notin {"recorded", "moving"}

LEMMA RowsDoNotEnd ==
  ASSUME UNCHANGED row
  PROVE  RowsEnd
  BY DEF RowsEnd, Ended

LEMMA EndsOne ==
  ASSUME TypeOK, UNCHANGED main, NEW r \in Runs, NEW state \in EndedStates, NEW kind, NEW code,
         row' = [row EXCEPT ![r] = EndedRow(r, state, kind, code)],
         kind \in SourceKinds <=> OnMain(r), pc'[r] \notin {"recorded", "moving"}
  PROVE  RowsEnd
<1>1. EndedRow(r, state, kind, code).state = state /\ EndedRow(r, state, kind, code).kind = kind
  BY DEF EndedRow, TypeOK, RowsTypeOK, Row
<1>2. row'[r] = EndedRow(r, state, kind, code) /\ \A q \in Runs : q # r => row'[q] = row[q]
  BY DEF TypeOK, RowsTypeOK
<1> QED BY <1>1, <1>2 DEF RowsEnd, EndedStates, Ended

LEMMA EndsUnlanded ==
  ASSUME TypeOK, UNCHANGED main, NEW r \in Runs, NEW state \in EndedStates,
         NEW kind \in {"none", "RESPONSE_ONLY"}, NEW code,
         row' = [row EXCEPT ![r] = EndedRow(r, state, kind, code)],
         ~OnMain(r), pc'[r] \notin {"recorded", "moving"}
  PROVE  RowsEnd
<1>1. kind \notin SourceKinds
  BY DEF SourceKinds
<1> QED BY <1>1, EndsOne

LEMMA FailPlace ==
  ASSUME TypeOK, NEW r \in Runs, NEW code, Fail(r, code)
  PROVE  pc'[r] \in {"ending", "leaving"}
  BY DEF Fail, Leave, Finish, TypeOK, LiveTypeOK

LEMMA FinishPlace ==
  ASSUME TypeOK, NEW r \in Runs, Finish(r)
  PROVE  pc'[r] = "leaving"
  BY DEF Finish, TypeOK, LiveTypeOK

LEMMA RunEnds ==
  ASSUME TypeOK, MainInv, EndInv, NEW r \in Runs, RunStep(r)
  PROVE  RowsEnd
<1>1. CASE Claim(r)
  <2>1. CASE row[r].state = "QUEUED" /\ row' = [row EXCEPT ![r].state = "RUNNING", ![r].owner = epoch]
    BY <2>1 DEF RowsEnd, Ended, EndedStates, TypeOK, RowsTypeOK, Row
  <2>2. CASE UNCHANGED row
    BY <2>2, RowsDoNotEnd
  <2> QED BY <1>1, <2>1, <2>2 DEF Claim, Denied, Refused, rowVars
<1>2. CASE SettleResponse(r)
  <2>1. CASE ~row[r].candidate /\ EndRun(r, "SUCCEEDED", "RESPONSE_ONLY", "none")
    <3>1. ~OnMain(r)
      BY <2>1 DEF MainInv, RowFollowsMain
    <3>2. UNCHANGED main /\ pc'[r] \in {"ending", "leaving"}
      BY <1>2, FailPlace, FinishPlace DEF SettleResponse
    <3> QED BY <2>1, <3>1, <3>2, EndsUnlanded DEF EndRun, EndedStates
  <2>2. CASE UNCHANGED row
    BY <2>2, RowsDoNotEnd
  <2> QED BY <1>2, <2>1, <2>2 DEF SettleResponse, Refused, rowVars
<1>3. CASE RecordCandidate(r)
  <2>1. CASE TakesPhase(r) /\ row' = [row EXCEPT ![r].candidate = TRUE]
    BY <2>1 DEF TakesPhase, RowsEnd, Ended, EndedStates, TypeOK, RowsTypeOK, Row
  <2>2. CASE UNCHANGED row
    BY <2>2, RowsDoNotEnd
  <2> QED BY <1>3, <2>1, <2>2 DEF RecordCandidate, Refused, rowVars
<1>4. CASE AdvanceSource(r)
  <2>1. CASE row[r].state = "RUNNING" /\ row' = [row EXCEPT ![r].result = TRUE]
    BY <2>1 DEF RowsEnd, Ended, EndedStates, TypeOK, RowsTypeOK, Row
  <2>2. CASE UNCHANGED row
    BY <2>2, RowsDoNotEnd
  <2> QED BY <1>4, <2>1, <2>2 DEF AdvanceSource, Refused, rowVars
<1>5. CASE SettleBuilt(r) \/ SettleUnbuilt(r)
  <2>1. UNCHANGED main /\ pc'[r] \in {"leaving", "unbuilt"}
    BY <1>5, FinishPlace DEF SettleBuilt, SettleUnbuilt, Proceed, GoTo, TypeOK, LiveTypeOK
  <2>2. CASE /\ CanSettleBuild(r)
             /\ \/ EndRun(r, "SUCCEEDED", "SOURCE_CHANGED", "none")
                \/ EndRun(r, "FAILED", "SOURCE_CHANGED_BUILD_FAILED", "FAILURE")
    <3>1. OnMain(r)
      BY <2>2 DEF CanSettleBuild, MainInv, RowFollowsMain
    <3> QED BY <2>1, <2>2, <3>1, EndsOne DEF EndRun, EndedStates, SourceKinds
  <2>3. CASE UNCHANGED row
    BY <2>3, RowsDoNotEnd
  <2> QED BY <1>5, <2>2, <2>3 DEF SettleBuilt, SettleUnbuilt, Refused, rowVars
<1>6. CASE WriteEnding(r)
  <2>1. UNCHANGED main /\ pc'[r] \in {"ending", "leaving"}
    BY <1>6, FinishPlace DEF WriteEnding, TryAgain
  <2>2. CASE /\ IF stage[r] = "UNCLAIMED" THEN EndsUnclaimed(r) ELSE Mine(r)
             /\ EndRun(r, final[r].how, "none", final[r].code)
    <3>1. final[r].how \in EndedStates
      BY <1>6 DEF WriteEnding, TypeOK, LiveTypeOK, Outcome, EndedStates
    <3>2. ~OnMain(r)
      BY <1>6, <2>2 DEF WriteEnding, EndsUnclaimed, EndInv, QueuedNoCandidate, LandedSettles,
         MainInv, RowFollowsMain, Settling
    <3> QED BY <2>1, <2>2, <3>1, <3>2, EndsUnlanded DEF EndRun
  <2>3. CASE UNCHANGED row
    BY <2>3, RowsDoNotEnd
  <2> QED BY <1>6, <2>2, <2>3 DEF WriteEnding, Refused, rowVars
<1>7. CASE \/ EnterPreparing(r) \/ EnterAgent(r) \/ EnterWaiting(r) \/ EnterFinalizing(r)
           \/ EnterAdmission(r) \/ Prepare(r) \/ TurnEnds(r) \/ TurnAsks(r) \/ AwaitReply(r)
           \/ Conclude(r) \/ CheckStop(r) \/ LetGo(r) \/ MoveMain(r) \/ MoveMainFails(r)
  BY <1>7, RowsDoNotEnd DEF EnterPreparing, EnterAgent, EnterWaiting, EnterFinalizing, EnterAdmission,
     SetPhase, Prepare, TurnEnds, TurnAsks, AwaitReply, Conclude, CheckStop, LetGo, Works, MoveMain,
     MoveMainFails, rowVars
<1> QED BY <1>1, <1>2, <1>3, <1>4, <1>5, <1>6, <1>7 DEF RunStep

LEMMA PassEnds ==
  ASSUME TypeOK, MainInv, EndInv, NEW r \in Runs, PassStep(r)
  PROVE  RowsEnd
<1>1. CASE PassNext(r) \/ PassLooks(r)
  BY <1>1, RowsDoNotEnd DEF PassNext, PassLooks, rowVars
<1>2. CASE PassAdvances(r)
  <2>1. CASE row[r].state = "RUNNING" /\ row' = [row EXCEPT ![r] = [row[r] EXCEPT !.result = TRUE]]
    BY <2>1 DEF RowsEnd, Ended, EndedStates, TypeOK, RowsTypeOK, Row
  <2>2. CASE UNCHANGED row
    BY <2>2, RowsDoNotEnd
  <2> QED BY <1>2, <2>1, <2>2 DEF PassAdvances, PassWrite, Refused, rowVars
<1>3. CASE PassCloses(r) \/ PassRefuses(r) \/ PassSettles(r)
  <2>1. UNCHANGED main /\ pc'[r] \notin {"recorded", "moving"}
    BY <1>3 DEF PassCloses, PassRefuses, PassSettles, PassWrite, liveVars, EndInv, MovesAlone
  <2>2. CASE PassCloses(r) \/ PassRefuses(r)
    <3>1. ~OnMain(r)
      BY <2>2 DEF PassCloses, PassRefuses, PassWrite, EndInv, PassKnows, MainInv, RowFollowsMain
    <3>2. \/ UNCHANGED row
          \/ \E code : \E state \in EndedStates : row' = [row EXCEPT ![r] = EndedRow(r, state, "none", code)]
      <4>1. "FAILED" \in EndedStates /\ "INTERRUPTED" \in EndedStates
        BY DEF EndedStates
      <4> QED BY <2>2, <4>1 DEF PassCloses, PassRefuses, PassWrite, Refused, rowVars
    <3> QED BY <2>1, <3>1, <3>2, RowsDoNotEnd, EndsUnlanded
  <2>3. CASE PassSettles(r)
    <3>1. CASE /\ CanSettleBuild(r)
               /\ row' = [row EXCEPT ![r] = EndedRow(r, "FAILED", "SOURCE_CHANGED_BUILD_FAILED", "BUILDER_PREVIEW_NOT_BUILT")]
      <4>1. OnMain(r)
        BY <3>1 DEF CanSettleBuild, MainInv, RowFollowsMain
      <4> QED BY <2>1, <3>1, <4>1, EndsOne DEF EndedStates, SourceKinds
    <3>2. CASE UNCHANGED row
      BY <3>2, RowsDoNotEnd
    <3> QED BY <2>3, <3>1, <3>2 DEF PassSettles, PassWrite, Refused, rowVars
  <2> QED BY <1>3, <2>2, <2>3
<1> QED BY <1>1, <1>2, <1>3 DEF PassStep

LEMMA EndsStep ==
  ASSUME TypeOK, MainInv, EndInv, [Next]_vars
  PROVE  RowsEnd
<1>1. CASE \E r \in Runs : CreateRun(r)
  <2>1. PICK r \in Runs : CreateRun(r)
    BY <1>1
  <2> QED BY <2>1 DEF CreateRun, RowsEnd, NoRow, Ended, EndedStates, TypeOK, RowsTypeOK, Row
<1>2. CASE \E r \in Runs : RunStep(r)
  BY <1>2, RunEnds
<1>3. CASE \E r \in Runs : RequestCancellation(r)
  <2>1. PICK r \in Runs : RequestCancellation(r)
    BY <1>3
  <2>2. CASE row[r].state = "QUEUED"
    <3>1. ~OnMain(r) /\ UNCHANGED main /\ pc'[r] \notin {"recorded", "moving"}
      BY <2>1, <2>2 DEF RequestCancellation, liveVars, EndInv, QueuedNoCandidate, MovesAlone, MainInv,
         RowFollowsMain
    <3>2. row' = [row EXCEPT ![r] = EndedRow(r, "INTERRUPTED", "none", "USER_CANCELLED")]
      BY <2>1, <2>2 DEF RequestCancellation
    <3> QED BY <3>1, <3>2, EndsUnlanded DEF EndedStates
  <2>3. CASE row[r].state # "QUEUED"
    BY <2>1, <2>3 DEF RequestCancellation, RowsEnd, Ended, EndedStates, TypeOK, RowsTypeOK, Row
  <2> QED BY <2>2, <2>3
<1>4. CASE \E S \in SUBSET Runs : TakeOver(S)
  BY <1>4 DEF TakeOver, RowsEnd, Ended, TypeOK, RowsTypeOK, Row
<1>5. CASE \E r \in Runs : PassStep(r)
  BY <1>5, PassEnds
<1>6. CASE \E r \in Runs : ReplayRun(r) \/ StartRun(r) \/ SignalStop(r)
  BY <1>6, RowsDoNotEnd DEF ReplayRun, StartRun, SignalStop, rowVars
<1>7. CASE \/ Boot \/ Crash \/ Close \/ StopRuns \/ HubExits \/ DatabaseFails \/ DatabaseReturns
           \/ (\E w \in Writers : WriterMovesMain(w)) \/ UNCHANGED vars
  BY <1>7, RowsDoNotEnd DEF Boot, Crash, Close, StopRuns, HubExits, DatabaseFails, DatabaseReturns,
     WriterMovesMain, vars, rowVars
<1> QED BY <1>1, <1>2, <1>3, <1>4, <1>5, <1>6, <1>7 DEF Next

-----------------------------------------------------------------------------
(* What the pass takes and what it decides *)

\* A run comes to its move from an open row that no pass has in hand, and so records its candidate.
CandidatesFollow ==
  \A q \in Runs :
    /\ pc'[q] \in {"recorded", "moving"} =>
         \/ pc[q] \in {"recorded", "moving"}
         \/ Live(q) /\ row[q].state = "RUNNING" /\ q \notin todo \cup {settling}
    /\ row'[q].candidate => row[q].candidate \/ q \notin todo \cup {settling}

\* This is where "pass" is assumed: without it a start's candidate may come between what a pass
\* decided and what it writes.
LEMMA CandidatesStep ==
  ASSUME TypeOK, "pass" \in Prompt, [Next]_vars
  PROVE  CandidatesFollow
<1>1. RowsFollow /\ PlacesFollow
  BY RowsStep, PlacesStep
<1>2. \A q \in Runs : RecordCandidate(q) => Live(q) /\ q \notin todo \cup {settling}
  BY DEF RecordCandidate, Live
<1> QED BY <1>1, <1>2 DEF CandidatesFollow, RowsFollow, PlacesFollow, TakesPhase

\* A pass takes stale runs, settles what it took, and decides by the row it read and by `main`.
PassDecides ==
  \A q \in Runs :
    /\ q \in todo' => q \in todo \/ MayBeStale(q)
    /\ settling' = q => settling = q \/ q \in todo
    /\ q \in todo' /\ ~seen'[q].candidate => (q \in todo /\ ~seen[q].candidate) \/ ~row'[q].candidate
    /\ settling' = q /\ step' = "close" =>
         (settling = q /\ step = "close") \/ (q \in todo /\ ~seen[q].candidate)
    /\ settling' = q /\ step' = "refuse" =>
         (settling = q /\ step = "refuse") \/ (UNCHANGED main /\ ~OnMain(q))

LEMMA PassKeeps ==
  ASSUME UNCHANGED <<todo, seen, settling, step>>
  PROVE  PassDecides
  BY DEF PassDecides

LEMMA PassDecisions ==
  ASSUME TypeOK, NEW r \in Runs, PassStep(r)
  PROVE  PassDecides
<1>1. CASE PassNext(r)
  BY <1>1 DEF PassNext, FirstStep, NoSeen, PassDecides, TypeOK, PassTypeOK, Seen
<1>2. CASE PassLooks(r)
  BY <1>2, NamesAssumption DEF PassLooks, PassGoesOn, PassDone, PassDecides
<1>3. CASE PassCloses(r) \/ PassRefuses(r) \/ PassAdvances(r) \/ PassSettles(r)
  BY <1>3, NamesAssumption DEF PassCloses, PassRefuses, PassAdvances, PassSettles, PassWrite,
     PassGoesOn, PassDone, PassDecides
<1> QED BY <1>1, <1>2, <1>3 DEF PassStep

LEMMA PassDecidesStep ==
  ASSUME TypeOK, [Next]_vars
  PROVE  PassDecides
<1>1. CASE \E r \in Runs : PassStep(r)
  BY <1>1, PassDecisions
<1>2. CASE \E S \in SUBSET Runs : TakeOver(S)
  <2>1. PICK S \in SUBSET Runs : TakeOver(S)
    BY <1>2
  <2>2. \A q \in Runs : row'[q].candidate = row[q].candidate
    BY <2>1 DEF TakeOver, TypeOK, RowsTypeOK, Row
  <2>3. UNCHANGED <<settling, step>> /\ \A q \in S : MayBeStale(q)
    BY <2>1 DEF TakeOver
  <2>4. CASE UNCHANGED <<todo, seen>>
    BY <2>3, <2>4, PassKeeps
  <2>5. CASE /\ todo' = S
             /\ \A q \in S : seen'[q].candidate = row[q].candidate
    BY <2>2, <2>3, <2>5 DEF PassDecides
  <2> QED BY <2>1, <2>4, <2>5 DEF TakeOver
<1>3. CASE Crash \/ HubExits
  BY <1>3, NamesAssumption DEF Crash, HubExits, Forget, PassDecides
<1>4. CASE \E r \in Runs : RunStep(r)
  BY <1>4, PassKeeps DEF RunStep, Claim, EnterPreparing, Prepare, EnterAgent, TurnEnds, TurnAsks,
     EnterWaiting, AwaitReply, Conclude, EnterFinalizing, SettleResponse, EnterAdmission, CheckStop,
     RecordCandidate, MoveMain, MoveMainFails, AdvanceSource, SettleBuilt, SettleUnbuilt, WriteEnding,
     LetGo, SetPhase, Works, passVars
<1>5. CASE \/ \E r \in Runs : \/ CreateRun(r) \/ ReplayRun(r) \/ StartRun(r)
                              \/ RequestCancellation(r) \/ SignalStop(r)
           \/ \E w \in Writers : WriterMovesMain(w)
  BY <1>5, PassKeeps DEF CreateRun, ReplayRun, StartRun, RequestCancellation, SignalStop,
     WriterMovesMain, passVars
<1>6. CASE Boot \/ Close \/ StopRuns \/ DatabaseFails \/ DatabaseReturns \/ UNCHANGED vars
  BY <1>6, PassKeeps DEF Boot, Close, StopRuns, DatabaseFails, DatabaseReturns, vars, passVars
<1> QED BY <1>1, <1>2, <1>3, <1>4, <1>5, <1>6 DEF Next

-----------------------------------------------------------------------------
(* It holds, and what it gives: endings *)

LEMMA EndInvStep ==
  ASSUME TypeOK, MainInv, EndInv, "pass" \in Prompt, [Next]_vars
  PROVE  EndInv'
<1>1. MainFollows /\ RowsEnd /\ CandidatesFollow /\ PassDecides
  BY MainStep, EndsStep, CandidatesStep, PassDecidesStep
<1>2. QueuedNoCandidate'
  BY <1>1 DEF RowsEnd, EndInv, QueuedNoCandidate
<1>3. MovesAlone'
  <2> SUFFICES ASSUME NEW q \in Runs, pc'[q] \in {"recorded", "moving"}
               PROVE  row'[q].state = "RUNNING" /\ q \notin todo' /\ settling' # q
    BY DEF MovesAlone
  <2>1. Live(q) /\ row[q].state = "RUNNING" /\ q \notin todo /\ settling # q
    BY <1>1 DEF CandidatesFollow, EndInv, MovesAlone, Live
  <2>2. ~MayBeStale(q)
    BY <2>1 DEF MayBeStale
  <2> QED BY <1>1, <2>1, <2>2 DEF RowsEnd, PassDecides
<1>4. PassKnows'
  <2> SUFFICES ASSUME NEW q \in Runs
               PROVE  /\ q \in todo' /\ ~seen'[q].candidate => ~row'[q].candidate
                      /\ settling' = q /\ step' = "close" => ~row'[q].candidate
                      /\ settling' = q /\ step' = "refuse" => q \notin main'[Project(q)]
    BY DEF PassKnows, OnMain, Project
  <2>1. q \in todo' /\ ~seen'[q].candidate => ~row'[q].candidate
    BY <1>1 DEF PassDecides, CandidatesFollow, EndInv, PassKnows
  <2>2. settling' = q /\ step' = "close" => ~row'[q].candidate
    BY <1>1 DEF PassDecides, CandidatesFollow, EndInv, PassKnows
  <2>3. settling' = q /\ step' = "refuse" => q \notin main'[Project(q)]
    BY <1>1 DEF PassDecides, MainFollows, OnMain, EndInv, PassKnows, MovesAlone
  <2> QED BY <2>1, <2>2, <2>3
<1>5. EndingAgreesWithMain'
  <2> SUFFICES ASSUME NEW q \in Runs, row'[q].state \in EndedStates
               PROVE  row'[q].kind \in SourceKinds <=> q \in main'[Project(q)]
    BY DEF EndingAgreesWithMain, Ended, OnMain, Project
  <2>1. CASE Ended(q)
    <3>1. row'[q] = row[q]
      BY <2>1, EndedRowStays
    <3>2. q \in main'[Project(q)] <=> OnMain(q)
      <4>1. pc[q] # "moving"
        BY <2>1 DEF Ended, EndedStates, EndInv, MovesAlone
      <4> QED BY <1>1, <4>1, ProjectType DEF MainFollows, OnMain
    <3> QED BY <2>1, <3>1, <3>2 DEF EndInv, EndingAgreesWithMain
  <2>2. CASE ~Ended(q)
    BY <1>1, <2>2 DEF RowsEnd, OnMain
  <2> QED BY <2>1, <2>2
<1>6. (StageFollows /\ LandedSettles)'
  BY StagesStep
<1> QED BY <1>2, <1>3, <1>4, <1>5, <1>6 DEF EndInv

LEMMA EndInvHolds ==
  ASSUME "pass" \in Prompt
  PROVE  Spec => []EndInv
<1>1. Init => EndInv
  BY NamesAssumption, ProjectType DEF Init, NoRow, NoSeen, EndInv, EndingAgreesWithMain, Ended,
     EndedStates, QueuedNoCandidate, MovesAlone, StageFollows, LandedSettles, OnMain, PassKnows, Settling
<1>2. TypeOK /\ MainInv /\ EndInv /\ [Next]_vars => EndInv'
  BY EndInvStep
<1> QED BY <1>1, <1>2, TypeCorrect, MainInvHolds, PTL DEF Spec

\* What the person reads is what happened: a run says its source changed exactly when its change
\* is on `main`, whoever writes the ending. It holds while a pass writes what it decided of a run
\* before a start of that run comes to its candidate.
THEOREM EndingsAgree ==
  ASSUME "pass" \in Prompt
  PROVE  Spec => []EndingAgreesWithMain
<1>1. EndInv => EndingAgreesWithMain
  BY DEF EndInv
<1> QED BY <1>1, EndInvHolds, PTL

-----------------------------------------------------------------------------
(* A stop is somebody's *)

\* Whether somebody asked to stop a run that is still open.
Called(r) == Ended(r) \/ (Open(r) /\ row[r].cancel)

\* A run that is live or about to start has a row, a key that made no run is not stopped, an open
\* row says nothing of a stop yet, and who carries a stop (a signal, an aborted run, an ending to
\* write) carries one somebody asked for.
NameInv ==
  /\ \A r \in Runs : row[r].state = "NONE" => ~row[r].cancel
  /\ \A r \in Runs : Live(r) \/ r \in pending => row[r].state # "NONE"
  /\ \A r \in Runs : Open(r) => row[r].code # "USER_CANCELLED"
  /\ \A r \in Runs : r \in signals \/ stop[r] = "USER_CANCELLED" \/ final[r].code = "USER_CANCELLED" => Called(r)

\* What a step does to the rows' stops: none is taken back, and a row says it was stopped by the
\* ending its run had to write, or in the request itself.
RowsName ==
  \A q \in Runs :
    /\ Open(q) /\ row[q].cancel => row'[q].cancel
    /\ row[q].state # "NONE" => row'[q].state # "NONE"
    /\ row'[q].code = "USER_CANCELLED" =>
         row[q].code = "USER_CANCELLED" \/ final[q].code = "USER_CANCELLED" \/ RequestCancellation(q)
    /\ Open(q)' => row'[q].code = "none" \/ (Open(q) /\ row'[q].code = row[q].code)

LEMMA NamesStay ==
  ASSUME UNCHANGED row
  PROVE  RowsName
  BY DEF RowsName, Open

\* A write over one open row that keeps its stop and is no ending in somebody's name.
LEMMA NamesOne ==
  ASSUME TypeOK, NEW r \in Runs, Open(r), NEW changed, row' = [row EXCEPT ![r] = changed],
         changed.state # "NONE", row[r].cancel => changed.cancel,
         \/ changed.code = row[r].code
         \/ /\ changed.state \in EndedStates
            /\ \/ changed.code # "USER_CANCELLED" \/ final[r].code = "USER_CANCELLED"
               \/ RequestCancellation(r)
  PROVE  RowsName
<1>1. row'[r] = changed /\ \A q \in Runs : q # r => row'[q] = row[q]
  BY DEF TypeOK, RowsTypeOK
<1> QED BY <1>1 DEF RowsName, Open, OpenStates, EndedStates

LEMMA NamesEnd ==
  ASSUME TypeOK, NEW r \in Runs, Open(r), NEW state \in EndedStates, NEW kind, NEW code,
         row' = [row EXCEPT ![r] = EndedRow(r, state, kind, code)],
         code # "USER_CANCELLED" \/ final[r].code = "USER_CANCELLED" \/ RequestCancellation(r)
  PROVE  RowsName
<1>1. /\ EndedRow(r, state, kind, code).state = state
      /\ EndedRow(r, state, kind, code).code = code
      /\ row[r].cancel => EndedRow(r, state, kind, code).cancel
  BY DEF EndedRow, TypeOK, RowsTypeOK, Row
<1> QED BY <1>1, NamesOne DEF EndedStates

LEMMA RunNames ==
  ASSUME TypeOK, NEW r \in Runs, RunStep(r)
  PROVE  RowsName
<1>1. CASE Claim(r)
  <2>1. CASE row[r].state = "QUEUED" /\ row' = [row EXCEPT ![r].state = "RUNNING", ![r].owner = epoch]
    BY <2>1 DEF RowsName, Open, OpenStates, TypeOK, RowsTypeOK, Row
  <2>2. CASE UNCHANGED row
    BY <2>2, NamesStay
  <2> QED BY <1>1, <2>1, <2>2 DEF Claim, Denied, Refused, rowVars
<1>2. CASE SettleResponse(r)
  <2>1. CASE Open(r) /\ EndRun(r, "SUCCEEDED", "RESPONSE_ONLY", "none")
    BY <2>1, NamesEnd DEF EndRun, EndedStates
  <2>2. CASE UNCHANGED row
    BY <2>2, NamesStay
  <2> QED BY <1>2, <2>1, <2>2 DEF SettleResponse, Mine, Refused, rowVars
<1>3. CASE RecordCandidate(r)
  <2>1. CASE Open(r) /\ row' = [row EXCEPT ![r].candidate = TRUE]
    BY <2>1 DEF RowsName, Open, OpenStates, TypeOK, RowsTypeOK, Row
  <2>2. CASE UNCHANGED row
    BY <2>2, NamesStay
  <2> QED BY <1>3, <2>1, <2>2 DEF RecordCandidate, TakesPhase, Mine, Refused, rowVars
<1>4. CASE AdvanceSource(r)
  <2>1. CASE Open(r) /\ row' = [row EXCEPT ![r].result = TRUE]
    BY <2>1 DEF RowsName, Open, OpenStates, TypeOK, RowsTypeOK, Row
  <2>2. CASE UNCHANGED row
    BY <2>2, NamesStay
  <2> QED BY <1>4, <2>1, <2>2 DEF AdvanceSource, Mine, Refused, rowVars
<1>5. CASE SettleBuilt(r) \/ SettleUnbuilt(r)
  <2>1. CASE /\ Open(r)
             /\ \/ EndRun(r, "SUCCEEDED", "SOURCE_CHANGED", "none")
                \/ EndRun(r, "FAILED", "SOURCE_CHANGED_BUILD_FAILED", "FAILURE")
    BY <2>1, NamesEnd DEF EndRun, EndedStates
  <2>2. CASE UNCHANGED row
    BY <2>2, NamesStay
  <2> QED BY <1>5, <2>1, <2>2 DEF SettleBuilt, SettleUnbuilt, CanSettleBuild, Mine, Refused, rowVars
<1>6. CASE WriteEnding(r)
  <2>1. final[r].how \in EndedStates
    BY <1>6 DEF WriteEnding, TypeOK, LiveTypeOK, Outcome, EndedStates
  <2>2. CASE Open(r) /\ EndRun(r, final[r].how, "none", final[r].code)
    BY <2>1, <2>2, NamesEnd DEF EndRun
  <2>3. CASE UNCHANGED row
    BY <2>3, NamesStay
  <2> QED BY <1>6, <2>2, <2>3 DEF WriteEnding, EndsUnclaimed, Mine, Open, OpenStates, Refused, rowVars
<1>7. CASE \/ EnterPreparing(r) \/ EnterAgent(r) \/ EnterWaiting(r) \/ EnterFinalizing(r)
           \/ EnterAdmission(r) \/ Prepare(r) \/ TurnEnds(r) \/ TurnAsks(r) \/ AwaitReply(r)
           \/ Conclude(r) \/ CheckStop(r) \/ LetGo(r) \/ MoveMain(r) \/ MoveMainFails(r)
  BY <1>7, NamesStay DEF EnterPreparing, EnterAgent, EnterWaiting, EnterFinalizing, EnterAdmission,
     SetPhase, Prepare, TurnEnds, TurnAsks, AwaitReply, Conclude, CheckStop, LetGo, Works, MoveMain,
     MoveMainFails, rowVars
<1> QED BY <1>1, <1>2, <1>3, <1>4, <1>5, <1>6, <1>7 DEF RunStep

LEMMA PassNames ==
  ASSUME TypeOK, NEW r \in Runs, PassStep(r)
  PROVE  RowsName
<1>1. CASE PassNext(r) \/ PassLooks(r)
  BY <1>1, NamesStay DEF PassNext, PassLooks, rowVars
<1>2. CASE PassCloses(r) \/ PassRefuses(r) \/ PassSettles(r)
  <2>1. \/ UNCHANGED row
        \/ /\ Open(r)
           /\ \E kind, code : \E state \in EndedStates :
                code # "USER_CANCELLED" /\ row' = [row EXCEPT ![r] = EndedRow(r, state, kind, code)]
    <3>1. "FAILED" \in EndedStates /\ "INTERRUPTED" \in EndedStates
      BY DEF EndedStates
    <3> QED BY <1>2, <3>1 DEF PassCloses, PassRefuses, PassSettles, PassWrite, CanSettleBuild, Mine,
               Refused, rowVars
  <2> QED BY <2>1, NamesStay, NamesEnd
<1>3. CASE PassAdvances(r)
  <2>1. CASE Open(r) /\ row' = [row EXCEPT ![r] = [row[r] EXCEPT !.result = TRUE]]
    BY <2>1 DEF RowsName, Open, OpenStates, TypeOK, RowsTypeOK, Row
  <2>2. CASE UNCHANGED row
    BY <2>2, NamesStay
  <2> QED BY <1>3, <2>1, <2>2 DEF PassAdvances, PassWrite, Mine, Refused, rowVars
<1> QED BY <1>1, <1>2, <1>3 DEF PassStep

LEMMA NamesStep ==
  ASSUME TypeOK, [Next]_vars
  PROVE  RowsName
<1>1. CASE \E r \in Runs : CreateRun(r)
  <2>1. PICK r \in Runs : CreateRun(r)
    BY <1>1
  <2> QED BY <2>1 DEF CreateRun, RowsName, NoRow, Open, OpenStates, TypeOK, RowsTypeOK, Row
<1>2. CASE \E r \in Runs : RunStep(r)
  BY <1>2, RunNames
<1>3. CASE \E r \in Runs : RequestCancellation(r)
  <2>1. PICK r \in Runs : RequestCancellation(r)
    BY <1>3
  <2>2. CASE row[r].state = "QUEUED"
    <3>1. row' = [row EXCEPT ![r] = EndedRow(r, "INTERRUPTED", "none", "USER_CANCELLED")] /\ Open(r)
      BY <2>1, <2>2 DEF RequestCancellation, Open, OpenStates
    <3> QED BY <2>1, <3>1, NamesEnd DEF EndedStates
  <2>3. CASE row[r].state # "QUEUED"
    BY <2>1, <2>3 DEF RequestCancellation, RowsName, Open, TypeOK, RowsTypeOK, Row
  <2> QED BY <2>2, <2>3
<1>4. CASE \E S \in SUBSET Runs : TakeOver(S)
  BY <1>4 DEF TakeOver, RowsName, Open, TypeOK, RowsTypeOK, Row
<1>5. CASE \E r \in Runs : PassStep(r)
  BY <1>5, PassNames
<1>6. CASE \E r \in Runs : ReplayRun(r) \/ StartRun(r) \/ SignalStop(r)
  BY <1>6, NamesStay DEF ReplayRun, StartRun, SignalStop, rowVars
<1>7. CASE \/ Boot \/ Crash \/ Close \/ StopRuns \/ HubExits \/ DatabaseFails \/ DatabaseReturns
           \/ (\E w \in Writers : WriterMovesMain(w)) \/ UNCHANGED vars
  BY <1>7, NamesStay DEF Boot, Crash, Close, StopRuns, HubExits, DatabaseFails, DatabaseReturns,
     WriterMovesMain, vars, rowVars
<1> QED BY <1>1, <1>2, <1>3, <1>4, <1>5, <1>6, <1>7 DEF Next

\* What a step does to the stops that are carried: a signal is a request's, an abort a signal's, and
\* an ending says it was stopped by an abort or by the row.
LiveNames ==
  \A q \in Runs :
    /\ Live(q)' => Live(q) \/ q \in pending
    /\ q \in pending' => q \in pending \/ row'[q].state # "NONE"
    /\ q \in signals' => q \in signals \/ RequestCancellation(q)
    /\ stop'[q] = "USER_CANCELLED" => stop[q] = "USER_CANCELLED" \/ q \in signals
    /\ final'[q].code = "USER_CANCELLED" =>
         final[q].code = "USER_CANCELLED" \/ stop[q] = "USER_CANCELLED" \/ Called(q)

\* A run's own step carries what it had; the ending it decides says it was stopped only if it was.
RunCarries(r) ==
  /\ \A q \in Runs : Live(q)' => Live(q) \/ (q = r /\ r \in pending)
  /\ stop' = stop \/ stop' = [stop EXCEPT ![r] = "none"]
  /\ \A q \in Runs : final'[q].code = "USER_CANCELLED" =>
       final[q].code = "USER_CANCELLED" \/ (q = r /\ (stop[r] = "USER_CANCELLED" \/ Called(r)))

LEMMA FinishCarries ==
  ASSUME TypeOK, NEW r \in Runs, Live(r), Finish(r)
  PROVE  RunCarries(r)
  BY DEF Finish, Settled, RunCarries, Live, TypeOK, LiveTypeOK

LEMMA ProceedCarries ==
  ASSUME TypeOK, NEW r \in Runs, Live(r), NEW place, GoTo(r, place)
  PROVE  RunCarries(r)
  BY DEF GoTo, RunCarries, Live, TypeOK, LiveTypeOK

LEMMA FailCarries ==
  ASSUME TypeOK, NEW r \in Runs, Live(r), NEW code \in Codes \ {"USER_CANCELLED"},
         code \in StopCodes => Stopped(r) \/ Called(r), Fail(r, code)
  PROVE  RunCarries(r)
<1>1. PICK ended \in EndedBy(r, code) : Leave(r, OutcomeOf(r, ended))
  BY DEF Fail
<1>2. CASE OutcomeOf(r, ended) = Settled
  BY <1>1, <1>2, FinishCarries DEF Leave
<1>3. CASE OutcomeOf(r, ended) # Settled
  <2>1. ended \in {code, "FAILURE"} /\ ended # "USER_CANCELLED"
    BY <1>1 DEF EndedBy
  <2>2. OutcomeOf(r, ended).code = "USER_CANCELLED" => stop[r] = "USER_CANCELLED" \/ Called(r)
    BY <1>3, <2>1 DEF OutcomeOf, Interruption, Stopped, StopCodes, TypeOK, LiveTypeOK
  <2>3. PICK end \in EndQuestions(r, OutcomeOf(r, ended)) : final' = [final EXCEPT ![r] = end]
    BY <1>1, <1>3 DEF Leave
  <2>4. end.code = "USER_CANCELLED" => stop[r] = "USER_CANCELLED" \/ Called(r)
    BY <2>2 DEF EndQuestions
  <2>5. pc' = [pc EXCEPT ![r] = "ending"] /\ stop' = [stop EXCEPT ![r] = "none"]
    BY <1>1, <1>3 DEF Leave
  <2> QED BY <2>3, <2>4, <2>5 DEF RunCarries, Live, TypeOK, LiveTypeOK
<1> QED BY <1>2, <1>3

LEMMA RunStepCarries ==
  ASSUME TypeOK, NEW r \in Runs, RunStep(r)
  PROVE  RunCarries(r) /\ UNCHANGED askVars
<1>1. UNCHANGED askVars
  BY DEF RunStep, Claim, EnterPreparing, Prepare, EnterAgent, TurnEnds, TurnAsks,
     EnterWaiting, AwaitReply, Conclude, EnterFinalizing, SettleResponse, EnterAdmission, CheckStop,
     RecordCandidate, MoveMain, MoveMainFails, AdvanceSource, SettleBuilt, SettleUnbuilt, WriteEnding,
     LetGo, SetPhase, Works
<1>2. Live(r)
  BY DEF RunStep, Claim, EnterPreparing, Prepare, EnterAgent, TurnEnds, TurnAsks,
     EnterWaiting, AwaitReply, Conclude, EnterFinalizing, SettleResponse, EnterAdmission, CheckStop,
     RecordCandidate, MoveMain, MoveMainFails, AdvanceSource, SettleBuilt, SettleUnbuilt, WriteEnding,
     LetGo, SetPhase, Works, Live
<1>3. ASSUME NEW code \in {"FAILURE", "ROW_ENDED", "BUILDER_QUESTION_EXPIRED", "BUILDER_SOURCE_BASE_MOVED"}, Fail(r, code)
      PROVE  RunCarries(r)
  <2>1. code \in Codes \ {"USER_CANCELLED"} /\ code \notin StopCodes
    BY <1>3 DEF Codes, InterruptionCodes, NotAdmitted, StopCodes
  <2> QED BY <1>2, <1>3, <2>1, FailCarries
<1>4. ASSUME NEW code \in {"BUILDER_RUN_CANCELLED", "BUILDER_LATE_RESULT_REFUSED"}, Fail(r, code), Stopped(r) \/ Called(r)
      PROVE  RunCarries(r)
  <2>1. code \in Codes \ {"USER_CANCELLED"}
    BY <1>4 DEF Codes, StopCodes
  <2> QED BY <1>2, <1>4, <2>1, FailCarries
<1>5. CASE \/ EnterPreparing(r) \/ EnterAgent(r) \/ EnterWaiting(r) \/ EnterFinalizing(r)
           \/ EnterAdmission(r)
  <2>1. CASE Fail(r, PhaseRefusal(r))
    <3>1. \/ PhaseRefusal(r) \in {"ROW_ENDED", "FAILURE"}
          \/ PhaseRefusal(r) = "BUILDER_RUN_CANCELLED" /\ Called(r)
      BY DEF PhaseRefusal, Called, Open, OpenStates
    <3> QED BY <1>1, <1>3, <1>4, <2>1, <3>1
  <2>2. CASE Fail(r, "FAILURE")
    BY <1>1, <1>3, <2>2
  <2>3. CASE \E place : GoTo(r, place)
    BY <1>1, <1>2, <2>3, ProceedCarries
  <2> QED BY <1>5, <2>1, <2>2, <2>3 DEF EnterPreparing, EnterAgent, EnterWaiting, EnterFinalizing,
             EnterAdmission, SetPhase
<1>6. CASE Prepare(r) \/ TurnEnds(r) \/ TurnAsks(r) \/ AwaitReply(r) \/ Conclude(r) \/ CheckStop(r) \/ LetGo(r)
  BY <1>1, <1>2, <1>3, <1>4, <1>6, ProceedCarries DEF Prepare, TurnEnds, TurnAsks, AwaitReply, Conclude, CheckStop,
     LetGo, Proceed
<1>7. CASE Claim(r) \/ RecordCandidate(r) \/ MoveMain(r) \/ MoveMainFails(r) \/ AdvanceSource(r)
  BY <1>2, <1>3, <1>7, ProceedCarries DEF Claim, RecordCandidate, MoveMain, MoveMainFails, AdvanceSource, Proceed
<1>8. CASE SettleResponse(r) \/ SettleBuilt(r) \/ SettleUnbuilt(r)
  BY <1>2, <1>3, <1>8, ProceedCarries, FinishCarries DEF SettleResponse, SettleBuilt, SettleUnbuilt, Proceed
<1>9. CASE WriteEnding(r)
  <2>1. CASE UNCHANGED <<pc, stop, final>>
    BY <1>1, <2>1 DEF RunCarries, Live
  <2> QED BY <1>2, <1>9, <2>1, FinishCarries DEF WriteEnding, TryAgain
<1> QED BY <1>1, <1>5, <1>6, <1>7, <1>8, <1>9 DEF RunStep

LEMMA LiveNamesStep ==
  ASSUME TypeOK, [Next]_vars
  PROVE  LiveNames
<1>1. CASE \E r \in Runs : RunStep(r)
  <2>1. PICK r \in Runs : RunStep(r)
    BY <1>1
  <2>2. RunCarries(r) /\ UNCHANGED <<pending, signals>>
    BY <2>1, RunStepCarries DEF askVars
  <2>3. \A q \in Runs : stop'[q] = "USER_CANCELLED" => stop[q] = "USER_CANCELLED"
    BY <2>2 DEF RunCarries, TypeOK, LiveTypeOK
  <2> QED BY <2>2, <2>3 DEF RunCarries, LiveNames
<1>2. CASE \E r \in Runs : StartRun(r)
  BY <1>2 DEF StartRun, Proceed, GoTo, liveVars, LiveNames, Live, TypeOK, LiveTypeOK, AskTypeOK
<1>3. CASE \E r \in Runs : SignalStop(r)
  BY <1>3 DEF SignalStop, LiveNames, Live, TypeOK, LiveTypeOK
<1>4. CASE \E r \in Runs : CreateRun(r) \/ ReplayRun(r)
  <2>1. PICK r \in Runs : CreateRun(r) \/ ReplayRun(r)
    BY <1>4
  <2>2. row'[r].state # "NONE" /\ pending' \subseteq pending \cup {r}
    BY <2>1 DEF CreateRun, ReplayRun, NoRow, rowVars, TypeOK, RowsTypeOK
  <2> QED BY <2>1, <2>2 DEF CreateRun, ReplayRun, liveVars, LiveNames, Live
<1>5. CASE \E r \in Runs : RequestCancellation(r)
  BY <1>5 DEF RequestCancellation, liveVars, LiveNames, Live
<1>6. CASE Crash \/ HubExits
  BY <1>6 DEF Crash, HubExits, Forget, Settled, LiveNames, Live
<1>7. CASE StopRuns
  BY <1>7 DEF StopRuns, askVars, LiveNames, Live, TypeOK, LiveTypeOK
<1>8. CASE UNCHANGED <<askVars, liveVars>>
  BY <1>8 DEF askVars, liveVars, LiveNames, Live
<1>9. CASE \E r \in Runs : PassStep(r)
  BY <1>8, <1>9 DEF PassStep, PassNext, PassCloses, PassLooks, PassRefuses, PassAdvances,
     PassSettles, PassWrite
<1>10. CASE (\E S \in SUBSET Runs : TakeOver(S)) \/ (\E w \in Writers : WriterMovesMain(w))
  BY <1>8, <1>10 DEF TakeOver, WriterMovesMain
<1>11. CASE Boot \/ Close \/ DatabaseFails \/ DatabaseReturns \/ UNCHANGED vars
  BY <1>8, <1>11 DEF Boot, Close, DatabaseFails, DatabaseReturns, vars
<1> QED BY <1>1, <1>2, <1>3, <1>4, <1>5, <1>6, <1>7, <1>9, <1>10, <1>11 DEF Next

LEMMA NameInvStep ==
  ASSUME TypeOK, NameInv, [Next]_vars
  PROVE  NameInv'
<1>1. RowsName /\ LiveNames
  BY NamesStep, LiveNamesStep
<1>2. ASSUME NEW q \in Runs, Called(q)
      PROVE  Called(q)'
  <2>1. CASE Ended(q)
    BY <2>1, EndedRowStays DEF Called, Ended
  <2>2. CASE Open(q) /\ row[q].cancel
    <3>1. row'[q].cancel /\ row'[q].state # "NONE"
      BY <1>1, <2>2 DEF RowsName, Open, OpenStates
    <3>2. row'[q].state \in {"NONE"} \cup OpenStates \cup EndedStates
      BY NextType DEF TypeOK, RowsTypeOK, Row
    <3> QED BY <3>1, <3>2 DEF Called, Open, Ended
  <2> QED BY <1>2, <2>1, <2>2 DEF Called
<1>3. ASSUME NEW q \in Runs, RequestCancellation(q)
      PROVE  Called(q)'
  BY <1>3, EndedRowStays DEF RequestCancellation, NameInv, Called, Ended, Open, OpenStates, EndedStates, EndedRow,
     TypeOK, RowsTypeOK, Row
<1>4. \A q \in Runs : (Live(q) \/ q \in pending => row[q].state # "NONE")'
  BY <1>1 DEF RowsName, LiveNames, NameInv
<1>5. \A q \in Runs : (Open(q) => row[q].code # "USER_CANCELLED")'
  BY <1>1 DEF RowsName, NameInv
<1>6. \A q \in Runs :
        (q \in signals \/ stop[q] = "USER_CANCELLED" \/ final[q].code = "USER_CANCELLED" => Called(q))'
  BY <1>1, <1>2, <1>3 DEF LiveNames, NameInv
<1>7. \A q \in Runs : (row[q].state = "NONE" => ~row[q].cancel)'
  BY RowsStep DEF RowsFollow, NameInv
<1> QED BY <1>4, <1>5, <1>6, <1>7 DEF NameInv

LEMMA NameInvHolds == Spec => []NameInv
<1>1. Init => NameInv
  BY DEF Init, NoRow, Settled, NameInv, Live, Open, OpenStates
<1>2. TypeOK /\ NameInv /\ [Next]_vars => NameInv'
  BY NameInvStep
<1> QED BY <1>1, <1>2, TypeCorrect, PTL DEF Spec

\* USER_CANCELLED is somebody's: a row says so only when a request wrote it, or when the run's exit
\* did after a stop that was recorded. A Hub that stops and a phase that is refused do not say it.
THEOREM StopIsSomebodys == Spec => StopIsNamed
<1>1. TypeOK /\ NameInv /\ [Next]_vars =>
        [\A r \in Runs : Open(r) /\ row'[r].code = "USER_CANCELLED" => row[r].cancel \/ RequestCancellation(r)]_vars
  <2>1. ASSUME TypeOK, NameInv, [Next]_vars, NEW r \in Runs, Open(r), row'[r].code = "USER_CANCELLED"
        PROVE  row[r].cancel \/ RequestCancellation(r)
    BY <2>1, NamesStep DEF RowsName, NameInv, Called, Ended, Open, OpenStates, EndedStates
  <2> QED BY <2>1
<1> QED BY <1>1, TypeCorrect, NameInvHolds, PTL DEF Spec, StopIsNamed

-----------------------------------------------------------------------------
(* The promise: each step is one of AdmissionPromise, or none *)

Status == [q \in Runs |-> StatusOf(q)]
Stops == {q \in Runs : row[q].cancel}
Bases == [q \in Runs |-> row[q].base]

\* What a write of a step does to one open row: it keeps the base; it leaves it open with its
\* candidate, or records the candidate of a run nobody stopped, or ends it.
RowMoves(r) ==
  /\ Open(r) /\ UNCHANGED main
  /\ \A q \in Runs : q # r => row'[q] = row[q]
  /\ row'[r].base = row[r].base /\ (row[r].cancel => row'[r].cancel)
  /\ \/ row'[r].state \in OpenStates /\ row'[r].candidate = row[r].candidate
     \/ row'[r].state \in OpenStates /\ row'[r].candidate /\ ~row[r].cancel /\ ~row'[r].cancel
     \/ row'[r].state \in EndedStates /\ (row'[r].kind \in SourceKinds => row'[r].cancel = row[r].cancel)

LEMMA OneRowSeen ==
  ASSUME TypeOK, TypeOK', NEW r \in Runs, \A q \in Runs : q # r => row'[q] = row[q]
  PROVE  /\ Status' = [Status EXCEPT ![r] = StatusOf(r)']
         /\ Bases' = [Bases EXCEPT ![r] = row'[r].base]
         /\ row'[r].cancel => Stops' = Stops \cup {r}
         /\ row'[r].cancel = row[r].cancel => Stops' = Stops
<1>1. \A q \in Runs : q # r => StatusOf(q)' = StatusOf(q)
  BY DEF StatusOf, Open, Ended
<1>2. Status' = [Status EXCEPT ![r] = StatusOf(r)']
  BY <1>1 DEF Status
<1>3. Bases' = [Bases EXCEPT ![r] = row'[r].base]
  BY DEF Bases
<1>4. ASSUME row'[r].cancel PROVE Stops' = Stops \cup {r}
  BY <1>4 DEF Stops
<1>5. ASSUME row'[r].cancel = row[r].cancel PROVE Stops' = Stops
  BY <1>5 DEF Stops
<1> QED BY <1>2, <1>3, <1>4, <1>5

LEMMA RowMovesKeeps ==
  ASSUME TypeOK, TypeOK', MainInv, RowsEnd, NEW r \in Runs, RowMoves(r)
  PROVE  [Admission!PromiseNext]_Admission!promiseVars
<1>1. /\ Status' = [Status EXCEPT ![r] = StatusOf(r)']
      /\ row'[r].cancel => Stops' = Stops \cup {r}
      /\ row'[r].cancel = row[r].cancel => Stops' = Stops
  BY OneRowSeen DEF RowMoves
<1>2. Bases' = Bases
  BY DEF Bases, RowMoves
<1>3. main' = main /\ Open(r) /\ Status[r] = StatusOf(r)
  BY DEF RowMoves, Status
<1>4. row'[r].cancel = row[r].cancel \/ (row'[r].cancel /\ ~row[r].cancel)
  BY DEF RowMoves, TypeOK, RowsTypeOK, Row
<1>5. StatusOf(r) = IF row[r].candidate THEN "offered" ELSE "open"
  BY <1>3 DEF StatusOf, Open, Ended, OpenStates, EndedStates
<1>6. CASE row'[r].state \in OpenStates /\ row'[r].candidate = row[r].candidate
  <2>1. StatusOf(r)' = StatusOf(r)
    BY <1>5, <1>6 DEF StatusOf, Open, Ended, OpenStates, EndedStates
  <2>2. Status' = Status
    BY <1>1, <1>3, <2>1 DEF Status
  <2>3. CASE row'[r].cancel = row[r].cancel
    BY <1>1, <1>2, <1>3, <2>2, <2>3 DEF Admission!promiseVars, Status, Stops, Bases
  <2>4. CASE row'[r].cancel
    <3>1. Admission!Stop(r)
      BY <1>1, <1>2, <1>3, <1>5, <2>2, <2>4 DEF Admission!Stop, Admission!Unsettled, Status, Stops, Bases
    <3> QED BY <3>1 DEF Admission!PromiseNext
  <2> QED BY <1>4, <2>3, <2>4
<1>7. CASE row'[r].state \in OpenStates /\ row'[r].candidate /\ ~row[r].candidate /\ ~row[r].cancel /\ ~row'[r].cancel
  <2>1. StatusOf(r)' = "offered" /\ Status[r] = "open" /\ r \notin Stops
    BY <1>3, <1>5, <1>7 DEF StatusOf, Open, Ended, OpenStates, EndedStates, Stops
  <2>2. row'[r].cancel = row[r].cancel
    BY <1>4, <1>7
  <2>3. Admission!Offer(r)
    BY <1>1, <1>2, <1>3, <2>1, <2>2 DEF Admission!Offer, Status, Stops, Bases
  <2> QED BY <2>3 DEF Admission!PromiseNext
<1>8. CASE row'[r].state \in EndedStates /\ (row'[r].kind \in SourceKinds => row'[r].cancel = row[r].cancel)
  <2>1. row'[r].kind \in SourceKinds <=> OnMain(r)
    BY <1>3, <1>8 DEF RowsEnd, Ended, Open, OpenStates, EndedStates
  <2>2. StatusOf(r)' = IF OnMain(r) THEN "kept" ELSE "dropped"
    BY <1>8, <2>1 DEF StatusOf, Open, Ended, OpenStates, EndedStates
  <2>3. Admission!IsOnMain(r) = OnMain(r)
    BY DEF Admission!IsOnMain, OnMain
  <2>4. CASE OnMain(r)
    <3>1. StatusOf(r) = "offered" /\ row'[r].cancel = row[r].cancel
      BY <1>5, <1>8, <2>1, <2>4 DEF MainInv, RowFollowsMain
    <3>2. Admission!Keep(r)
      BY <1>1, <1>2, <1>3, <2>2, <2>3, <2>4, <3>1 DEF Admission!Keep, Status, Stops, Bases
    <3> QED BY <3>2 DEF Admission!PromiseNext
  <2>5. CASE ~OnMain(r)
    <3>1. Stops' \in {Stops, Stops \cup {r}}
      BY <1>1, <1>4
    <3>2. Admission!Drop(r)
      BY <1>1, <1>2, <1>3, <1>5, <2>2, <2>3, <2>5, <3>1 DEF Admission!Drop, Admission!Unsettled, Status, Stops, Bases
    <3> QED BY <3>2 DEF Admission!PromiseNext
  <2> QED BY <2>4, <2>5
<1>9. row[r].candidate \in BOOLEAN /\ row'[r].candidate \in BOOLEAN
  BY DEF TypeOK, RowsTypeOK, Row
<1> QED BY <1>6, <1>7, <1>8, <1>9 DEF RowMoves

\* Writes that change no state, candidate, stop or base are no step.
LEMMA UnseenKeeps ==
  ASSUME UNCHANGED main,
         \A q \in Runs : /\ row'[q].state = row[q].state /\ row'[q].candidate = row[q].candidate
                         /\ row'[q].cancel = row[q].cancel /\ row'[q].base = row[q].base
                         /\ row'[q].kind = row[q].kind
  PROVE  UNCHANGED Admission!promiseVars
<1>1. \A q \in Runs : StatusOf(q)' = StatusOf(q)
  BY DEF StatusOf, Open, Ended
<1>2. Status' = Status /\ Stops' = Stops /\ Bases' = Bases
  BY <1>1 DEF Status, Stops, Bases
<1> QED BY <1>2 DEF Admission!promiseVars, Status, Stops, Bases

LEMMA SameRowsKeeps ==
  ASSUME UNCHANGED <<row, main>>
  PROVE  UNCHANGED Admission!promiseVars
  BY UnseenKeeps

\* A run at its move has offered its change, and moves `main` from its base or not at all.
LEMMA MovedKeeps ==
  ASSUME TypeOK, MainInv, EndInv, NEW r \in Runs, pc[r] = "moving", UNCHANGED row, main' \in {main, Moved(r)}
  PROVE  [Admission!PromiseNext]_Admission!promiseVars
<1>1. Status' = Status /\ Stops' = Stops /\ Bases' = Bases
  BY DEF Status, Stops, Bases, StatusOf, Open, Ended
<1>2. CASE main' = main
  BY <1>2, SameRowsKeeps
<1>3. CASE main' # main
  <2>1. main[Project(r)] = row[r].base /\ main' = [main EXCEPT ![Project(r)] = row[r].base \cup {r}]
    BY <1>3, ProjectType DEF Moved, Candidate, TypeOK, MainTypeOK
  <2>2. StatusOf(r) = "offered"
    BY DEF MainInv, MovesRecorded, EndInv, MovesAlone, StatusOf, Open, Ended, OpenStates, EndedStates
  <2>3. Admission!Admit(r)
    BY <1>1, <2>1, <2>2 DEF Admission!Admit, Status, Stops, Bases
  <2> QED BY <2>3 DEF Admission!PromiseNext
<1> QED BY <1>2, <1>3

LEMMA AskKeeps ==
  ASSUME TypeOK, TypeOK', NameInv, NEW r \in Runs, CreateRun(r)
  PROVE  [Admission!PromiseNext]_Admission!promiseVars
<1>1. row' = [row EXCEPT ![r] = [NoRow EXCEPT !.state = "QUEUED", !.base = main[Project(r)]]]
  BY DEF CreateRun
<1>2. /\ row'[r].state = "QUEUED" /\ ~row'[r].candidate /\ row'[r].base = main[Project(r)]
      /\ row'[r].cancel = FALSE
  BY <1>1 DEF NoRow, TypeOK, RowsTypeOK, Row
<1>3. \A q \in Runs : q # r => row'[q] = row[q]
  BY <1>1 DEF TypeOK, RowsTypeOK
<1>4. StatusOf(r)' = "open"
  BY <1>2 DEF StatusOf, Open, Ended, OpenStates, EndedStates
<1>5. /\ Status' = [Status EXCEPT ![r] = "open"]
      /\ Bases' = [Bases EXCEPT ![r] = main[Project(r)]]
      /\ row'[r].cancel = row[r].cancel => Stops' = Stops
  BY <1>2, <1>3, <1>4, OneRowSeen
<1>6. row[r].state = "NONE" /\ row[r].cancel = FALSE
  BY DEF CreateRun, NameInv, TypeOK, RowsTypeOK, Row
<1>7. Status[r] = "none" /\ main' = main
  BY <1>6 DEF CreateRun, Status, StatusOf, Open, Ended, OpenStates, EndedStates
<1>8. ASSUME NEW other \in Runs, Admission!Unsettled(other) PROVE Project(other) # Project(r)
  <2>1. Open(other)
    BY <1>8 DEF Admission!Unsettled, StatusOf, Open, Ended, OpenStates, EndedStates, TypeOK, RowsTypeOK, Row
  <2> QED BY <2>1 DEF CreateRun, ProjectBusy
<1>9. Admission!Ask(r)
  BY <1>2, <1>5, <1>6, <1>7, <1>8 DEF Admission!Ask, Status, Stops, Bases
<1> QED BY <1>9 DEF Admission!PromiseNext

\* An ending over one open row, in whoever's name.
LEMMA EndMoves ==
  ASSUME TypeOK, NEW r \in Runs, Open(r), UNCHANGED main, NEW state \in EndedStates, NEW kind, NEW code,
         row' = [row EXCEPT ![r] = EndedRow(r, state, kind, code)],
         state = "INTERRUPTED" => kind \notin SourceKinds
  PROVE  RowMoves(r)
<1>1. /\ EndedRow(r, state, kind, code).state = state
      /\ EndedRow(r, state, kind, code).kind = kind
      /\ EndedRow(r, state, kind, code).base = row[r].base
      /\ row[r].cancel => EndedRow(r, state, kind, code).cancel
      /\ state # "INTERRUPTED" => EndedRow(r, state, kind, code).cancel = row[r].cancel
  BY DEF EndedRow, TypeOK, RowsTypeOK, Row
<1>2. row'[r] = EndedRow(r, state, kind, code) /\ \A q \in Runs : q # r => row'[q] = row[q]
  BY DEF TypeOK, RowsTypeOK
<1> QED BY <1>1, <1>2 DEF RowMoves

LEMMA RunMoves ==
  ASSUME TypeOK, NEW r \in Runs, RunStep(r)
  PROVE  \/ RowMoves(r) \/ UNCHANGED <<row, main>>
         \/ pc[r] = "moving" /\ UNCHANGED row /\ main' \in {main, Moved(r)}
<1>1. CASE Claim(r)
  <2>1. CASE row[r].state = "QUEUED" /\ row' = [row EXCEPT ![r].state = "RUNNING", ![r].owner = epoch]
    BY <1>1, <2>1 DEF Claim, RowMoves, Open, OpenStates, TypeOK, RowsTypeOK, Row
  <2> QED BY <1>1, <2>1 DEF Claim, Denied, Refused, rowVars
<1>2. CASE SettleResponse(r)
  <2>1. CASE Open(r) /\ EndRun(r, "SUCCEEDED", "RESPONSE_ONLY", "none")
    BY <1>2, <2>1, EndMoves DEF SettleResponse, EndRun, EndedStates
  <2> QED BY <1>2, <2>1 DEF SettleResponse, Mine, Refused, rowVars
<1>3. CASE RecordCandidate(r)
  <2>1. CASE TakesPhase(r) /\ row' = [row EXCEPT ![r].candidate = TRUE]
    BY <1>3, <2>1 DEF RecordCandidate, TakesPhase, Mine, RowMoves, Open, OpenStates, TypeOK, RowsTypeOK, Row
  <2> QED BY <1>3, <2>1 DEF RecordCandidate, Refused, rowVars
<1>4. CASE AdvanceSource(r)
  <2>1. CASE Open(r) /\ row' = [row EXCEPT ![r].result = TRUE]
    BY <1>4, <2>1 DEF AdvanceSource, RowMoves, Open, OpenStates, TypeOK, RowsTypeOK, Row
  <2> QED BY <1>4, <2>1 DEF AdvanceSource, Mine, Refused, rowVars
<1>5. CASE SettleBuilt(r) \/ SettleUnbuilt(r)
  <2>1. CASE /\ Open(r)
             /\ \/ EndRun(r, "SUCCEEDED", "SOURCE_CHANGED", "none")
                \/ EndRun(r, "FAILED", "SOURCE_CHANGED_BUILD_FAILED", "FAILURE")
    BY <1>5, <2>1, EndMoves DEF SettleBuilt, SettleUnbuilt, EndRun, EndedStates
  <2> QED BY <1>5, <2>1 DEF SettleBuilt, SettleUnbuilt, CanSettleBuild, Mine, Refused, rowVars
<1>6. CASE WriteEnding(r)
  <2>1. final[r].how \in EndedStates
    BY <1>6 DEF WriteEnding, TypeOK, LiveTypeOK, Outcome, EndedStates
  <2>2. CASE Open(r) /\ EndRun(r, final[r].how, "none", final[r].code)
    <3>1. UNCHANGED main /\ "none" \notin SourceKinds
      BY <1>6 DEF WriteEnding, SourceKinds
    <3>2. row' = [row EXCEPT ![r] = EndedRow(r, final[r].how, "none", final[r].code)]
      BY <2>2 DEF EndRun
    <3> QED BY <2>1, <2>2, <3>1, <3>2, EndMoves
  <2> QED BY <1>6, <2>2 DEF WriteEnding, EndsUnclaimed, Mine, Open, OpenStates, Refused, rowVars
<1>7. CASE \/ EnterPreparing(r) \/ EnterAgent(r) \/ EnterWaiting(r) \/ EnterFinalizing(r)
           \/ EnterAdmission(r) \/ Prepare(r) \/ TurnEnds(r) \/ TurnAsks(r) \/ AwaitReply(r)
           \/ Conclude(r) \/ CheckStop(r) \/ LetGo(r)
  BY <1>7 DEF EnterPreparing, EnterAgent, EnterWaiting, EnterFinalizing, EnterAdmission,
     SetPhase, Prepare, TurnEnds, TurnAsks, AwaitReply, Conclude, CheckStop, LetGo, Works, rowVars
<1>8. CASE MoveMain(r) \/ MoveMainFails(r)
  BY <1>8 DEF MoveMain, MoveMainFails, rowVars
<1> QED BY <1>1, <1>2, <1>3, <1>4, <1>5, <1>6, <1>7, <1>8 DEF RunStep

LEMMA PassMoves ==
  ASSUME TypeOK, NEW r \in Runs, PassStep(r)
  PROVE  RowMoves(r) \/ UNCHANGED <<row, main>>
<1>1. CASE PassNext(r) \/ PassLooks(r)
  BY <1>1 DEF PassNext, PassLooks, rowVars
<1>2. CASE PassCloses(r) \/ PassRefuses(r) \/ PassSettles(r)
  <2>1. UNCHANGED main
    BY <1>2 DEF PassCloses, PassRefuses, PassSettles, PassWrite
  <2>2. \/ UNCHANGED row
        \/ /\ Open(r)
           /\ \E kind, code : \E state \in EndedStates :
                /\ state = "INTERRUPTED" => kind \notin SourceKinds
                /\ row' = [row EXCEPT ![r] = EndedRow(r, state, kind, code)]
    <3>1. "FAILED" \in EndedStates /\ "INTERRUPTED" \in EndedStates /\ "none" \notin SourceKinds
      BY DEF EndedStates, SourceKinds
    <3> QED BY <1>2, <3>1 DEF PassCloses, PassRefuses, PassSettles, PassWrite, CanSettleBuild, Mine,
               Refused, rowVars
  <2> QED BY <2>1, <2>2, EndMoves
<1>3. CASE PassAdvances(r)
  <2>1. CASE Open(r) /\ row' = [row EXCEPT ![r] = [row[r] EXCEPT !.result = TRUE]]
    BY <1>3, <2>1 DEF PassAdvances, PassWrite, RowMoves, Open, OpenStates, TypeOK, RowsTypeOK, Row
  <2> QED BY <1>3, <2>1 DEF PassAdvances, PassWrite, Mine, Refused, rowVars
<1> QED BY <1>1, <1>2, <1>3 DEF PassStep

\* A stop ends a queued run and is noted in a running one's row; an ended row is left as it is.
LEMMA StopMoves ==
  ASSUME TypeOK, NEW r \in Runs, RequestCancellation(r)
  PROVE  RowMoves(r) \/ UNCHANGED <<row, main>>
<1>1. CASE row[r].state = "QUEUED"
  <2>1. row' = [row EXCEPT ![r] = EndedRow(r, "INTERRUPTED", "none", "USER_CANCELLED")]
    BY <1>1 DEF RequestCancellation
  <2> QED BY <1>1, <2>1, EndMoves DEF RequestCancellation, Open, OpenStates, EndedStates, SourceKinds
<1>2. CASE row[r].state = "RUNNING"
  BY <1>2 DEF RequestCancellation, RowMoves, Open, OpenStates, TypeOK, RowsTypeOK, Row
<1>3. CASE row[r].state \notin OpenStates
  <2>1. row' = [row EXCEPT ![r] = row[r]] /\ UNCHANGED main
    BY <1>3 DEF RequestCancellation, OpenStates
  <2> QED BY <2>1 DEF TypeOK, RowsTypeOK
<1> QED BY <1>1, <1>2, <1>3 DEF OpenStates

LEMMA PromiseStep ==
  ASSUME TypeOK, TypeOK', MainInv, EndInv, NameInv, [Next]_vars
  PROVE  [Admission!PromiseNext]_Admission!promiseVars
<1>1. RowsEnd
  BY EndsStep
<1>2. ASSUME NEW r \in Runs, RowMoves(r)
      PROVE  [Admission!PromiseNext]_Admission!promiseVars
  BY <1>1, <1>2, RowMovesKeeps
<1>3. CASE UNCHANGED <<row, main>>
  BY <1>3, SameRowsKeeps
<1>4. CASE \E r \in Runs : CreateRun(r)
  BY <1>4, AskKeeps
<1>5. CASE \E r \in Runs : RunStep(r)
  BY <1>2, <1>3, <1>5, RunMoves, MovedKeeps
<1>6. CASE \E r \in Runs : RequestCancellation(r)
  BY <1>2, <1>3, <1>6, StopMoves
<1>7. CASE \E S \in SUBSET Runs : TakeOver(S)
  <2>1. \A q \in Runs : /\ row'[q].state = row[q].state /\ row'[q].candidate = row[q].candidate
                        /\ row'[q].cancel = row[q].cancel /\ row'[q].base = row[q].base
                        /\ row'[q].kind = row[q].kind
    BY <1>7 DEF TakeOver, TypeOK, RowsTypeOK, Row
  <2>2. UNCHANGED main
    BY <1>7 DEF TakeOver
  <2> QED BY <2>1, <2>2, UnseenKeeps
<1>8. CASE \E r \in Runs : PassStep(r)
  BY <1>2, <1>3, <1>8, PassMoves
<1>9. CASE Crash
  <2>1. CASE \E r \in Runs : pc[r] = "moving" /\ main' = Moved(r)
    BY <1>9, <2>1, MovedKeeps DEF Crash, rowVars
  <2> QED BY <1>3, <1>9, <2>1 DEF Crash, rowVars
<1>10. CASE \E w \in Writers : WriterMovesMain(w)
  <2>1. PICK w \in Writers : WriterMovesMain(w)
    BY <1>10
  <2>2. Status' = Status /\ Stops' = Stops /\ Bases' = Bases
    BY <2>1 DEF WriterMovesMain, rowVars, Status, Stops, Bases, StatusOf, Open, Ended
  <2>3. Admission!Write(w)
    BY <2>1, <2>2 DEF WriterMovesMain, Admission!Write, Status, Stops, Bases
  <2> QED BY <2>3 DEF Admission!PromiseNext
<1>11. CASE \/ \E r \in Runs : ReplayRun(r) \/ StartRun(r) \/ SignalStop(r)
            \/ Boot \/ Close \/ StopRuns \/ HubExits \/ DatabaseFails \/ DatabaseReturns \/ UNCHANGED vars
  BY <1>3, <1>11 DEF ReplayRun, StartRun, SignalStop, Boot, Close, StopRuns, HubExits, DatabaseFails,
     DatabaseReturns, vars, rowVars
<1> QED BY <1>4, <1>5, <1>6, <1>7, <1>8, <1>9, <1>10, <1>11 DEF Next

\* The whole of it keeps the promise made to a Project's people, while a pass writes what it decided
\* of a run before a start of that run comes to its candidate: the rows and `main`, whatever Hub,
\* pass, stop or crash moved them, are AdmissionPromise's.
THEOREM PromiseIsKept ==
  ASSUME "pass" \in Prompt
  PROVE  Spec => KeepsThePromise
<1>1. Init => Admission!PromiseInit
  BY DEF Init, NoRow, StatusOf, Open, Ended, OpenStates, EndedStates, Admission!PromiseInit
<1>2. TypeOK /\ TypeOK' /\ MainInv /\ EndInv /\ NameInv /\ [Next]_vars =>
        [Admission!PromiseNext]_Admission!promiseVars
  BY PromiseStep
<1> QED BY <1>1, <1>2, TypeCorrect, MainInvHolds, EndInvHolds, NameInvHolds, PTL
        DEF Spec, KeepsThePromise, Admission!Promise

=============================================================================
