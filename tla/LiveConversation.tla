---------------------------- MODULE LiveConversation ----------------------------
(***************************************************************************)
(* One conversation as the Hub holds it: its one sandbox instance and one    *)
(* Mastra session, the run that works on them, the question it may wait on,  *)
(* E2B's machine, and the two jobs that let go of what is idle.             *)
(*                                                                         *)
(* Simplifications.                                                         *)
(*  - Where the run's source goes is TurnSource's, what its row says beyond   *)
(*    open or not BuilderRun's; a stop is the abort of its signal.           *)
(*  - An instance is found, or made with the recorded machine, in one step.  *)
(*    One that nothing names any more stands for a new one.                 *)
(*  - "idle" stands for the window of the job, ten minutes or seven days;   *)
(*    calls to E2B land within it. A resumed machine has the run's timeout.  *)
(*  - Of the browser's requests one at a time is opening the conversation.   *)
(*  - The deletion of a stalled turn's session, a question no cleanup ended, *)
(*    a Project's drop and the close of the Hub are left out.               *)
(***************************************************************************)
EXTENDS Naturals, Sequences, FiniteSets, SequencesExt

CONSTANTS
  Instances,    \* sandbox instances, 1..n
  Machines,     \* bound: machines E2B makes for the conversation, 1..n
  Keys,         \* idempotency keys of the messages a person types while a run waits
  MaxRuns,      \* bound: runs of the conversation
  MaxQuestions, \* bound: questions a run asks
  MaxFaults     \* bound: failures of E2B and lost machines

ASSUME IdsAssumption == Instances \subseteq Nat \ {0} /\ Machines \subseteq Nat \ {0}
ASSUME NamesAssumption == "answer" \notin Keys
ASSUME BoundAssumption == MaxRuns \in Nat /\ MaxQuestions \in Nat /\ MaxFaults \in Nat

VARIABLES
  run,      \* the conversation's run in the service's map, at "none" when there is none
  rowOpen,  \* whether the run's row is queued or running
  inbox,    \* its one slot, the question it is open for, the keys taken; what was accepted and what ended a wait
  entry,    \* the conversation's instance, or None
  used,     \* whether it was used within the idle window
  retiring, \* the instance that is being let go of, or None
  session,  \* whether Mastra has the conversation's session live, and the instance its workspace is of, or None
  opening,  \* opening[who]: the instance an open of who found and has yet to open the session for, or None
  vmOf,     \* vmOf[i]: the machine instance i runs its commands on
  lane,     \* lane[i]: the deadlines instance i has yet to set, in order
  machines, \* E2B's: state, deadline, whether paused past the limit
  recorded, \* the machine the Hub's rows name for the conversation
  sweep,    \* the entry the idle-conversations job reads the session of, or None
  reap,     \* the idle-machines job: its step, the machines it listed, the run open at that time
  faults,
  stray     \* history: whether a kill failed while its instance had a deadline to set

hub == <<entry, used, retiring, session, opening>>
vms == <<vmOf, lane, machines, recorded>>
jobs == <<sweep, reap>>
vars == <<run, rowOpen, inbox, hub, vms, jobs, faults, stray>>

None == 0
NoRun(n) == [n |-> n, pc |-> "none", instance |-> None, incarnation |-> None, started |-> FALSE,
             usable |-> TRUE, prepared |-> FALSE, held |-> FALSE, stopped |-> FALSE]
NoSession == [live |-> FALSE, on |-> None]
SessionOn(i) == [live |-> TRUE, on |-> i]
Openers == {"run", "browser"}
NoReply == [at |-> 0, by |-> "nobody"]
NewInbox == [accepting |-> FALSE, slot |-> NoReply, question |-> 0, accepted |-> {}, ended |-> {}]
NoReap == [pc |-> "off", doomed |-> {}, seen |-> 0]

Runs == {"queued", "opening", "holding", "preparing", "joining", "working", "asked", "waiting", "resuming",
         "leaving", "settling", "killing", "dropping", "ending", "releasing"}
Deadlines == {"run", "idle"}
States == [state : {"none", "running", "paused", "gone"}, deadline : Deadlines, old : BOOLEAN]
Senders == Keys \cup {"answer"}
Replies == [at : 1..MaxQuestions, by : Senders]
Slot == [at : 0..MaxQuestions, by : Senders \cup {"nobody"}]
Inbox == [accepting : BOOLEAN, slot : Slot, question : 0..MaxQuestions, accepted : SUBSET Replies, ended : SUBSET Replies]
Alive(m) == m # None /\ machines[m].state \in {"running", "paused"}
Running(m) == m # None /\ machines[m].state = "running"
runOpen == run.pc # "none"

RunTypeOK ==
  /\ run \in [n : 0..MaxRuns, pc : Runs \cup {"none"}, instance : Instances \cup {None}, incarnation : Machines \cup {None},
              started : BOOLEAN, usable : BOOLEAN, prepared : BOOLEAN, held : BOOLEAN, stopped : BOOLEAN]
  /\ rowOpen = (run.pc \notin {"none", "releasing"})
InboxTypeOK ==
  /\ inbox \in Inbox
  /\ inbox.accepting = (run.pc \in {"asked", "waiting"}) /\ inbox.ended \subseteq inbox.accepted
VmTypeOK ==
  /\ vmOf \in [Instances -> Machines \cup {None}] /\ recorded \in Machines \cup {None}
  /\ machines \in [Machines -> States]
LaneTypeOK == lane \in [Instances -> Seq(Deadlines)] /\ \A i \in Instances : Len(lane[i]) <= 4
HubTypeOK ==
  /\ {entry, retiring, sweep} \subseteq Instances \cup {None} /\ used \in BOOLEAN
  /\ session \in {NoSession} \cup {SessionOn(i) : i \in Instances \cup {None}}
  /\ opening \in [Openers -> Instances \cup {None}]
  /\ reap \in [pc : {"off", "listed", "killing"}, doomed : SUBSET Machines, seen : 0..MaxRuns]
  /\ faults \in 0..MaxFaults /\ stray \in BOOLEAN
TypeOK == RunTypeOK /\ InboxTypeOK /\ VmTypeOK /\ LaneTypeOK /\ HubTypeOK

Init ==
  /\ run = NoRun(0) /\ rowOpen = FALSE /\ inbox = NewInbox
  /\ entry = None /\ used = FALSE /\ retiring = None
  /\ session = NoSession /\ opening = [who \in Openers |-> None]
  /\ vmOf = [i \in Instances |-> None] /\ lane = [i \in Instances |-> <<>>]
  /\ machines = [m \in Machines |-> [state |-> "none", deadline |-> "run", old |-> FALSE]]
  /\ recorded = None
  /\ sweep = None /\ reap = NoReap
  /\ faults = 0 /\ stray = FALSE

Goes(pc) == run' = [run EXCEPT !.pc = pc]
Faulty == faults < MaxFaults /\ faults' = faults + 1

-----------------------------------------------------------------------------
\* The conversation's instance and its machine

\* live: an instance being let go of is waited for, then the one there is, or a new one on the recorded machine.
Spare == {i \in Instances \ {run.instance, session.on, sweep, opening["run"], opening["browser"]} : lane[i] = <<>>}
NewInstance == CHOOSE i \in Spare : TRUE
Found(i) ==
  \/ entry # None /\ i = entry /\ UNCHANGED <<entry, vmOf>>
  \/ /\ entry = None /\ Spare # {} /\ i = NewInstance
     /\ entry' = i /\ vmOf' = [vmOf EXCEPT ![i] = recorded]
Live(i) == retiring = None /\ Found(i)

\* open: the conversation is found; then the live session is returned, or one is made on the workspace of the
\* entry there is by then, on none if there is none; one that has not the workspace of what was found is refused.
Finds(who) ==
  /\ \E i \in Instances : Live(i) /\ opening' = [opening EXCEPT ![who] = i]
  /\ used' = TRUE
Opened == IF session.live THEN session ELSE SessionOn(entry)
Unchecked(who) == FALSE \* broken: whatever workspace the session has
Refused(who) == Opened.on # opening[who]
Joins(who) == session' = Opened /\ opening' = [opening EXCEPT ![who] = None]

\* A command's machine: the instance's own, resumed; else another the conversation has, else a new one.
Fresh == {m \in Machines : machines[m].state = "none"}
Machine(i) ==
  IF Alive(vmOf[i]) THEN {vmOf[i]}
  ELSE LET found == {m \in Machines : Alive(m)} IN IF found # {} THEN found ELSE Fresh
Awake(m) == IF Running(m) THEN machines
            ELSE [machines EXCEPT ![m] = [state |-> "running", deadline |-> "run", old |-> FALSE]]
Commands(i, m) == m \in Machine(i) /\ vmOf' = [vmOf EXCEPT ![i] = m] /\ machines' = Awake(m)

\* #setDeadline: each change waits for the one before it to land.
Sets(i, deadline) == lane' = [lane EXCEPT ![i] = Append(@, deadline)]
LandsAnyOrder(i) == \* broken: the calls are not chained
  \E k \in DOMAIN lane[i] :
    /\ lane' = [lane EXCEPT ![i] = RemoveAt(@, k)]
    /\ machines' = IF Running(vmOf[i]) THEN [machines EXCEPT ![vmOf[i]].deadline = lane[i][k]] ELSE machines
Lands(i) ==
  /\ lane[i] # <<>>
  /\ lane' = [lane EXCEPT ![i] = Tail(@)]
  /\ machines' = IF Running(vmOf[i]) THEN [machines EXCEPT ![vmOf[i]].deadline = Head(lane[i])] ELSE machines
DeadlineLands(i) == Lands(i) /\ UNCHANGED <<run, rowOpen, inbox, hub, vmOf, recorded, jobs, faults, stray>>

\* letGo: a machine the run holds goes back to its idle window.
LetsGo(then) ==
  /\ run' = [then EXCEPT !.held = FALSE]
  /\ IF run.held THEN Sets(run.instance, "idle") ELSE UNCHANGED lane

-----------------------------------------------------------------------------
\* The run, to the agent's work

Begin ==
  /\ ~runOpen /\ run.n < MaxRuns
  /\ run' = [NoRun(run.n + 1) EXCEPT !.pc = "queued"]
  /\ rowOpen' = TRUE /\ inbox' = NewInbox
  /\ UNCHANGED <<hub, vms, jobs, faults, stray>>

OpenSandbox ==
  /\ run.pc = "queued"
  /\ \E i \in Instances : Live(i) /\ run' = [run EXCEPT !.pc = "opening", !.instance = i]
  /\ used' = TRUE
  /\ UNCHANGED <<rowOpen, inbox, retiring, session, opening, lane, machines, recorded, jobs, faults, stray>>

\* startVm: the machine that ran the first command is the incarnation the run stays on.
Start ==
  LET i == run.instance IN
  /\ run.pc = "opening"
  /\ \/ \E m \in Machines :
          /\ Commands(i, m)
          /\ run' = [run EXCEPT !.pc = "holding", !.started = TRUE, !.incarnation = m]
          /\ recorded' = m
          /\ Sets(i, "run")
          /\ UNCHANGED faults
     \/ /\ Faulty \/ (Machine(i) = {} /\ UNCHANGED faults)
        /\ run' = [run EXCEPT !.pc = "leaving", !.started = TRUE]
        /\ UNCHANGED vms
  /\ UNCHANGED <<rowOpen, inbox, hub, jobs, stray>>

\* holdOpen: the deadline of the run has landed, on a machine that runs.
Hold ==
  /\ run.pc = "holding" /\ "run" \notin Range(lane[run.instance])
  /\ run' = IF Running(vmOf[run.instance])
            THEN [run EXCEPT !.held = TRUE, !.pc = IF run.prepared THEN "working" ELSE "preparing"]
            ELSE [run EXCEPT !.pc = "leaving"]
  /\ UNCHANGED <<rowOpen, inbox, hub, vms, jobs, faults, stray>>

FindSession ==
  /\ run.pc = "preparing"
  /\ Finds("run") /\ Goes("joining")
  /\ UNCHANGED <<rowOpen, inbox, retiring, session, lane, machines, recorded, jobs, faults, stray>>
OpenSession ==
  /\ run.pc = "joining"
  /\ Joins("run")
  /\ run' = [run EXCEPT !.pc = IF run.usable /\ ~Refused("run") THEN "working" ELSE "leaving", !.prepared = ~Refused("run")]
  /\ UNCHANGED <<rowOpen, inbox, entry, used, retiring, vms, jobs, faults, stray>>

\* The hold extends the machine while it is active, and lapses on one that no longer runs.
Keepalive ==
  /\ run.held /\ "run" \notin Range(lane[run.instance]) /\ Running(vmOf[run.instance])
  /\ Sets(run.instance, "run")
  /\ UNCHANGED <<run, rowOpen, inbox, hub, vmOf, machines, recorded, jobs, faults, stray>>
Lapse ==
  /\ run.held /\ run.usable /\ ~Running(vmOf[run.instance])
  /\ run' = [run EXCEPT !.usable = FALSE, !.pc = IF @ \in {"joining", "asked"} THEN @ ELSE "leaving"]
  /\ UNCHANGED <<rowOpen, inbox, hub, vms, jobs, faults, stray>>

\* The agent is done; or a stop or a failure ends what the run was at.
Finish ==
  /\ run.pc = "working"
  /\ Goes("leaving")
  /\ UNCHANGED <<rowOpen, inbox, hub, vms, jobs, faults, stray>>
Fails ==
  /\ run.pc \in {"queued", "opening", "preparing", "joining"}
  /\ Goes("leaving") /\ opening' = [opening EXCEPT !["run"] = None]
  /\ UNCHANGED <<rowOpen, inbox, entry, used, retiring, session, vms, jobs, faults, stray>>

-----------------------------------------------------------------------------
\* The question and the one-slot inbox

\* A reply is taken only once the row says the run waits.
Ask ==
  /\ run.pc = "working" /\ ~run.stopped /\ inbox.question < MaxQuestions
  /\ inbox' = [inbox EXCEPT !.accepting = TRUE, !.slot = NoReply, !.question = @ + 1]
  /\ Goes("asked")
  /\ UNCHANGED <<rowOpen, hub, vms, jobs, faults, stray>>

\* wait's take: the first end of the wait closes the slot.
StillOpen(i) == [i EXCEPT !.slot = NoReply] \* broken: the end of a wait leaves the slot open
Closed(i) == [i EXCEPT !.accepting = FALSE, !.slot = NoReply]
Heard(i, reply) == [i EXCEPT !.accepted = @ \cup {reply}]
Kept(i, reply) == [i EXCEPT !.slot = reply]
Takes(i, reply) == [Closed(i) EXCEPT !.ended = @ \cup {reply}]

\* The run lets the machine go and waits; a reply offered before is taken, then a stop, then the first to come.
Listen ==
  /\ run.pc = "asked"
  /\ \/ inbox.slot # NoReply /\ inbox' = Takes(inbox, inbox.slot) /\ LetsGo([run EXCEPT !.pc = "resuming"])
     \/ inbox.slot = NoReply /\ run.stopped /\ inbox' = Closed(inbox) /\ LetsGo([run EXCEPT !.pc = "leaving"])
     \/ inbox.slot = NoReply /\ ~run.stopped /\ UNCHANGED inbox /\ LetsGo([run EXCEPT !.pc = "waiting"])
  /\ UNCHANGED <<rowOpen, hub, vmOf, machines, recorded, jobs, faults, stray>>

\* offer: refused unless the slot is open and empty, with nothing between the check and the take.
Offer(reply) ==
  /\ inbox.accepting /\ inbox.slot = NoReply
  /\ IF run.pc = "waiting" THEN inbox' = Takes(Heard(inbox, reply), reply) /\ Goes("resuming")
     ELSE inbox' = Kept(Heard(inbox, reply), reply) /\ UNCHANGED run

\* An answer to the call that waits; a message, whose key the run takes once.
Answer ==
  /\ Offer([at |-> inbox.question, by |-> "answer"])
  /\ UNCHANGED <<rowOpen, hub, vms, jobs, faults, stray>>
NeverTaken(key) == FALSE \* broken: a run does not remember the keys it took
TakenBefore(key) == \E reply \in inbox.accepted : reply.by = key
Message(key) ==
  /\ ~TakenBefore(key)
  /\ Offer([at |-> inbox.question, by |-> key])
  /\ UNCHANGED <<rowOpen, hub, vms, jobs, faults, stray>>

\* The wait timer, and a stop, offer their own end to a wait nothing ended yet.
WaitFails == inbox' = Closed(inbox) /\ Goes("leaving")
Expire ==
  /\ run.pc = "waiting" /\ inbox.slot = NoReply
  /\ WaitFails
  /\ UNCHANGED <<rowOpen, hub, vms, jobs, faults, stray>>
Stop ==
  /\ runOpen /\ ~run.stopped
  /\ IF run.pc = "waiting" /\ inbox.slot = NoReply
     THEN inbox' = Closed(inbox) /\ run' = [run EXCEPT !.stopped = TRUE, !.pc = "leaving"]
     ELSE run' = [run EXCEPT !.stopped = TRUE] /\ UNCHANGED inbox
  /\ UNCHANGED <<rowOpen, hub, vms, jobs, faults, stray>>

\* resume: a command, which wakes the machine, on the incarnation the run recorded, and the hold again.
Resume ==
  LET i == run.instance IN
  /\ run.pc = "resuming"
  /\ \/ \E m \in Machines :
          /\ Commands(i, m)
          /\ IF m = run.incarnation THEN Goes("holding") /\ Sets(i, "run") ELSE Goes("leaving") /\ UNCHANGED lane
          /\ UNCHANGED faults
     \/ /\ Faulty \/ (Machine(i) = {} /\ UNCHANGED faults)
        /\ Goes("leaving") /\ UNCHANGED <<vmOf, machines, lane>>
  /\ UNCHANGED <<rowOpen, inbox, hub, recorded, jobs, stray>>

-----------------------------------------------------------------------------
\* The run's exit

Leave ==
  /\ run.pc = "leaving"
  /\ LetsGo([run EXCEPT !.pc = IF run.instance = None THEN "ending" ELSE "settling"])
  /\ UNCHANGED <<rowOpen, inbox, hub, vmOf, machines, recorded, jobs, faults, stray>>

\* settle: the commands of the exit may wake the machine, so its idle window starts again; a
\* machine that is not the run's own is killed, with the conversation letting go of the instance first.
Retire(i) == entry' = None /\ used' = FALSE /\ retiring' = i /\ UNCHANGED <<session, opening>>
Settle ==
  LET i == run.instance
      own == run.incarnation # None /\ run.usable /\ vmOf[i] = run.incarnation
      Pauses == Sets(i, "idle") /\ Goes("ending") /\ UNCHANGED hub
      Kills == Goes("killing") /\ Retire(i) /\ UNCHANGED lane
  IN /\ run.pc = "settling"
     /\ \/ own /\ \E m \in Machines : Commands(i, m) /\ IF m = run.incarnation THEN Pauses ELSE Kills
        \/ own /\ Machine(i) = {} /\ Pauses /\ UNCHANGED <<vmOf, machines>>
        \/ ~own /\ run.started /\ Kills /\ UNCHANGED <<vmOf, machines>>
        \/ ~own /\ ~run.started /\ Goes("ending") /\ UNCHANGED <<hub, vmOf, lane, machines>>
     /\ UNCHANGED <<rowOpen, inbox, recorded, jobs, faults, stray>>
Gone(S) == machines' = [m \in Machines |-> IF m \in S /\ Alive(m) THEN [machines[m] EXCEPT !.state = "gone", !.old = FALSE] ELSE machines[m]]
Killed ==
  /\ run.pc = "killing"
  /\ \/ Gone({vmOf[run.instance]}) /\ UNCHANGED <<faults, stray>>
     \/ Faulty /\ UNCHANGED machines /\ stray' = (stray \/ lane[run.instance] # <<>>)
  /\ Goes("dropping")
  /\ UNCHANGED <<rowOpen, inbox, hub, vmOf, lane, recorded, jobs>>

\* retire: with or without a kill before it, the session goes, unless its deletion fails, which is logged; then
\* who waits for the end goes on.
DeletesSession == \/ session' = NoSession /\ UNCHANGED faults
                  \/ Faulty /\ UNCHANGED session
LetGoUntold == DeletesSession /\ UNCHANGED retiring \* broken: who waits for the end is never told
LetGo == DeletesSession /\ retiring' = None
Retired ==
  /\ retiring # None /\ run.pc # "killing"
  /\ LetGo
  /\ run' = IF run.pc = "dropping" THEN [run EXCEPT !.pc = "ending"] ELSE run
  /\ UNCHANGED <<rowOpen, inbox, entry, used, opening, vms, jobs, stray>>

\* The row frees the Project; then the session's release notes the use and the map lets the run go.
End ==
  /\ run.pc = "ending"
  /\ rowOpen' = FALSE /\ Goes("releasing")
  /\ UNCHANGED <<inbox, hub, vms, jobs, faults, stray>>
Release ==
  /\ run.pc = "releasing"
  /\ used' = (used \/ (run.prepared /\ entry # None))
  /\ run' = NoRun(run.n) /\ inbox' = NewInbox
  /\ UNCHANGED <<rowOpen, entry, retiring, session, opening, vms, jobs, faults, stray>>

-----------------------------------------------------------------------------
\* The browser and the jobs

\* A request of the browser opens the conversation too; the session may fail to open.
Follow ==
  /\ opening["browser"] = None /\ Finds("browser")
  /\ UNCHANGED <<run, rowOpen, inbox, retiring, session, lane, machines, recorded, jobs, faults, stray>>
Followed ==
  /\ opening["browser"] # None
  /\ \/ Joins("browser")
     \/ opening' = [opening EXCEPT !["browser"] = None] /\ UNCHANGED session
  /\ UNCHANGED <<run, rowOpen, inbox, entry, used, retiring, vms, jobs, faults, stray>>

\* idle-conversations: read, then checked again after the session was read.
Idle == entry # None /\ ~used /\ ~runOpen
SweepLooks ==
  /\ sweep = None /\ Idle
  /\ sweep' = entry
  /\ UNCHANGED <<run, rowOpen, inbox, hub, vms, reap, faults, stray>>
IdleAsRead == entry = sweep \* broken: as it was read before the session was
StillIdle == entry = sweep /\ Idle
SweepEnds ==
  /\ sweep # None /\ sweep' = None
  /\ IF StillIdle THEN Retire(sweep) ELSE UNCHANGED hub
  /\ UNCHANGED <<run, rowOpen, inbox, vms, reap, faults, stray>>

\* idle-machines: E2B's list, then the open runs, then the kill, whatever the machine does by then.
ReapLists ==
  LET idle == {m \in Machines : machines[m].state = "paused" /\ machines[m].old} IN
  /\ reap.pc = "off" /\ idle # {}
  /\ reap' = [pc |-> "listed", doomed |-> idle, seen |-> IF rowOpen THEN run.n ELSE 0]
  /\ UNCHANGED <<run, rowOpen, inbox, hub, vms, sweep, faults, stray>>
SparedIfWorking == rowOpen /\ run.pc # "waiting" \* broken: a run that waits on the person is not counted
Spared == rowOpen
ReapReads ==
  /\ reap.pc = "listed"
  /\ reap' = IF Spared THEN NoReap ELSE [reap EXCEPT !.pc = "killing"]
  /\ UNCHANGED <<run, rowOpen, inbox, hub, vms, sweep, faults, stray>>
ReapKills ==
  /\ reap.pc = "killing"
  /\ \/ Gone(reap.doomed) /\ UNCHANGED faults
     \/ Faulty /\ UNCHANGED machines
  /\ reap' = NoReap
  /\ UNCHANGED <<run, rowOpen, inbox, hub, vmOf, lane, recorded, sweep, stray>>

-----------------------------------------------------------------------------
\* Time, and E2B

Still == /\ (\A i \in Instances : lane[i] = <<>>) /\ run.pc \in {"none", "working", "waiting"} /\ retiring = None
         /\ opening["browser"] = None
Idles ==
  /\ used /\ Still
  /\ used' = FALSE
  /\ UNCHANGED <<run, rowOpen, inbox, entry, retiring, session, opening, vms, jobs, faults, stray>>
\* A deadline passes, unless a hold extends it.
Pauses(m) ==
  /\ Running(m) /\ Still
  /\ machines[m].deadline = "idle" \/ ~(run.held /\ vmOf[run.instance] = m)
  /\ machines' = [machines EXCEPT ![m].state = "paused"]
  /\ UNCHANGED <<run, rowOpen, inbox, hub, vmOf, lane, recorded, jobs, faults, stray>>
Ages(m) ==
  /\ machines[m].state = "paused" /\ ~machines[m].old /\ Still
  /\ machines' = [machines EXCEPT ![m].old = TRUE]
  /\ UNCHANGED <<run, rowOpen, inbox, hub, vmOf, lane, recorded, jobs, faults, stray>>
MachineLost(m) ==
  /\ Alive(m) /\ Faulty /\ Gone({m})
  /\ UNCHANGED <<run, rowOpen, inbox, hub, vmOf, lane, recorded, jobs, stray>>

Next ==
  \/ Begin \/ OpenSandbox \/ Start \/ Hold \/ FindSession \/ OpenSession \/ Keepalive \/ Lapse \/ Finish \/ Fails
  \/ Ask \/ Listen \/ Answer \/ (\E key \in Keys : Message(key)) \/ Expire \/ Stop \/ Resume
  \/ Leave \/ Settle \/ Killed \/ Retired \/ End \/ Release
  \/ Follow \/ Followed \/ SweepLooks \/ SweepEnds \/ ReapLists \/ ReapReads \/ ReapKills
  \/ Idles
  \/ \E i \in Instances : DeadlineLands(i)
  \/ \E m \in Machines : Pauses(m) \/ Ages(m) \/ MachineLost(m)

\* Every call ends, the agent's turn by its silence limit and a wait by its timer.
Fairness ==
  /\ WF_vars(OpenSandbox) /\ WF_vars(Start) /\ WF_vars(Hold) /\ WF_vars(Finish)
  /\ WF_vars(FindSession) /\ WF_vars(OpenSession)
  /\ WF_vars(Listen) /\ WF_vars(Expire) /\ WF_vars(Resume) /\ WF_vars(Leave) /\ WF_vars(Settle)
  /\ WF_vars(Killed) /\ WF_vars(Retired) /\ WF_vars(End) /\ WF_vars(Release)
  /\ \A i \in Instances : WF_vars(DeadlineLands(i))

Spec == Init /\ [][Next]_vars /\ Fairness

-----------------------------------------------------------------------------
\* Properties

\* Of the answers, the messages and their retries that race for a question, one is accepted,
\* no message is accepted twice, and what was accepted is what the run goes on with (question.ts
\* createInbox, run.ts message).
OneReplyEndsEachWait ==
  /\ \A a, b \in inbox.accepted : a.at = b.at \/ (a.by = b.by /\ a.by \in Keys) => a = b
  /\ \A a \in inbox.accepted : a \in inbox.ended \/ a = inbox.slot

\* However the waits, the exits and the next run's hold follow each other, a machine a run holds is
\* not on its way to be paused: the deadline set last is the run's (sandbox.ts #setDeadline). Each
\* instance waits for its own calls only, so the one exception is a machine whose kill failed while
\* the instance that was let go of had a deadline to set: the next instance resumes that machine.
HeldMachineStaysAwake ==
  run.held /\ Running(vmOf[run.instance]) /\ ~stray =>
    "run" = (IF lane[run.instance] = <<>> THEN machines[vmOf[run.instance]].deadline ELSE Last(lane[run.instance]))

\* From the moment it has its sandbox until it lets it go, a run has the conversation's own instance: no sweep, kill
\* or open of another caller is at work on it. And once it is prepared it works on no session but one of that instance,
\* though a deletion that failed, or an open that a kill overtook, leaves one of another instance or of none
\* (conversation.ts live, open, retire, sweep).
RunKeepsItsInstance ==
  run.pc \in Runs \ {"queued", "killing", "dropping", "ending", "releasing"} /\ run.instance # None =>
    /\ entry = run.instance /\ retiring = None
    /\ run.prepared => session \in {NoSession, SessionOn(run.instance)}

\* A run whose row stood when the idle machines were listed keeps its machine, waiting or
\* working (idle-machine-sweep.ts sweepIdleMachines).
ReaperSparesOpenRuns == [][ReapKills => ~rowOpen \/ reap.seen # run.n]_vars

\* Every run comes to rest, whatever it waits on: its sandbox, the deadline of its machine, the
\* person, or a sandbox that is let go of.
RunComesToRest == []<>(run.pc = "none")
=============================================================================
