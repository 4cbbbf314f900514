------------------------------ MODULE TurnSource ------------------------------
(***************************************************************************)
(* The source of a conversation's turns: the checkout in the machine, the   *)
(* mirror ref that saves it, the gate that judges it and main that admits   *)
(* it. BuilderRun says when a run ends and what its row says; here is which  *)
(* files are where.                                                         *)
(*                                                                         *)
(* Simplifications.                                                         *)
(*  - A tree is a value; a revision is a number, log[v] its tree and past.   *)
(*    Two commits of one tree are two revisions.                            *)
(*  - What the check says of an application is a function of its tree; a     *)
(*    page that does not render is admitted as one that does.               *)
(*  - The debounce and the queue of one edit-time write are one flag: an    *)
(*    end that clears the timer may find it fired or not.                   *)
(*  - The other conversations of the Project admit between turns, as one     *)
(*    run of a Project is open at a time.                                   *)
(*  - The agent is a choice of trees; waits on the person are left out.     *)
(***************************************************************************)
EXTENDS Naturals, Sequences, FiniteSets

CONSTANTS
  Trees,
  Starter,      \* the tree a Project begins with, which nothing judges
  Passing,      \* trees the check admits
  RedBudget,    \* GATE_RED_BUDGET
  MaxTurns,     \* bound: turns of the conversation
  MaxRevisions, \* bound: revisions made
  MaxFaults     \* bound: git, storage and machine failures

ASSUME TreesAssumption == Starter \in Trees /\ Passing \subseteq Trees
ASSUME BudgetAssumption == RedBudget \in Nat \ {0}
ASSUME BoundAssumption == MaxTurns \in Nat /\ MaxRevisions \in Nat \ {0} /\ MaxFaults \in Nat

VARIABLES
  log,      \* the revisions made: tree, and the revisions in the history, itself included
  main,
  mirror,   \* the conversation's ref, or None
  vm,       \* the conversation's machine: its checkout's files and the revisions it holds
  turn,     \* the turn under way: its number, its base, start and the mirror's head before it
  push,     \* push[n]: turn n's mirror, which may outlive the turn
  gate,     \* the turn's gate: what it pulled last, its verdicts, red finishes and the check under way
  faults

vars == <<log, main, mirror, vm, turn, push, gate, faults>>

None == 0
Turns == 1..MaxTurns
Revisions == 1..MaxRevisions
NoVm == [live |-> FALSE, tree |-> Starter, head |-> None, holds |-> {}]
Rest(n) == [n |-> n, pc |-> "rest", base |-> None, start |-> None, previous |-> None, alone |-> TRUE]
FreshGate == [pulled |-> None, passed |-> {}, failed |-> {}, reds |-> 0, checking |-> None]
NoPush == [start |-> None, expected |-> None, written |-> None, scheduled |-> FALSE, next |-> None,
           end |-> "over", target |-> None, source |-> FALSE, clean |-> FALSE]

Known == 1..Len(log)
Tree(v) == log[v].tree
Holds(v, u) == u \in log[v].past      \* u is v or an ancestor of it
Commit(t, parents, n) == [tree |-> t, by |-> n, past |-> {Len(log) + 1} \cup UNION {log[p].past : p \in parents}]
Makes(t, parents, n) == Len(log) < MaxRevisions /\ log' = Append(log, Commit(t, parents, n))
New == Len(log) + 1
Faulty == \* a failure of git, storage or the machine; free once the bound on revisions is reached
  \/ faults < MaxFaults /\ faults' = faults + 1
  \/ Len(log) = MaxRevisions /\ UNCHANGED faults

Working == {"working", "asking"}
Preparing == {"starting", "merging", "seeding"}
Concluding == {"concluding", "judging", "mirroring", "admitting"}

Ref == Known \cup {None}
Stages == {"rest", "leaving"} \cup Preparing \cup Working \cup Concluding
Push == [start : Ref, expected : Ref, written : Ref, scheduled : BOOLEAN, next : Ref,
         end : {"open", "snapshot", "candidate", "last", "over"}, target : Ref, source : BOOLEAN, clean : BOOLEAN]

LogTypeOK == \A v \in Known : Tree(v) \in Trees /\ log[v].by \in 0..turn.n /\ log[v].past \subseteq 1..v /\ v \in log[v].past
VmTypeOK == vm \in [live : BOOLEAN, tree : Trees, head : Ref, holds : SUBSET Known]
TurnTypeOK == turn \in [n : Turns \cup {0}, pc : Stages, base : Ref, start : Ref, previous : Ref, alone : BOOLEAN]
GateTypeOK == gate \in [pulled : Ref, passed : SUBSET Known, failed : SUBSET Known, reds : 0..RedBudget, checking : Ref]
TypeOK ==
  /\ LogTypeOK /\ VmTypeOK /\ TurnTypeOK /\ GateTypeOK
  /\ main \in Known /\ mirror \in Ref
  /\ push \in [Turns -> Push]
  /\ faults \in 0..MaxFaults

Init ==
  /\ log = <<[tree |-> Starter, by |-> 0, past |-> {1}]>>
  /\ main = 1 /\ mirror = None
  /\ vm = NoVm
  /\ turn = Rest(0)
  /\ push = [n \in Turns |-> NoPush]
  /\ gate = FreshGate
  /\ faults = 0

Goes(pc) == turn' = [turn EXCEPT !.pc = pc]

-----------------------------------------------------------------------------
\* The start of a turn

\* The run's row names main as its base; the machine is resumed, or made when there is none.
TurnBegins ==
  /\ turn.pc = "rest" /\ turn.n < MaxTurns
  /\ turn' = [Rest(turn.n + 1) EXCEPT !.pc = "starting", !.base = main]
  /\ vm' = IF vm.live THEN vm ELSE [NoVm EXCEPT !.live = TRUE]
  /\ gate' = FreshGate
  /\ UNCHANGED <<log, main, mirror, push, faults>>

\* startTurn reads the mirror, and merges main into it when neither holds the other.
Alone == \A n \in Turns : push[n].end = "over"
StartsAt(start, pc) == turn' = [turn EXCEPT !.start = start, !.previous = mirror, !.alone = Alone, !.pc = pc]
Within == mirror = None \/ Holds(turn.base, mirror)
Ahead == ~Within /\ Holds(mirror, turn.base)
StartTurn ==
  /\ turn.pc = "starting"
  /\ \/ Within /\ StartsAt(turn.base, "seeding") /\ UNCHANGED <<log, faults>>
     \/ Ahead /\ StartsAt(mirror, "seeding") /\ UNCHANGED <<log, faults>>
     \/ /\ ~Within /\ ~Ahead
        /\ \E t \in Trees : Makes(t, {mirror, turn.base}, turn.n)
        /\ StartsAt(New, "merging")
        /\ UNCHANGED faults
     \/ Faulty /\ Goes("leaving") /\ UNCHANGED log
  /\ UNCHANGED <<main, mirror, vm, push, gate>>

\* moveRef: a compare and swap, which converges when the ref is at `next` already.
MoveAnywhere(expected, next) == mirror' = next \* broken: the ref moves whatever it holds
MoveRef(expected, next) == mirror \in {expected, next} /\ mirror' = next
RefMoved(expected, next) == mirror \notin {expected, next}

MergeLands ==
  /\ turn.pc = "merging"
  /\ \/ MoveRef(turn.previous, turn.start) /\ Goes("seeding") /\ UNCHANGED faults
     \/ RefMoved(turn.previous, turn.start) /\ Goes("leaving") /\ UNCHANGED <<mirror, faults>>
     \/ Faulty /\ Goes("leaving") /\ (UNCHANGED mirror \/ MoveRef(turn.previous, turn.start))
  /\ UNCHANGED <<log, main, vm, push, gate>>

\* The mirror of the turn starts from the head startTurn left.
Opened == [start |-> turn.start, expected |-> IF turn.start = turn.base THEN turn.previous ELSE turn.start,
           written |-> None, scheduled |-> FALSE, next |-> None, end |-> "open", target |-> None,
           source |-> TRUE, clean |-> turn.alone]

\* What the bundle carries is the refs as they are by now.
Bundled == turn.base = main /\ (turn.start = turn.base \/ mirror = turn.start)
Taken(tree) ==
  /\ vm' = [vm EXCEPT !.tree = tree, !.head = turn.start,
                      !.holds = @ \cup log[turn.start].past \cup log[turn.base].past]
  /\ push' = [push EXCEPT ![turn.n] = Opened]
  /\ Goes("working")

\* A machine that kept the files of the mirror's last head takes the start in place, and keeps what was
\* changed since; git may refuse to, and the checkout is seeded again.
Previous == IF turn.previous = None THEN vm.head ELSE turn.previous
Kept == Previous \in vm.holds
Disturbed == Kept /\ vm.tree # Tree(Previous) /\ Tree(turn.start) # Tree(Previous)
Resumed ==
  /\ Kept /\ (turn.start \in vm.holds \/ Bundled)
  /\ \/ vm.tree = Tree(Previous) /\ Taken(Tree(turn.start))
     \/ Tree(turn.start) = Tree(Previous) /\ Taken(vm.tree)
     \/ Disturbed /\ \E t \in Trees : Taken(t)
Seeded == (~Kept \/ Disturbed) /\ Bundled /\ Taken(Tree(turn.start))
StartCheckout ==
  /\ turn.pc = "seeding" /\ vm.live
  /\ Resumed \/ Seeded
  /\ UNCHANGED <<log, main, mirror, gate, faults>>

\* A checkout that takes no start is one the run kills with its machine.
LosesVm ==
  /\ vm' = NoVm
  /\ push' = [n \in Turns |-> [push[n] EXCEPT !.source = FALSE]]
SeedFails ==
  /\ turn.pc = "seeding"
  /\ \/ ~vm.live /\ UNCHANGED faults
     \/ ~Bundled /\ (~Kept \/ turn.start \notin vm.holds \/ Disturbed) /\ UNCHANGED faults
     \/ Faulty
  /\ LosesVm
  /\ Goes("leaving")
  /\ UNCHANGED <<log, main, mirror, gate>>

-----------------------------------------------------------------------------
\* The agent and the gate

\* A tool that writes schedules a write of the mirror; a process it left running does not.
Edit ==
  /\ turn.pc \in Working /\ vm.live
  /\ \E t \in Trees \ {vm.tree} : vm' = [vm EXCEPT !.tree = t]
  /\ push' \in {push, [push EXCEPT ![turn.n].scheduled = TRUE]}
  /\ UNCHANGED <<log, main, mirror, turn, gate, faults>>

\* The checkout as a revision: none when nothing changed, an earlier one when that is what it is, else one
\* made on the turn's start.
Snapshot(unchanged, same) ==
  IF vm.tree = Tree(unchanged) THEN None ELSE IF same # None /\ vm.tree = Tree(same) THEN same ELSE New
Snapped(n, start, v) ==
  \/ v # New /\ UNCHANGED <<log, vm>>
  \/ v = New /\ Makes(vm.tree, {start}, n) /\ vm' = [vm EXCEPT !.holds = @ \cup {New}]

\* The gate's candidate: what the checkout is now, else the start, which may hold work main has not.
Pulled == Snapshot(turn.start, gate.pulled)
Candidate == IF Pulled # None THEN Pulled ELSE IF turn.start = turn.base THEN None ELSE turn.start
Gate == [gate EXCEPT !.pulled = Pulled]
Pulls == vm.live /\ Snapped(turn.n, turn.start, Pulled)
PullFails ==
  /\ (~vm.live /\ UNCHANGED faults) \/ Faulty
  /\ UNCHANGED <<log, vm, gate>>

\* A revision is judged once; what failed on the side of Conexus is not kept.
PassedOrStart(g) == g.passed \cup {turn.start} \* broken: what the turn began with is not judged again
Passed(g) == g.passed
Judged(g) == g.failed \cup Passed(g)
Verdict(v) == IF Tree(v) \in Passing THEN [gate EXCEPT !.passed = @ \cup {v}, !.checking = None]
                                     ELSE [gate EXCEPT !.failed = @ \cup {v}, !.checking = None]

\* finish: a red check goes back to the agent until the budget is spent; anything else completes the turn.
AnswersOnceMore(g, v) == \* broken: the finish that spends the budget goes back too
  IF v \in g.failed
  THEN /\ gate' = [g EXCEPT !.reds = @ + 1]
       /\ Goes(IF g.reds + 1 > RedBudget THEN "concluding" ELSE "working")
  ELSE gate' = g /\ Goes("concluding")
Answers(g, v) ==
  IF v \in g.failed
  THEN /\ gate' = [g EXCEPT !.reds = @ + 1]
       /\ Goes(IF g.reds + 1 >= RedBudget THEN "concluding" ELSE "working")
  ELSE gate' = g /\ Goes("concluding")
Asked(g, v) ==
  IF v = None \/ v \in Judged(g) THEN Answers(g, v)
  ELSE gate' = [g EXCEPT !.checking = v] /\ Goes("asking")
Done ==
  /\ turn.pc = "working"
  /\ \/ Pulls /\ Asked(Gate, Candidate) /\ UNCHANGED faults
     \/ PullFails /\ Goes("concluding")
  /\ UNCHANGED <<main, mirror, push>>
FinishChecked ==
  /\ turn.pc = "asking"
  /\ \/ Answers(Verdict(gate.checking), gate.checking) /\ UNCHANGED faults
     \/ Faulty /\ gate' = [gate EXCEPT !.checking = None] /\ Goes("concluding")
  /\ UNCHANGED <<log, main, mirror, vm, push>>

-----------------------------------------------------------------------------
\* The end of a turn

\* The turn's last write is queued behind the others; a write the debounce still holds is dropped.
Ends(n, end, target) ==
  \E queued \in {FALSE, push[n].scheduled} :
    push' = [push EXCEPT ![n] = [@ EXCEPT !.end = end, !.target = target, !.scheduled = queued]]
Settles(g, v) ==
  /\ gate' = g
  /\ Ends(turn.n, IF v = None THEN "snapshot" ELSE "candidate", v)
  /\ Goes("mirroring")

\* conclude: the agent's processes are gone, and the checkout is pulled once more.
ConcludeAsFinished == \* broken: by what the finish pulled, and not again
  /\ turn.pc = "concluding"
  /\ IF gate.pulled \in Judged(gate) \/ gate.pulled = None
     THEN Settles(gate, gate.pulled)
     ELSE gate' = gate /\ Goes("leaving") /\ UNCHANGED push
  /\ UNCHANGED <<log, main, mirror, vm, faults>>
Conclude ==
  LET Settle(g, v) == IF v = None \/ v \in Judged(g) THEN Settles(g, v)
                      ELSE gate' = [g EXCEPT !.checking = v] /\ Goes("judging") /\ UNCHANGED push
  IN /\ turn.pc = "concluding"
     /\ \/ Pulls /\ Settle(Gate, Candidate) /\ UNCHANGED faults
        \/ PullFails /\ Goes("leaving") /\ UNCHANGED push
     /\ UNCHANGED <<main, mirror>>
SettleChecked ==
  /\ turn.pc = "judging"
  /\ \/ Settles(Verdict(gate.checking), gate.checking) /\ UNCHANGED faults
     \/ Faulty /\ gate' = [gate EXCEPT !.checking = None] /\ Goes("leaving") /\ UNCHANGED push
  /\ UNCHANGED <<log, main, mirror, vm>>

\* Only a revision the gate passed goes on to main; a refused one stays in the conversation.
Mirrored ==
  /\ turn.pc = "mirroring" /\ push[turn.n].end = "over"
  /\ Goes(IF push[turn.n].target \in Passed(gate) THEN "admitting" ELSE "leaving")
  /\ UNCHANGED <<log, main, mirror, vm, push, gate, faults>>
Admit ==
  /\ turn.pc = "admitting" /\ main = turn.base
  /\ main' = push[turn.n].target
  /\ Goes("leaving")
  /\ UNCHANGED <<log, mirror, vm, push, gate, faults>>

\* A stop, or any failure, ends what the turn was at; the wait on the last write of the mirror goes on.
Fails ==
  /\ turn.pc \notin {"rest", "leaving", "mirroring"}
  /\ Goes("leaving")
  /\ UNCHANGED <<log, main, mirror, vm, push, gate, faults>>

\* The exit kills what the agent left running and mirrors the checkout, if the machine is still the run's own.
ExitUnlessLost == \* broken: the mirror of a lost machine is left open
  /\ turn.pc = "leaving" /\ push[turn.n].end = "open" /\ push[turn.n].source
  /\ Ends(turn.n, "snapshot", gate.pulled)
  /\ UNCHANGED <<log, main, mirror, vm, turn, gate, faults>>
Exit ==
  LET p == push[turn.n] IN
  /\ turn.pc = "leaving" /\ p.end = "open"
  /\ IF p.source THEN Ends(turn.n, "snapshot", gate.pulled)
     ELSE push' = [push EXCEPT ![turn.n] = [p EXCEPT !.end = IF p.next = None THEN "over" ELSE "last", !.scheduled = FALSE]]
  /\ UNCHANGED <<log, main, mirror, vm, turn, gate, faults>>

\* It waits for the mirror no longer than FAILED_TURN_MIRROR_MS: the write may go on behind the next turn.
TurnOver ==
  /\ turn.pc = "leaving" /\ push[turn.n].end # "open"
  /\ turn' = Rest(turn.n)
  /\ UNCHANGED <<log, main, mirror, vm, push, gate, faults>>

-----------------------------------------------------------------------------
\* The mirror's chain: one write at a time, the turn's last write at its end

\* A write is made when the checkout is not what the turn wrote last, or began with.
UnchangedFromStart(p) == p.start \* broken: what was written and taken back is never written again
UnchangedFrom(p) == IF p.written = None THEN p.start ELSE p.written
PushBegins(n) ==
  LET p == push[n]
      last == ~p.scheduled
      made == Snapshot(UnchangedFrom(p), IF last THEN p.target ELSE None)
      To(v, clean) == push' = [push EXCEPT ![n] = [p EXCEPT !.scheduled = FALSE, !.next = v, !.clean = clean,
                                                            !.end = IF ~last THEN @ ELSE IF v = None THEN "over" ELSE "last"]]
  IN /\ p.next = None /\ (p.scheduled \/ p.end = "snapshot")
     /\ \/ p.source /\ Snapped(n, p.start, made) /\ To(made, p.clean) /\ UNCHANGED faults
        \/ ~p.source /\ To(None, FALSE) /\ UNCHANGED <<log, vm, faults>>
        \/ Faulty /\ To(None, FALSE) /\ UNCHANGED <<log, vm>>
     /\ UNCHANGED <<main, mirror, turn, gate>>
EndsWithCandidate(n) ==
  /\ push[n].end = "candidate" /\ push[n].next = None /\ ~push[n].scheduled
  /\ push' = [push EXCEPT ![n] = [@ EXCEPT !.next = push[n].target, !.end = "last"]]
  /\ UNCHANGED <<log, main, mirror, vm, turn, gate, faults>>

\* The head the next write expects is the one this write is known to have left.
PushLands(n) ==
  LET p == push[n]
      After(head, clean) == push' = [push EXCEPT ![n] = [head EXCEPT !.next = None, !.clean = clean,
                                                               !.end = IF @ = "last" THEN "over" ELSE @]]
  IN /\ p.next # None
     /\ \/ MoveRef(p.expected, p.next) /\ After([p EXCEPT !.expected = p.next, !.written = p.next], p.clean) /\ UNCHANGED faults
        \/ RefMoved(p.expected, p.next) /\ After(p, p.clean) /\ UNCHANGED <<mirror, faults>>
        \/ Faulty /\ After(p, FALSE) /\ (UNCHANGED mirror \/ MoveRef(p.expected, p.next))
     /\ UNCHANGED <<log, main, vm, turn, gate>>

-----------------------------------------------------------------------------
\* The world

\* An idle machine is reaped between turns; one that is lost under a turn is a fault.
VmLost ==
  /\ vm.live
  /\ (turn.pc = "rest" /\ UNCHANGED faults) \/ (turn.pc # "rest" /\ Faulty)
  /\ LosesVm
  /\ UNCHANGED <<log, main, mirror, turn, gate>>
OthersAdmit ==
  /\ turn.pc = "rest"
  /\ \E t \in Passing : Makes(t, {main}, 0)
  /\ main' = New
  /\ UNCHANGED <<mirror, vm, turn, push, gate, faults>>

Step ==
  \/ StartTurn \/ MergeLands \/ StartCheckout \/ SeedFails
  \/ Done \/ FinishChecked
  \/ Conclude \/ SettleChecked \/ Mirrored \/ Admit \/ Exit \/ TurnOver
  \/ \E n \in Turns : PushBegins(n) \/ EndsWithCandidate(n) \/ PushLands(n)
Next == Step \/ TurnBegins \/ Edit \/ Fails \/ VmLost \/ OthersAdmit

Fairness ==
  /\ WF_vars(StartTurn) /\ WF_vars(MergeLands) /\ WF_vars(StartCheckout \/ SeedFails)
  /\ WF_vars(Done) /\ WF_vars(FinishChecked) /\ WF_vars(Conclude) /\ WF_vars(SettleChecked)
  /\ WF_vars(Mirrored) /\ WF_vars(Admit) /\ WF_vars(Exit) /\ WF_vars(TurnOver)
  /\ \A n \in Turns : WF_vars(PushBegins(n)) /\ WF_vars(EndsWithCandidate(n)) /\ WF_vars(PushLands(n))

Spec == Init /\ [][Next]_vars /\ Fairness

-----------------------------------------------------------------------------
\* Properties

\* Whatever turns, merges and stale verdicts come together, main only holds what
\* the check passed (judge.ts, candidate-gate.ts).
MainPassesTheCheck == main = 1 \/ Tree(main) \in Passing

\* What a run admits is what its turn left in the checkout: nothing the agent or a
\* process of its changed after the gate looked is lost or slipped in (run.ts conclude).
AdmittedIsWhatTheTurnLeft == [][Admit /\ vm.live => Tree(main') = vm.tree]_vars

\* A turn whose writes met no fault, and no write of an earlier turn, ends with the
\* mirror, or the start it never left, holding the checkout as it is (mirror.ts end).
EndedTurnIsMirrored ==
  LET p == push[turn.n] IN
  turn.n > 0 /\ turn.pc = "rest" /\ p.source /\ p.clean /\ p.end = "over" =>
    IF p.written = None THEN vm.tree = Tree(p.start) ELSE mirror = p.written /\ Tree(mirror) = vm.tree

\* What of main was brought into a conversation stays in its mirror. A write that outlived
\* its turn may replace what that turn left, and no work of a later one (conexus-git.ts startTurn, moveRef).
MirrorKeepsMain ==
  [][mirror # None =>
       \/ log[mirror].past \cap log[main].past \subseteq log'[mirror'].past
       \/ log[mirror].by <= log'[mirror'].by /\ log'[mirror'].by < turn.n]_mirror

\* Every turn ends, however often its check is red and whatever write of the mirror hangs.
TurnEnds == []<>(turn.pc = "rest")
=============================================================================
