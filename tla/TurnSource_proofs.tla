--------------------------- MODULE TurnSource_proofs ---------------------------
(***************************************************************************)
(* What holds of a conversation's source for any trees, any check, any      *)
(* budget of red checks and any number of turns, revisions and faults.      *)
(***************************************************************************)
EXTENDS TurnSource, SequenceTheorems, TLAPS

-----------------------------------------------------------------------------
(* The inductive invariant *)

\* What was made stays in the history of all that was made on it.
LogFollows ==
  /\ log \in Seq([tree : Trees, by : Nat, past : SUBSET Nat]) /\ log # <<>>
  /\ \A v \in Known : \A u \in log[v].past : log[u].past \subseteq log[v].past

Unopened(p) == p.end = "over" /\ ~p.clean
Started == {"merging", "seeding"} \cup Working \cup Concluding

\* Where a turn is says what it has: its base, its start, its push and its gate.
StageFollows ==
  /\ turn.pc # "rest" => turn.n \in Turns /\ turn.base \in Known
  /\ turn.pc \in Started => turn.start \in Known
  /\ turn.pc \in Preparing => gate = FreshGate /\ main = turn.base /\ Unopened(push[turn.n])
  /\ turn.pc \in Working \cup {"concluding", "judging"} => push[turn.n].end = "open"
  /\ turn.pc \in {"mirroring", "admitting"} => push[turn.n].end # "open"
  /\ turn.pc = "admitting" => push[turn.n].end = "over" /\ push[turn.n].target \in gate.passed
  /\ turn.pc \in {"asking", "judging"} => gate.checking \in Known
  /\ turn.pc = "judging" => gate.checking \in {turn.start, gate.pulled}
  /\ turn.pc \in Preparing \cup Working => gate.reds < RedBudget
  /\ turn.pc = "merging" => turn.start # turn.base /\ log[turn.base].past \subseteq log[turn.start].past
  /\ turn.pc \in {"merging", "seeding"} /\ turn.start = turn.base =>
       turn.previous = None \/ turn.previous \in log[turn.base].past
  /\ turn.pc # "rest" /\ push[turn.n].end # "over" => turn.start \in Known /\ push[turn.n].start = turn.start

\* Where a turn's push is says what it still has to write.
PushesFollow ==
  \A n \in Turns : LET p == push[n] IN
    /\ n > turn.n => Unopened(p)
    /\ p.end # "over" \/ p.clean => p.start \in Known
    /\ p.end = "over" => p.next = None /\ ~p.scheduled
    /\ p.end = "last" => p.next # None /\ ~p.scheduled
    /\ p.end = "open" => n = turn.n /\ turn.pc # "rest"
    /\ p.end = "candidate" => n = turn.n /\ turn.pc = "mirroring" /\ p.target \in Known
    /\ p.source => vm.live

\* A revision the turn made on its start.
MadeOn(v, start, n) == log[v].by = n /\ log[v].past = {v} \cup log[start].past

\* What a push expects and what it writes are the start, what is in its history, or what the turn made on it.
WritesOf(n) ==
  LET p == push[n] IN p.end # "over" =>
    /\ p.expected # None => log[p.expected].by <= n /\ (p.expected \in log[p.start].past \/ MadeOn(p.expected, p.start, n))
    /\ p.next # None => MadeOn(p.next, p.start, n) \/ (p.next = p.start /\ n = turn.n /\ turn.pc = "mirroring")
    /\ p.end = "snapshot" /\ p.target # None => MadeOn(p.target, p.start, n)
    /\ p.end = "candidate" => p.target = p.start \/ MadeOn(p.target, p.start, n)
WritesFollow ==
  /\ turn.pc # "rest" /\ gate.pulled # None => turn.start \in Known /\ MadeOn(gate.pulled, turn.start, turn.n)
  /\ \A n \in Turns : WritesOf(n)

\* Until its push is over, nothing the turn made is in main.
MainIsBefore ==
  turn.pc \in Preparing \/ (turn.n > 0 /\ push[turn.n].end # "over") =>
    \A v \in log[main].past : log[v].by # turn.n

\* The verdicts a gate keeps are the check's.
PassesTheCheck == MainPassesTheCheck /\ \A v \in gate.passed : Tree(v) \in Passing

\* From the pull on, what is judged, mirrored and admitted is the checkout.
CheckoutStays ==
  vm.live =>
    /\ turn.pc = "judging" => Tree(gate.checking) = vm.tree
    /\ turn.pc \in {"mirroring", "admitting"} /\ push[turn.n].target # None => Tree(push[turn.n].target) = vm.tree

\* A turn that began with no push under way is alone with the mirror, which is what its push expects.
AloneWithTheMirror ==
  LET Over(n) == push[n].end = "over" IN
  /\ turn.pc \in {"merging", "seeding"} /\ turn.alone => \A n \in Turns : Over(n)
  /\ turn.pc = "seeding" /\ turn.alone => mirror = IF turn.start = turn.base THEN turn.previous ELSE turn.start
  /\ turn.n > 0 /\ push[turn.n].clean => LET p == push[turn.n] IN
       /\ \A n \in Turns \ {turn.n} : Over(n)
       /\ mirror = p.expected
       /\ p.written # None => p.written = p.expected
       /\ p.source /\ p.end = "last" => Tree(p.next) = vm.tree
       /\ p.source /\ p.end = "over" => Tree(UnchangedFrom(p)) = vm.tree



-----------------------------------------------------------------------------
(* What a step does to a push *)

LEMMA EndsFields ==
  ASSUME push \in [Turns -> Push], NEW n \in Turns, NEW end \in {"snapshot", "candidate"}, NEW target \in Ref, Ends(n, end, target)
  PROVE  /\ push' \in [Turns -> Push]
         /\ \A other \in Turns \ {n} : push'[other] = push[other]
         /\ push'[n].end = end /\ push'[n].target = target
         /\ push'[n].start = push[n].start /\ push'[n].expected = push[n].expected /\ push'[n].written = push[n].written
         /\ push'[n].next = push[n].next /\ push'[n].source = push[n].source /\ push'[n].clean = push[n].clean
<1>1. PICK queued \in BOOLEAN : push' = [push EXCEPT ![n] = [push[n] EXCEPT !.end = end, !.target = target, !.scheduled = queued]]
  BY DEF Ends, Push
<1> QED BY <1>1 DEF Push

LEMMA ExitFields ==
  ASSUME push \in [Turns -> Push], NEW n \in Turns,
         push' = [push EXCEPT ![n] = [push[n] EXCEPT !.end = IF push[n].next = None THEN "over" ELSE "last", !.scheduled = FALSE]]
  PROVE  /\ push' \in [Turns -> Push]
         /\ \A other \in Turns \ {n} : push'[other] = push[other]
         /\ push'[n].end = (IF push[n].next = None THEN "over" ELSE "last") /\ ~push'[n].scheduled
         /\ push'[n].start = push[n].start /\ push'[n].expected = push[n].expected /\ push'[n].written = push[n].written
         /\ push'[n].next = push[n].next /\ push'[n].target = push[n].target
         /\ push'[n].source = push[n].source /\ push'[n].clean = push[n].clean
  BY DEF Push

LEMMA BeginsFields ==
  ASSUME push \in [Turns -> Push], NEW n \in Turns, NEW v \in Ref, NEW clean \in BOOLEAN, NEW last \in BOOLEAN,
         push' = [push EXCEPT ![n] = [push[n] EXCEPT !.scheduled = FALSE, !.next = v, !.clean = clean,
                                                     !.end = IF ~last THEN @ ELSE IF v = None THEN "over" ELSE "last"]]
  PROVE  /\ push' \in [Turns -> Push]
         /\ \A other \in Turns \ {n} : push'[other] = push[other]
         /\ push'[n].end = (IF ~last THEN push[n].end ELSE IF v = None THEN "over" ELSE "last")
         /\ ~push'[n].scheduled /\ push'[n].next = v /\ push'[n].clean = clean
         /\ push'[n].start = push[n].start /\ push'[n].expected = push[n].expected /\ push'[n].written = push[n].written
         /\ push'[n].target = push[n].target /\ push'[n].source = push[n].source
<1>1. (IF ~last THEN push[n].end ELSE IF v = None THEN "over" ELSE "last") \in {"open", "snapshot", "candidate", "last", "over"}
  BY DEF Push
<1> QED BY <1>1 DEF Push

LEMMA CandidateFields ==
  ASSUME push \in [Turns -> Push], NEW n \in Turns, EndsWithCandidate(n)
  PROVE  /\ push' \in [Turns -> Push]
         /\ \A other \in Turns \ {n} : push'[other] = push[other]
         /\ push'[n].end = "last" /\ push'[n].next = push[n].target /\ push'[n].scheduled = push[n].scheduled
         /\ push'[n].start = push[n].start /\ push'[n].expected = push[n].expected /\ push'[n].written = push[n].written
         /\ push'[n].target = push[n].target /\ push'[n].source = push[n].source /\ push'[n].clean = push[n].clean
  BY DEF Push, EndsWithCandidate

\* A write that landed where it was to, and one that did not.
LEMMA LandedFields ==
  ASSUME push \in [Turns -> Push], NEW n \in Turns, NEW clean \in BOOLEAN,
         push' = [push EXCEPT ![n] = [[push[n] EXCEPT !.expected = push[n].next, !.written = push[n].next]
                                      EXCEPT !.next = None, !.clean = clean, !.end = IF @ = "last" THEN "over" ELSE @]]
  PROVE  /\ push' \in [Turns -> Push]
         /\ \A other \in Turns \ {n} : push'[other] = push[other]
         /\ push'[n].end = (IF push[n].end = "last" THEN "over" ELSE push[n].end) /\ push'[n].scheduled = push[n].scheduled
         /\ push'[n].expected = push[n].next /\ push'[n].written = push[n].next
         /\ push'[n].next = None /\ push'[n].clean = clean
         /\ push'[n].start = push[n].start /\ push'[n].target = push[n].target /\ push'[n].source = push[n].source
<1> DEFINE head == [push[n] EXCEPT !.expected = push[n].next, !.written = push[n].next]
<1>1. /\ head \in Push /\ head.end = push[n].end /\ head.scheduled = push[n].scheduled
      /\ head.expected = push[n].next /\ head.written = push[n].next
      /\ head.start = push[n].start /\ head.target = push[n].target /\ head.source = push[n].source
  BY DEF Push
<1>2. push' = [push EXCEPT ![n] = [head EXCEPT !.next = None, !.clean = clean, !.end = IF @ = "last" THEN "over" ELSE @]]
  OBVIOUS
<1> HIDE DEF head
<1>3. [head EXCEPT !.next = None, !.clean = clean, !.end = IF @ = "last" THEN "over" ELSE @] \in Push
  BY <1>1 DEF Push, Ref
<1>4. push' \in [Turns -> Push] /\ \A other \in Turns \ {n} : push'[other] = push[other]
  BY <1>2, <1>3
<1>5. push'[n] = [head EXCEPT !.next = None, !.clean = clean, !.end = IF @ = "last" THEN "over" ELSE @]
  BY <1>2
<1> QED BY <1>1, <1>4, <1>5 DEF Push

LEMMA UnlandedFields ==
  ASSUME push \in [Turns -> Push], NEW n \in Turns, NEW clean \in BOOLEAN,
         push' = [push EXCEPT ![n] = [push[n] EXCEPT !.next = None, !.clean = clean, !.end = IF @ = "last" THEN "over" ELSE @]]
  PROVE  /\ push' \in [Turns -> Push]
         /\ \A other \in Turns \ {n} : push'[other] = push[other]
         /\ push'[n].end = (IF push[n].end = "last" THEN "over" ELSE push[n].end) /\ push'[n].scheduled = push[n].scheduled
         /\ push'[n].expected = push[n].expected /\ push'[n].written = push[n].written
         /\ push'[n].next = None /\ push'[n].clean = clean
         /\ push'[n].start = push[n].start /\ push'[n].target = push[n].target /\ push'[n].source = push[n].source
  BY ZenonT(60) DEF Push, Ref

LEMMA LostFields ==
  ASSUME push \in [Turns -> Push], LosesVm
  PROVE  /\ push' \in [Turns -> Push] /\ ~vm'.live
         /\ \A n \in Turns :
              /\ ~push'[n].source
              /\ push'[n].end = push[n].end /\ push'[n].scheduled = push[n].scheduled /\ push'[n].start = push[n].start
              /\ push'[n].expected = push[n].expected /\ push'[n].written = push[n].written /\ push'[n].next = push[n].next
              /\ push'[n].target = push[n].target /\ push'[n].clean = push[n].clean
<1>1. push' = [n \in Turns |-> [push[n] EXCEPT !.source = FALSE]] /\ ~vm'.live
  BY DEF LosesVm, NoVm
<1>2. \A n \in Turns : push[n] \in Push /\ push'[n] = [push[n] EXCEPT !.source = FALSE]
  BY <1>1
<1>3. \A p \in Push :
        /\ [p EXCEPT !.source = FALSE] \in Push
        /\ LET q == [p EXCEPT !.source = FALSE] IN
             /\ ~q.source
             /\ q.end = p.end /\ q.scheduled = p.scheduled /\ q.start = p.start /\ q.expected = p.expected
             /\ q.written = p.written /\ q.next = p.next /\ q.target = p.target /\ q.clean = p.clean
  BY DEF Push
<1>4. push' \in [Turns -> Push]
  BY <1>1, <1>2, <1>3
<1> QED BY <1>1, <1>2, <1>3, <1>4

LEMMA EditFields ==
  ASSUME push \in [Turns -> Push], NEW n \in Turns, push' \in {push, [push EXCEPT ![n].scheduled = TRUE]}
  PROVE  /\ push' \in [Turns -> Push]
         /\ \A other \in Turns \ {n} : push'[other] = push[other]
         /\ push'[n].end = push[n].end /\ push'[n].start = push[n].start
         /\ push'[n].expected = push[n].expected /\ push'[n].written = push[n].written /\ push'[n].next = push[n].next
         /\ push'[n].target = push[n].target /\ push'[n].source = push[n].source /\ push'[n].clean = push[n].clean
<1>1. CASE push' = push
  BY <1>1
<1>2. CASE push' = [push EXCEPT ![n].scheduled = TRUE]
  <2>1. \A p \in Push :
          /\ [p EXCEPT !.scheduled = TRUE] \in Push
          /\ LET q == [p EXCEPT !.scheduled = TRUE] IN
               /\ q.end = p.end /\ q.start = p.start /\ q.expected = p.expected /\ q.written = p.written
               /\ q.next = p.next /\ q.target = p.target /\ q.source = p.source /\ q.clean = p.clean
    BY DEF Push
  <2>2. push'[n] = [push[n] EXCEPT !.scheduled = TRUE] /\ \A other \in Turns \ {n} : push'[other] = push[other]
    BY <1>2
  <2>3. push' \in [Turns -> Push]
    BY <1>2, <2>1
  <2> QED BY <2>1, <2>2, <2>3
<1> QED BY <1>1, <1>2

LEMMA OpenedFields ==
  ASSUME turn.start \in Ref, turn.previous \in Ref, turn.alone \in BOOLEAN
  PROVE  /\ Opened \in Push /\ Opened.start = turn.start /\ Opened.written = None /\ Opened.next = None /\ ~Opened.scheduled
         /\ Opened.expected = (IF turn.start = turn.base THEN turn.previous ELSE turn.start)
         /\ Opened.end = "open" /\ Opened.target = None /\ Opened.source /\ Opened.clean = turn.alone
  BY DEF Push, Opened, Ref

LEMMA NoPushFields ==
  /\ NoPush \in Push /\ NoPush.end = "over" /\ NoPush.next = None /\ ~NoPush.scheduled /\ ~NoPush.source /\ ~NoPush.clean
  BY DEF Push, NoPush, Ref

-----------------------------------------------------------------------------
(* The revisions that are made *)

LEMMA MakesFollow ==
  ASSUME LogFollows, LogTypeOK, turn.n \in Nat, turn'.n = turn.n,
         NEW t \in Trees, NEW parents \in SUBSET Known, NEW n \in 0..turn.n, Makes(t, parents, n)
  PROVE  /\ New \notin Known /\ New # None /\ Known' = Known \cup {New}
         /\ \A v \in Known : log'[v] = log[v]
         /\ log'[New].tree = t /\ log'[New].by = n
         /\ log'[New].past = {New} \cup UNION {log[p].past : p \in parents}
         /\ LogFollows' /\ LogTypeOK'
<1> DEFINE c == Commit(t, parents, n)
<1>1. Len(log) \in Nat /\ log' = Append(log, c)
  BY DEF Makes, LogFollows
<1>2. c.tree = t /\ c.by = n /\ c.past = {New} \cup UNION {log[p].past : p \in parents}
  BY DEF Commit, New
<1>3. c.past \subseteq 1..New
  BY <1>1, <1>2 DEF LogTypeOK, Known, New
<1>4. c \in [tree : Trees, by : Nat, past : SUBSET Nat]
  <2>1. c.past \in SUBSET Nat /\ n \in Nat
    BY <1>1, <1>3 DEF New
  <2>2. c = [tree |-> t, by |-> n, past |-> c.past]
    BY DEF Commit
  <2> HIDE DEF c
  <2> QED BY <2>1, <2>2
<1> HIDE DEF c
<1>5. /\ log' \in Seq([tree : Trees, by : Nat, past : SUBSET Nat]) /\ Len(log') = Len(log) + 1
      /\ \A v \in 1..Len(log) : log'[v] = log[v]
      /\ log'[Len(log) + 1] = c
  BY <1>1, <1>4 DEF LogFollows
<1>6. Known' = Known \cup {New} /\ New \notin Known /\ New # None /\ log'[New] = c /\ \A v \in Known : log'[v] = log[v]
  BY <1>1, <1>5 DEF Known, New, None
<1>7. LogTypeOK'
  <2>1. \A v \in Known : Tree(v)' \in Trees /\ log'[v].by \in 0..turn.n /\ log'[v].past \subseteq 1..v /\ v \in log'[v].past
    BY <1>6 DEF LogTypeOK, Tree
  <2>2. log'[New].tree \in Trees /\ log'[New].by \in 0..turn.n /\ log'[New].past \subseteq 1..New /\ New \in log'[New].past
    BY <1>2, <1>3, <1>6
  <2> QED BY <1>6, <2>1, <2>2 DEF LogTypeOK, Tree
<1>8. LogFollows'
  <2>1. \A v \in Known : \A u \in log'[v].past : log'[u].past \subseteq log'[v].past
    BY <1>1, <1>6 DEF LogFollows, LogTypeOK, Known
  <2>2. \A u \in log'[New].past : log'[u].past \subseteq log'[New].past
    <3>1. ASSUME NEW p \in parents, NEW u \in log[p].past PROVE u \in Known /\ log[u].past \subseteq log[p].past
      BY <1>1, <3>1 DEF LogFollows, LogTypeOK, Known
    <3> QED BY <1>2, <1>6, <3>1
  <2>3. log' # <<>>
    BY <1>1, <1>5, EmptySeq
  <2> QED BY <1>5, <1>6, <2>1, <2>2, <2>3 DEF LogFollows
<1> QED BY <1>2, <1>6, <1>7, <1>8

\* What was made stays as it was made.
Grows == \A v \in Known : v \in Known' /\ log'[v] = log[v]

LEMMA StaysFollow ==
  ASSUME LogFollows, LogTypeOK, UNCHANGED log, turn.n \in Nat, turn'.n \in {turn.n, turn.n + 1}
  PROVE  Grows /\ LogFollows' /\ LogTypeOK' /\ Known' = Known
  BY DEF LogFollows, LogTypeOK, Grows, Known, Tree

\* A pull or a push that takes the checkout makes a revision, or finds the one it was made before.
LEMMA SnapshotNat ==
  ASSUME LogFollows, NEW unchanged, NEW same \in Ref
  PROVE  Snapshot(unchanged, same) \in Nat
  BY DEF LogFollows, Snapshot, New, None, Ref, Known

LEMMA SnappedFollow ==
  ASSUME LogTypeOK, LogFollows, VmTypeOK, turn.n \in Nat, turn'.n = turn.n,
         NEW n \in 0..turn.n, NEW start \in Known, NEW unchanged \in Known, NEW same \in Ref,
         NEW v \in Nat, v = Snapshot(unchanged, same), Snapped(n, start, v)
  PROVE  /\ Grows /\ LogFollows' /\ LogTypeOK'
         /\ v \in Ref' /\ (v = None <=> vm.tree = Tree(unchanged))
         /\ v # None => v \in Known' /\ log'[v].tree = vm.tree
         /\ v \in {None, same} \/ (v \notin Known /\ log'[v].by = n /\ log'[v].past = {v} \cup log[start].past)
         /\ vm'.live = vm.live /\ vm'.tree = vm.tree
         /\ vm' \in [live : BOOLEAN, tree : Trees, head : Ref', holds : SUBSET Known']
<1>0. Len(log) \in Nat
  BY DEF LogFollows
<1>1. CASE v # New
  <2>1. UNCHANGED <<log, vm>>
    BY <1>1 DEF Snapped
  <2>2. Known' = Known /\ Ref' = Ref /\ Grows /\ LogFollows' /\ LogTypeOK'
    BY <2>1, StaysFollow DEF Ref
  <2>3. v = None \/ (v = same /\ same # None /\ vm.tree = Tree(same))
    BY <1>1 DEF Snapshot
  <2>4. v = None <=> vm.tree = Tree(unchanged)
    BY <1>0 DEF Snapshot, New, None
  <2> QED BY <2>1, <2>2, <2>3, <2>4 DEF Tree, Ref, VmTypeOK
<1>2. CASE v = New
  <2>1. Makes(vm.tree, {start}, n) /\ vm' = [vm EXCEPT !.holds = @ \cup {New}] /\ vm.tree \in Trees
    BY <1>2 DEF Snapped, VmTypeOK
  <2>2. {start} \in SUBSET Known
    OBVIOUS
  <2>3. /\ New \notin Known /\ New # None /\ Known' = Known \cup {New}
        /\ \A u \in Known : log'[u] = log[u]
        /\ log'[New].tree = vm.tree /\ log'[New].by = n
        /\ log'[New].past = {New} \cup UNION {log[p].past : p \in {start}}
        /\ LogFollows' /\ LogTypeOK'
    BY <2>1, <2>2, MakesFollow
  <2>4. UNION {log[p].past : p \in {start}} = log[start].past
    OBVIOUS
  <2>5. vm.tree # Tree(unchanged)
    BY <1>0, <1>2 DEF Snapshot, New, None
  <2>6. vm'.live = vm.live /\ vm'.tree = vm.tree /\ vm' \in [live : BOOLEAN, tree : Trees, head : Ref', holds : SUBSET Known']
    BY <2>1, <2>3 DEF VmTypeOK, Ref
  <2> QED BY <1>2, <2>3, <2>4, <2>5, <2>6 DEF Grows, Ref
<1> QED BY <1>1, <1>2

-----------------------------------------------------------------------------
(* The turn and its gate *)

SameTurn ==
  /\ turn'.n = turn.n /\ turn'.base = turn.base /\ turn'.start = turn.start
  /\ turn'.previous = turn.previous /\ turn'.alone = turn.alone

LEMMA GoesFields ==
  ASSUME TurnTypeOK, NEW pc \in Stages, Goes(pc)
  PROVE  SameTurn /\ turn'.pc = pc /\ turn' = [turn EXCEPT !.pc = pc]
  BY DEF TurnTypeOK, Goes, SameTurn

LEMMA RestFields ==
  ASSUME NEW n
  PROVE  /\ Rest(n).n = n /\ Rest(n).pc = "rest" /\ Rest(n).base = None /\ Rest(n).start = None
         /\ Rest(n).previous = None /\ Rest(n).alone = TRUE
  BY DEF Rest

GateOf(K) == [pulled : K \cup {None}, passed : SUBSET K, failed : SUBSET K, reds : 0..RedBudget, checking : K \cup {None}]

LEMMA FreshGateFields ==
  /\ FreshGate \in GateOf(Known) /\ FreshGate.pulled = None /\ FreshGate.passed = {} /\ FreshGate.reds = 0
  BY BudgetAssumption DEF FreshGate, GateOf

\* A red check is counted, and answered to the agent only below the budget.
LEMMA AnswersFollow ==
  ASSUME TurnTypeOK, NEW K, NEW g \in GateOf(K), NEW v, g.reds < RedBudget, Answers(g, v)
  PROVE  /\ SameTurn /\ turn'.pc \in {"working", "concluding"} /\ turn' = [turn EXCEPT !.pc = turn'.pc]
         /\ gate' \in GateOf(K) /\ gate'.pulled = g.pulled /\ gate'.passed = g.passed
         /\ turn'.pc = "working" => gate'.reds < RedBudget
<1>1. {"working", "concluding"} \subseteq Stages /\ g.reds \in Nat
  BY BudgetAssumption DEF Stages, Working, Concluding, GateOf
<1>2. CASE v \in g.failed
  <2>1. gate' = [g EXCEPT !.reds = @ + 1] /\ Goes(IF g.reds + 1 >= RedBudget THEN "concluding" ELSE "working")
    BY <1>2 DEF Answers
  <2>2. g.reds + 1 \in 0..RedBudget
    BY <1>1, BudgetAssumption
  <2>3. gate' \in GateOf(K) /\ gate'.pulled = g.pulled /\ gate'.passed = g.passed /\ gate'.reds = g.reds + 1
    BY <2>1, <2>2 DEF GateOf
  <2>4. CASE g.reds + 1 >= RedBudget
    BY <1>1, <2>1, <2>3, <2>4, GoesFields
  <2>5. CASE ~(g.reds + 1 >= RedBudget)
    BY <1>1, <2>1, <2>3, <2>5, GoesFields, BudgetAssumption
  <2> QED BY <2>4, <2>5
<1>3. CASE v \notin g.failed
  <2>1. gate' = g /\ Goes("concluding")
    BY <1>3 DEF Answers
  <2> QED BY <1>1, <2>1, GoesFields
<1> QED BY <1>2, <1>3

LEMMA VerdictFollow ==
  ASSUME GateTypeOK, gate.checking \in Known
  PROVE  LET g == Verdict(gate.checking) IN
         /\ g \in GateOf(Known) /\ g.pulled = gate.pulled /\ g.reds = gate.reds /\ g.checking = None
         /\ \A v \in g.passed : v \in gate.passed \/ Tree(v) \in Passing
  BY DEF GateTypeOK, GateOf, Verdict, Ref

\* What the gate pulls is the checkout, and its candidate is what it pulled or the start.
LEMMA PullsFollow ==
  ASSUME LogTypeOK, LogFollows, VmTypeOK, GateTypeOK, turn.n \in Nat, turn'.n = turn.n, turn.start \in Known,
         gate.pulled # None => MadeOn(gate.pulled, turn.start, turn.n), Pulls
  PROVE  /\ Grows /\ LogFollows' /\ LogTypeOK' /\ vm.live
         /\ vm'.live = vm.live /\ vm'.tree = vm.tree
         /\ vm' \in [live : BOOLEAN, tree : Trees, head : Ref', holds : SUBSET Known']
         /\ Pulled \in Ref' /\ Candidate \in {None, Pulled, turn.start} /\ Candidate \in Ref'
         /\ Pulled # None => log'[Pulled].by = turn.n /\ log'[Pulled].past = {Pulled} \cup log[turn.start].past
         /\ Candidate # None => Candidate \in Known' /\ log'[Candidate].tree = vm.tree
         /\ Gate \in GateOf(Known') /\ Gate.pulled = Pulled /\ Gate.passed = gate.passed /\ Gate.failed = gate.failed /\ Gate.reds = gate.reds
<1> DEFINE v == Pulled
<1>1. gate.pulled \in Ref /\ turn.n \in 0..turn.n /\ vm.live /\ Snapped(turn.n, turn.start, v)
  BY DEF GateTypeOK, Pulls
<1>2. v = Snapshot(turn.start, gate.pulled) /\ v \in Nat
  BY SnapshotNat, <1>1 DEF Pulled
<1> HIDE DEF v
<1>3. /\ Grows /\ LogFollows' /\ LogTypeOK'
      /\ v \in Ref' /\ (v = None <=> vm.tree = Tree(turn.start))
      /\ v # None => v \in Known' /\ log'[v].tree = vm.tree
      /\ v \in {None, gate.pulled} \/ (v \notin Known /\ log'[v].by = turn.n /\ log'[v].past = {v} \cup log[turn.start].past)
      /\ vm'.live = vm.live /\ vm'.tree = vm.tree
      /\ vm' \in [live : BOOLEAN, tree : Trees, head : Ref', holds : SUBSET Known']
  <2> DEFINE n == turn.n
             start == turn.start
             same == gate.pulled
  <2>1. n \in 0..turn.n /\ start \in Known /\ same \in Ref /\ v = Snapshot(start, same) /\ Snapped(n, start, v)
    BY <1>1, <1>2
  <2> HIDE DEF n, start, same
  <2>2. /\ Grows /\ LogFollows' /\ LogTypeOK'
        /\ v \in Ref' /\ (v = None <=> vm.tree = Tree(start))
        /\ v # None => v \in Known' /\ log'[v].tree = vm.tree
        /\ v \in {None, same} \/ (v \notin Known /\ log'[v].by = n /\ log'[v].past = {v} \cup log[start].past)
        /\ vm'.live = vm.live /\ vm'.tree = vm.tree
        /\ vm' \in [live : BOOLEAN, tree : Trees, head : Ref', holds : SUBSET Known']
    BY <1>2, <2>1, SnappedFollow
  <2> QED BY <2>2 DEF n, start, same
<1>4. v # None => log'[v].by = turn.n /\ log'[v].past = {v} \cup log[turn.start].past
  BY <1>1, <1>3 DEF MadeOn, Grows, Ref
<1>5. /\ Candidate \in {None, v, turn.start}
      /\ Candidate # None => Candidate \in Known' /\ log'[Candidate].tree = vm.tree
  BY <1>3 DEF Candidate, v, Grows, Tree
<1>6. Gate \in GateOf(Known') /\ Gate.pulled = v /\ Gate.passed = gate.passed /\ Gate.failed = gate.failed /\ Gate.reds = gate.reds
  <2>1. Known \subseteq Known' /\ Gate = [gate EXCEPT !.pulled = v]
    BY <1>3 DEF Grows, Gate, v
  <2> QED BY <1>3, <2>1 DEF GateTypeOK, GateOf, Ref
<1> QED BY <1>1, <1>3, <1>4, <1>5, <1>6 DEF v, Ref

-----------------------------------------------------------------------------
(* Every step keeps the invariant *)

SourceInv ==
  /\ TypeOK /\ LogFollows /\ StageFollows /\ PushesFollow /\ WritesFollow /\ MainIsBefore
  /\ PassesTheCheck /\ CheckoutStays /\ AloneWithTheMirror

LEMMA Typed ==
  ASSUME SourceInv
  PROVE  /\ LogTypeOK /\ VmTypeOK /\ TurnTypeOK /\ GateTypeOK /\ push \in [Turns -> Push]
         /\ main \in Known /\ mirror \in Ref /\ faults \in 0..MaxFaults
         /\ LogFollows /\ Len(log) \in Nat /\ turn.n \in 0..MaxTurns /\ turn.n \in Nat
         /\ turn.pc \in Stages /\ turn.base \in Ref /\ turn.start \in Ref /\ turn.previous \in Ref /\ turn.alone \in BOOLEAN
         /\ None \notin Known
<1>1. TypeOK /\ LogFollows
  BY DEF SourceInv
<1>2. turn.n \in 0..MaxTurns
  BY <1>1, BoundAssumption DEF TypeOK, TurnTypeOK, Turns
<1> QED BY <1>1, <1>2, BoundAssumption DEF TypeOK, TurnTypeOK, LogFollows, Known, None

\* What a push writes stays what it was, whatever is made meanwhile.
LEMMA WritesStay ==
  ASSUME SourceInv, Grows, NEW n \in Turns, push'[n].end \in {"over", push[n].end},
         push'[n].start = push[n].start, push'[n].expected = push[n].expected,
         push'[n].next = push[n].next, push'[n].target = push[n].target,
         turn.pc = "mirroring" /\ n = turn.n => turn'.n = turn.n /\ (turn'.pc = "mirroring" \/ push'[n].end = "over")
  PROVE  WritesOf(n)'
<1> DEFINE p == push[n]
<1>1. CASE push'[n].end = "over"
  BY <1>1 DEF WritesOf
<1>2. CASE push'[n].end # "over"
  <2>1. p.end # "over" /\ push'[n].end = p.end /\ p.start \in Known /\ p.expected \in Ref /\ p.next \in Ref /\ p.target \in Ref
    BY <1>2, Typed DEF SourceInv, PushesFollow, Push
  <2>2. WritesOf(n)
    BY DEF SourceInv, WritesFollow
  <2>3. \A v \in Known : log'[v] = log[v]
    BY DEF Grows
  <2>4. \A v \in Known : MadeOn(v, p.start, n) <=> (log'[v].by = n /\ log'[v].past = {v} \cup log'[p.start].past)
    BY <2>1, <2>3 DEF MadeOn
  <2>5. p.expected # None =>
          log'[p.expected].by <= n /\ (p.expected \in log'[p.start].past \/ (log'[p.expected].by = n /\ log'[p.expected].past = {p.expected} \cup log'[p.start].past))
    BY <2>1, <2>2, <2>3, <2>4 DEF WritesOf, Ref
  <2>6. p.next # None => \/ log'[p.next].by = n /\ log'[p.next].past = {p.next} \cup log'[p.start].past
                         \/ p.next = p.start /\ n = turn'.n /\ turn'.pc = "mirroring"
    BY <1>2, <2>1, <2>2, <2>3, <2>4 DEF WritesOf, Ref
  <2>7. p.target # None =>
          /\ p.end = "snapshot" => log'[p.target].by = n /\ log'[p.target].past = {p.target} \cup log'[p.start].past
          /\ p.end = "candidate" => p.target = p.start \/ (log'[p.target].by = n /\ log'[p.target].past = {p.target} \cup log'[p.start].past)
    BY <2>1, <2>2, <2>3, <2>4 DEF WritesOf, Ref
  <2>8. p.end = "candidate" => p.target # None
    BY Typed DEF SourceInv, PushesFollow
  <2> QED BY <1>2, <2>1, <2>5, <2>6, <2>7, <2>8 DEF WritesOf, MadeOn
<1> QED BY <1>1, <1>2

LEMMA TurnBeginsKeeps ==
  ASSUME SourceInv, TurnBegins
  PROVE  SourceInv'
<1>1. /\ turn.pc = "rest" /\ turn'.n = turn.n + 1 /\ turn'.n \in Turns
      /\ turn'.pc = "starting" /\ turn'.base = main /\ turn'.start = None
      /\ turn' = [n |-> turn.n + 1, pc |-> "starting", base |-> main, start |-> None, previous |-> None, alone |-> TRUE]
      /\ gate' = FreshGate /\ UNCHANGED <<log, main, mirror, push, faults>>
      /\ vm' = IF vm.live THEN vm ELSE [NoVm EXCEPT !.live = TRUE]
  <2>1. turn' = [[n |-> turn.n + 1, pc |-> "rest", base |-> None, start |-> None, previous |-> None, alone |-> TRUE]
                 EXCEPT !.pc = "starting", !.base = main]
    BY DEF TurnBegins, Rest
  <2>2. turn.n + 1 \in Turns
    BY Typed, BoundAssumption DEF TurnBegins, Turns
  <2> QED BY <2>1, <2>2 DEF TurnBegins
<1>2. Grows /\ LogFollows' /\ LogTypeOK' /\ Known' = Known /\ Ref' = Ref
  BY <1>1, Typed, StaysFollow DEF Ref
<1>3. vm' \in [live : BOOLEAN, tree : Trees, head : Ref, holds : SUBSET Known] /\ vm'.live
  <2>1. NoVm \in [live : BOOLEAN, tree : Trees, head : Ref, holds : SUBSET Known]
    BY TreesAssumption DEF NoVm, Ref
  <2>2. [NoVm EXCEPT !.live = TRUE] \in [live : BOOLEAN, tree : Trees, head : Ref, holds : SUBSET Known] /\ [NoVm EXCEPT !.live = TRUE].live
    BY <2>1
  <2> QED BY <1>1, <2>2, Typed DEF VmTypeOK
<1>4. TypeOK'
  BY <1>1, <1>2, <1>3, Typed, FreshGateFields DEF TypeOK, VmTypeOK, TurnTypeOK, GateTypeOK, GateOf, Push, Ref, Stages, Preparing
<1>5. StageFollows'
  BY <1>1, <1>2, Typed, FreshGateFields, BudgetAssumption DEF SourceInv, StageFollows, PushesFollow, Preparing, Working, Started, Concluding, Unopened
<1>6. PushesFollow'
  BY <1>1, <1>2, <1>3, Typed, BoundAssumption DEF SourceInv, PushesFollow, Unopened, Turns
<1>7. WritesFollow'
  BY <1>1, <1>2, FreshGateFields, WritesStay DEF WritesFollow
<1>8. MainIsBefore'
  BY <1>1, <1>2, Typed DEF SourceInv, MainIsBefore, LogTypeOK, Known
<1>9. PassesTheCheck'
  BY <1>1, <1>2, Typed, FreshGateFields DEF SourceInv, PassesTheCheck, MainPassesTheCheck, Tree
<1>10. CheckoutStays' /\ AloneWithTheMirror'
  BY <1>1, <1>2, Typed DEF SourceInv, CheckoutStays, AloneWithTheMirror, PushesFollow, Unopened
<1> QED BY <1>2, <1>4, <1>5, <1>6, <1>7, <1>8, <1>9, <1>10 DEF SourceInv

LEMMA StartTurnKeeps ==
  ASSUME SourceInv, StartTurn
  PROVE  SourceInv'
<1>1. /\ turn.pc = "starting" /\ turn.n \in Turns /\ turn.base \in Known /\ turn.base = main
      /\ gate = FreshGate /\ Unopened(push[turn.n]) /\ UNCHANGED <<main, mirror, vm, push, gate>>
  BY DEF SourceInv, StageFollows, Preparing, StartTurn
<1>2. /\ Grows /\ LogFollows' /\ LogTypeOK' /\ faults' \in 0..MaxFaults
      /\ turn' \in [n : Turns \cup {0}, pc : Stages, base : Ref', start : Ref', previous : Ref', alone : BOOLEAN]
      /\ turn'.n = turn.n /\ turn'.base = turn.base /\ turn'.pc \in {"seeding", "merging", "leaving"}
      /\ turn'.pc = "seeding" =>
           /\ turn'.start \in Known /\ turn'.previous = mirror /\ (turn'.alone => Alone)
           /\ turn'.start = turn.base => mirror = None \/ mirror \in log[turn.base].past
           /\ turn'.start # turn.base => turn'.start = mirror
      /\ turn'.pc = "merging" =>
           /\ turn'.start \in Known' /\ turn'.start # turn.base /\ turn'.previous = mirror /\ (turn'.alone => Alone)
           /\ log'[turn.base].past \subseteq log'[turn'.start].past
  <2>1. ASSUME NEW start, NEW pc \in Stages, StartsAt(start, pc)
        PROVE  /\ turn'.n = turn.n /\ turn'.base = turn.base /\ turn'.start = start /\ turn'.pc = pc /\ turn'.previous = mirror
               /\ turn'.alone => Alone
               /\ \A R : Ref \subseteq R /\ start \in R =>
                    turn' \in [n : Turns \cup {0}, pc : Stages, base : R, start : R, previous : R, alone : BOOLEAN]
    <3>1. Alone \in BOOLEAN
      BY DEF Alone
    <3> QED BY <2>1, <3>1, Typed DEF TurnTypeOK, StartsAt
  <2>2. "seeding" \in Stages /\ "merging" \in Stages /\ "leaving" \in Stages
    BY DEF Stages, Preparing
  <2>3. CASE ((Within /\ StartsAt(turn.base, "seeding")) \/ (Ahead /\ StartsAt(mirror, "seeding"))) /\ UNCHANGED <<log, faults>>
    <3>1. Grows /\ LogFollows' /\ LogTypeOK' /\ Known' = Known /\ Ref' = Ref /\ faults' \in 0..MaxFaults /\ turn'.n = turn.n
      <4>1. turn'.n = turn.n
        BY <2>1, <2>2, <2>3
      <4> QED BY <2>3, <4>1, Typed, StaysFollow DEF Ref
    <3>2. CASE Within /\ StartsAt(turn.base, "seeding")
      BY <1>1, <2>1, <2>2, <3>1, <3>2, Typed DEF Within, Holds
    <3>3. CASE Ahead /\ StartsAt(mirror, "seeding")
      <4>1. mirror \in Known /\ mirror # turn.base
        BY <1>1, <3>3, Typed DEF Ahead, Within, Holds, Ref, LogTypeOK
      <4>2. /\ turn'.n = turn.n /\ turn'.base = turn.base /\ turn'.start = mirror /\ turn'.pc = "seeding" /\ turn'.previous = mirror
            /\ turn'.alone => Alone
            /\ turn' \in [n : Turns \cup {0}, pc : Stages, base : Ref, start : Ref, previous : Ref, alone : BOOLEAN]
        BY <2>1, <2>2, <3>3, Typed
      <4> QED BY <1>1, <3>1, <4>1, <4>2
    <3> QED BY <2>3, <3>2, <3>3
  <2>4. CASE ~Within /\ ~Ahead /\ (\E t \in Trees : Makes(t, {mirror, turn.base}, turn.n)) /\ StartsAt(New, "merging") /\ UNCHANGED faults
    <3>0. PICK t \in Trees : Makes(t, {mirror, turn.base}, turn.n)
      BY <2>4
    <3>1. mirror \in Known /\ {mirror, turn.base} \in SUBSET Known /\ turn.n \in 0..turn.n /\ turn'.n = turn.n
      <4>1. mirror \in Known
        BY <2>4, Typed DEF Within, Ref
      <4>2. turn'.n = turn.n
        BY <2>1, <2>2, <2>4
      <4> QED BY <1>1, <4>1, <4>2, Typed
    <3>2. /\ New \notin Known /\ New # None /\ Known' = Known \cup {New}
          /\ \A v \in Known : log'[v] = log[v]
          /\ log'[New].past = {New} \cup UNION {log[p].past : p \in {mirror, turn.base}}
          /\ LogFollows' /\ LogTypeOK'
      BY <3>0, <3>1, Typed, MakesFollow
    <3>3. Grows /\ Ref \subseteq Ref' /\ New \in Known' /\ New \in Ref'
      BY <3>2 DEF Grows, Ref
    <3>4. /\ turn'.base = turn.base /\ turn'.start = New /\ turn'.pc = "merging" /\ turn'.previous = mirror
          /\ turn'.alone => Alone
          /\ turn' \in [n : Turns \cup {0}, pc : Stages, base : Ref', start : Ref', previous : Ref', alone : BOOLEAN]
      BY <2>1, <2>2, <2>4, <3>3
    <3>5. log'[turn.base].past \subseteq log'[New].past
      BY <1>1, <3>2
    <3> QED BY <1>1, <2>4, <3>1, <3>2, <3>3, <3>4, <3>5, Typed
  <2>5. CASE Faulty /\ Goes("leaving") /\ UNCHANGED log
    <3>1. SameTurn /\ turn'.pc = "leaving" /\ turn' = [turn EXCEPT !.pc = "leaving"]
      BY <2>2, <2>5, Typed, GoesFields
    <3>2. Grows /\ LogFollows' /\ LogTypeOK' /\ Known' = Known /\ Ref' = Ref
      BY <2>5, <3>1, Typed, StaysFollow DEF SameTurn, Ref
    <3>3. faults' \in 0..MaxFaults
      BY <2>5, Typed, BoundAssumption DEF Faulty
    <3> QED BY <2>2, <3>1, <3>2, <3>3, Typed DEF SameTurn, TurnTypeOK
  <2>6. \/ ((Within /\ StartsAt(turn.base, "seeding")) \/ (Ahead /\ StartsAt(mirror, "seeding"))) /\ UNCHANGED <<log, faults>>
        \/ /\ ~Within /\ ~Ahead /\ StartsAt(New, "merging") /\ UNCHANGED faults
           /\ \E t \in Trees : Makes(t, {mirror, turn.base}, turn.n)
        \/ Faulty /\ Goes("leaving") /\ UNCHANGED log
    BY DEF StartTurn
  <2> QED BY <2>3, <2>4, <2>5, <2>6
<1>4. TypeOK'
  BY <1>1, <1>2, Typed DEF TypeOK, VmTypeOK, TurnTypeOK, GateTypeOK, Push, Ref, Grows
<1>5. StageFollows'
  BY <1>1, <1>2, Typed, FreshGateFields, BudgetAssumption DEF SourceInv, StageFollows, PushesFollow, Preparing, Working, Started, Concluding, Unopened, Grows
<1>6. PushesFollow'
  BY <1>1, <1>2, Typed DEF SourceInv, PushesFollow, Unopened, Grows
<1>7. WritesFollow'
  BY <1>1, <1>2, FreshGateFields, WritesStay DEF WritesFollow
<1>8. MainIsBefore'
  BY <1>1, <1>2, Typed, SMTT(30) DEF SourceInv, MainIsBefore, LogTypeOK, Known, Grows, Preparing
<1>9. PassesTheCheck'
  BY <1>1, <1>2, Typed, FreshGateFields DEF SourceInv, PassesTheCheck, MainPassesTheCheck, Tree, Grows
<1>10. CheckoutStays' /\ AloneWithTheMirror'
  BY <1>1, <1>2, Typed DEF SourceInv, CheckoutStays, AloneWithTheMirror, Unopened, Tree, Alone
<1> QED BY <1>2, <1>4, <1>5, <1>6, <1>7, <1>8, <1>9, <1>10 DEF SourceInv

LEMMA MergeLandsKeeps ==
  ASSUME SourceInv, MergeLands
  PROVE  SourceInv'
<1>1. /\ turn.pc = "merging" /\ turn.n \in Turns /\ turn.base \in Known /\ turn.start \in Known
      /\ gate = FreshGate /\ main = turn.base /\ Unopened(push[turn.n]) /\ UNCHANGED <<log, main, vm, push, gate>>
      /\ turn.start # turn.base
  BY DEF SourceInv, StageFollows, Preparing, MergeLands, Started
<1>2. /\ SameTurn /\ turn' \in [n : Turns \cup {0}, pc : Stages, base : Ref, start : Ref, previous : Ref, alone : BOOLEAN]
      /\ turn'.pc \in {"seeding", "leaving"} /\ mirror' \in Ref /\ faults' \in 0..MaxFaults
      /\ turn'.pc = "seeding" => mirror' = turn.start
  <2>1. "seeding" \in Stages /\ "leaving" \in Stages
    BY DEF Stages, Preparing
  <2>2. \A pc \in {"seeding", "leaving"} : Goes(pc) =>
           SameTurn /\ turn'.pc = pc /\ turn' \in [n : Turns \cup {0}, pc : Stages, base : Ref, start : Ref, previous : Ref, alone : BOOLEAN]
    BY <2>1, Typed, GoesFields DEF TurnTypeOK
  <2> QED BY <2>2, Typed, BoundAssumption DEF MergeLands, MoveRef, Faulty
<1>3. Grows /\ LogFollows' /\ LogTypeOK' /\ Known' = Known /\ Ref' = Ref
  BY <1>1, <1>2, Typed, StaysFollow DEF Ref, SameTurn
<1>4. TypeOK'
  BY <1>1, <1>2, <1>3, Typed DEF TypeOK, VmTypeOK, TurnTypeOK, GateTypeOK, Push, Ref
<1>5. StageFollows'
  BY <1>1, <1>2, Typed, FreshGateFields, BudgetAssumption DEF SourceInv, SameTurn, StageFollows, Preparing, Working, Started, Concluding, Unopened, Known
<1>6. PushesFollow'
  BY <1>1, <1>2, <1>3, Typed DEF SourceInv, SameTurn, PushesFollow, Unopened
<1>7. WritesFollow'
  BY <1>1, <1>2, <1>3, FreshGateFields, WritesStay DEF WritesFollow
<1>8. MainIsBefore'
  BY <1>1, <1>2 DEF SourceInv, SameTurn, MainIsBefore, Preparing
<1>9. PassesTheCheck'
  BY <1>1, <1>3 DEF SourceInv, PassesTheCheck, MainPassesTheCheck, Tree
<1>10. CheckoutStays' /\ AloneWithTheMirror'
  BY <1>1, <1>2, Typed DEF SourceInv, SameTurn, CheckoutStays, AloneWithTheMirror, Unopened, Tree
<1> QED BY <1>3, <1>4, <1>5, <1>6, <1>7, <1>8, <1>9, <1>10 DEF SourceInv

\* A checkout takes the start, and the turn's push begins.
LEMMA TakenKeeps ==
  ASSUME SourceInv, turn.pc = "seeding", vm.live, NEW t \in Trees, Taken(t), UNCHANGED <<log, main, mirror, gate, faults>>
  PROVE  SourceInv'
<1>1. /\ turn.n \in Turns /\ turn.base \in Known /\ turn.start \in Known
      /\ gate = FreshGate /\ main = turn.base /\ Unopened(push[turn.n])
      /\ turn.start = turn.base => turn.previous = None \/ turn.previous \in log[turn.base].past
  BY DEF SourceInv, StageFollows, Preparing, Started
<1>2. /\ SameTurn /\ turn'.pc = "working"
      /\ turn' \in [n : Turns \cup {0}, pc : Stages, base : Ref, start : Ref, previous : Ref, alone : BOOLEAN]
  <2>1. "working" \in Stages
    BY DEF Stages, Working
  <2> QED BY <2>1, Typed, GoesFields DEF TurnTypeOK, Taken
<1>3. Grows /\ LogFollows' /\ LogTypeOK' /\ Known' = Known /\ Ref' = Ref
  BY <1>2, Typed, StaysFollow DEF Ref, SameTurn
<1>4. /\ vm' \in [live : BOOLEAN, tree : Trees, head : Ref, holds : SUBSET Known] /\ vm'.live /\ vm'.tree = t
  <2>1. log[turn.start].past \subseteq Known /\ log[turn.base].past \subseteq Known
    BY <1>1, Typed DEF LogTypeOK, Known
  <2>2. vm' = [vm EXCEPT !.tree = t, !.head = turn.start, !.holds = @ \cup log[turn.start].past \cup log[turn.base].past]
    BY DEF Taken
  <2> QED BY <1>1, <2>1, <2>2, Typed DEF VmTypeOK
<1>5. /\ push' \in [Turns -> Push] /\ push'[turn.n] = Opened
      /\ \A n \in Turns \ {turn.n} : push'[n] = push[n]
  BY <1>1, Typed, OpenedFields DEF Taken
<1>6. TypeOK'
  BY <1>2, <1>3, <1>4, <1>5, Typed DEF TypeOK, VmTypeOK, TurnTypeOK, GateTypeOK, Push
<1>7. StageFollows'
  BY <1>1, <1>2, <1>3, <1>5, Typed, OpenedFields, FreshGateFields, BudgetAssumption
  DEF SameTurn, StageFollows, Preparing, Working, Started, Concluding
<1>8. PushesFollow'
  BY <1>1, <1>2, <1>3, <1>4, <1>5, Typed, OpenedFields DEF SourceInv, SameTurn, PushesFollow, Unopened
<1>9. WritesFollow'
  <2>1. ASSUME NEW n \in Turns, n = turn.n PROVE WritesOf(n)'
    <3>1. Opened.expected # None =>
            Opened.expected \in Known /\ log[Opened.expected].by <= n /\ Opened.expected \in log[turn.start].past
      BY <1>1, <2>1, Typed, OpenedFields DEF LogTypeOK, Ref
    <3>2. push'[n] = Opened /\ UNCHANGED log
      BY <1>5, <2>1
    <3> QED BY <3>1, <3>2, Typed, OpenedFields DEF WritesOf
  <2>2. \A n \in Turns \ {turn.n} : WritesOf(n)'
    BY <1>1, <1>2, <1>3, <1>5, WritesStay
  <2> QED BY <1>1, <2>1, <2>2, FreshGateFields DEF WritesFollow
<1>10. MainIsBefore'
  BY <1>2 DEF SourceInv, SameTurn, MainIsBefore, Preparing
<1>11. PassesTheCheck'
  BY <1>3 DEF SourceInv, PassesTheCheck, MainPassesTheCheck, Tree
<1>12. CheckoutStays' /\ AloneWithTheMirror'
  BY <1>1, <1>2, <1>3, <1>5, Typed, OpenedFields DEF SourceInv, SameTurn, CheckoutStays, AloneWithTheMirror, Tree
<1> QED BY <1>3, <1>6, <1>7, <1>8, <1>9, <1>10, <1>11, <1>12 DEF SourceInv

LEMMA StartCheckoutKeeps ==
  ASSUME SourceInv, StartCheckout
  PROVE  SourceInv'
<1>1. turn.start \in Known /\ turn.pc = "seeding" /\ vm.live /\ UNCHANGED <<log, main, mirror, gate, faults>>
  BY DEF SourceInv, StageFollows, Started, StartCheckout
<1>2. Tree(turn.start) \in Trees /\ vm.tree \in Trees
  BY <1>1, Typed DEF LogTypeOK, VmTypeOK
<1>3. \E t \in Trees : Taken(t)
  BY <1>2 DEF StartCheckout, Resumed, Seeded
<1> QED BY <1>1, <1>3, TakenKeeps

\* The machine is lost, under a turn or between two.
LEMMA LosesKeeps ==
  ASSUME SourceInv, LosesVm, UNCHANGED <<log, main, mirror, gate>>, faults' \in 0..MaxFaults,
         SameTurn, turn' \in [n : Turns \cup {0}, pc : Stages, base : Ref, start : Ref, previous : Ref, alone : BOOLEAN],
         turn'.pc = turn.pc \/ (turn.pc = "seeding" /\ turn'.pc = "leaving")
  PROVE  SourceInv'
<1>1. /\ push' \in [Turns -> Push] /\ ~vm'.live
      /\ \A n \in Turns :
           /\ ~push'[n].source
           /\ push'[n].end = push[n].end /\ push'[n].scheduled = push[n].scheduled /\ push'[n].start = push[n].start
           /\ push'[n].expected = push[n].expected /\ push'[n].written = push[n].written /\ push'[n].next = push[n].next
           /\ push'[n].target = push[n].target /\ push'[n].clean = push[n].clean
  BY Typed, LostFields
<1>2. Grows /\ LogFollows' /\ LogTypeOK' /\ Known' = Known /\ Ref' = Ref
  BY Typed, StaysFollow DEF Ref, SameTurn
<1>3. vm' \in [live : BOOLEAN, tree : Trees, head : Ref, holds : SUBSET Known]
  BY TreesAssumption DEF LosesVm, NoVm, Ref
<1>4. TypeOK'
  BY <1>1, <1>2, <1>3, Typed DEF TypeOK, VmTypeOK, TurnTypeOK, GateTypeOK, Push
<1>5. StageFollows'
  BY <1>1, <1>2, Typed, BoundAssumption DEF SourceInv, SameTurn, StageFollows, Preparing, Working, Started, Concluding, Unopened
<1>6. PushesFollow'
  BY <1>1, <1>2, Typed DEF SourceInv, SameTurn, PushesFollow, StageFollows, Unopened, Preparing
<1>7. WritesFollow'
  BY <1>1, <1>2, WritesStay DEF SourceInv, WritesFollow, SameTurn, MadeOn
<1>8. MainIsBefore'
  BY <1>1, <1>2, Typed DEF SourceInv, SameTurn, MainIsBefore, Preparing, Turns
<1>9. PassesTheCheck'
  BY <1>2 DEF SourceInv, PassesTheCheck, MainPassesTheCheck, Tree
<1>10. CheckoutStays' /\ AloneWithTheMirror'
  BY <1>1, Typed DEF SourceInv, SameTurn, CheckoutStays, AloneWithTheMirror, Turns
<1> QED BY <1>2, <1>4, <1>5, <1>6, <1>7, <1>8, <1>9, <1>10 DEF SourceInv

LEMMA SeedFailsKeeps ==
  ASSUME SourceInv, SeedFails
  PROVE  SourceInv'
<1>1. "leaving" \in Stages /\ faults' \in 0..MaxFaults
  BY Typed, BoundAssumption DEF Stages, SeedFails, Faulty
<1>2. SameTurn /\ turn'.pc = "leaving" /\ turn' \in [n : Turns \cup {0}, pc : Stages, base : Ref, start : Ref, previous : Ref, alone : BOOLEAN]
  BY <1>1, Typed, GoesFields DEF SeedFails, TurnTypeOK
<1> QED BY <1>1, <1>2, LosesKeeps DEF SeedFails

LEMMA VmLostKeeps ==
  ASSUME SourceInv, VmLost
  PROVE  SourceInv'
<1>1. faults' \in 0..MaxFaults
  BY Typed, BoundAssumption DEF VmLost, Faulty
<1>2. SameTurn /\ turn'.pc = turn.pc /\ turn' \in [n : Turns \cup {0}, pc : Stages, base : Ref, start : Ref, previous : Ref, alone : BOOLEAN]
  BY Typed DEF VmLost, SameTurn, TurnTypeOK
<1> QED BY <1>1, <1>2, LosesKeeps DEF VmLost

LEMMA EditKeeps ==
  ASSUME SourceInv, Edit
  PROVE  SourceInv'
<1>1. turn.pc \in Working /\ turn.n \in Turns /\ push[turn.n].end = "open" /\ vm.live /\ UNCHANGED <<log, main, mirror, turn, gate, faults>>
  BY DEF SourceInv, StageFollows, Edit, Working
<1>2. /\ push' \in [Turns -> Push]
      /\ \A n \in Turns :
           /\ n # turn.n => push'[n] = push[n]
           /\ push'[n].end = push[n].end /\ push'[n].start = push[n].start
           /\ push'[n].expected = push[n].expected /\ push'[n].written = push[n].written /\ push'[n].next = push[n].next
           /\ push'[n].target = push[n].target /\ push'[n].source = push[n].source /\ push'[n].clean = push[n].clean
  BY <1>1, Typed, EditFields DEF Edit
<1>3. Grows /\ LogFollows' /\ LogTypeOK' /\ Known' = Known /\ Ref' = Ref
  BY <1>1, Typed, StaysFollow DEF Ref
<1>4. vm' \in [live : BOOLEAN, tree : Trees, head : Ref, holds : SUBSET Known] /\ vm'.live = vm.live
  BY Typed DEF Edit, VmTypeOK
<1>5. TypeOK'
  BY <1>1, <1>2, <1>3, <1>4, Typed DEF TypeOK, VmTypeOK, TurnTypeOK, GateTypeOK, Push
<1>6. StageFollows'
  BY <1>1, <1>2, <1>3 DEF SourceInv, StageFollows, Preparing, Working, Started, Concluding, Unopened
<1>7. PushesFollow'
  BY <1>1, <1>2, <1>3, <1>4 DEF SourceInv, PushesFollow, Unopened
<1>8. WritesFollow'
  BY <1>1, <1>2, <1>3, WritesStay DEF SourceInv, WritesFollow, MadeOn
<1>9. MainIsBefore'
  BY <1>1, <1>2 DEF SourceInv, MainIsBefore
<1>10. PassesTheCheck'
  BY <1>1, <1>3 DEF SourceInv, PassesTheCheck, MainPassesTheCheck, Tree
<1>11. CheckoutStays' /\ AloneWithTheMirror'
  BY <1>1, <1>2 DEF SourceInv, CheckoutStays, AloneWithTheMirror, Working
<1> QED BY <1>3, <1>5, <1>6, <1>7, <1>8, <1>9, <1>10, <1>11 DEF SourceInv

\* A step of the gate, which leaves main, the mirror and the push alone.
LEMMA GateKeeps ==
  ASSUME SourceInv, turn.pc \in {"working", "asking", "concluding", "judging"},
         UNCHANGED <<main, mirror, push>>, faults' \in 0..MaxFaults,
         Grows, LogFollows', LogTypeOK', vm'.live = vm.live, vm'.tree = vm.tree,
         vm' \in [live : BOOLEAN, tree : Trees, head : Ref', holds : SUBSET Known'],
         SameTurn, turn'.pc \in {"working", "asking", "concluding", "judging", "leaving"}, turn' = [turn EXCEPT !.pc = turn'.pc],
         gate' \in GateOf(Known'), \A v \in gate'.passed : v \in gate.passed \/ (v \in Known /\ Tree(v) \in Passing),
         gate'.pulled # None => log'[gate'.pulled].by = turn.n /\ log'[gate'.pulled].past = {gate'.pulled} \cup log[turn.start].past,
         turn'.pc \in {"working", "asking"} => gate'.reds < RedBudget,
         turn'.pc \in {"asking", "judging"} => gate'.checking \in Known',
         turn'.pc = "judging" => gate'.checking \in {turn.start, gate'.pulled} /\ (vm.live => log'[gate'.checking].tree = vm.tree)
  PROVE  SourceInv'
<1>1. /\ turn.n \in Turns /\ turn.base \in Known /\ turn.start \in Known /\ push[turn.n].end = "open"
      /\ push[turn.n].start = turn.start
  BY DEF SourceInv, StageFollows, Started, Working, Concluding
<1>2. Ref \subseteq Ref' /\ Known \subseteq Known' /\ \A v \in Known : log'[v] = log[v]
  BY DEF Grows, Ref
<1>3. turn' \in [n : Turns \cup {0}, pc : Stages, base : Ref', start : Ref', previous : Ref', alone : BOOLEAN]
  <2>1. turn'.pc \in Stages
    BY DEF Stages, Working, Concluding
  <2> QED BY <1>2, <2>1, Typed DEF TurnTypeOK
<1>4. TypeOK'
  BY <1>2, <1>3, Typed DEF TypeOK, VmTypeOK, TurnTypeOK, GateTypeOK, GateOf, Push, Ref
<1>5. StageFollows'
  BY <1>1, <1>2 DEF SourceInv, SameTurn, StageFollows, Preparing, Working, Started, Concluding
<1>6. PushesFollow'
  BY <1>1, <1>2 DEF SourceInv, SameTurn, PushesFollow, Unopened
<1>7. WritesFollow'
  BY <1>1, <1>2, WritesStay DEF SameTurn, WritesFollow, MadeOn
<1>8. MainIsBefore'
  BY <1>1, <1>2, Typed DEF SourceInv, SameTurn, MainIsBefore, Preparing, LogTypeOK, Known
<1>9. PassesTheCheck'
  BY <1>2, Typed DEF SourceInv, PassesTheCheck, MainPassesTheCheck, Tree, GateTypeOK
<1>10. CheckoutStays'
  BY <1>1, <1>2 DEF SourceInv, SameTurn, CheckoutStays, Tree
<1>11. AloneWithTheMirror'
  BY <1>1, <1>2 DEF SourceInv, SameTurn, AloneWithTheMirror
<1> QED BY <1>4, <1>5, <1>6, <1>7, <1>8, <1>9, <1>10, <1>11 DEF SourceInv

LEMMA GateStaged ==
  ASSUME SourceInv, turn.pc \in {"working", "asking", "concluding", "judging"}
  PROVE  /\ turn.n \in Turns /\ turn.start \in Known /\ gate \in GateOf(Known)
         /\ gate.pulled # None => MadeOn(gate.pulled, turn.start, turn.n)
         /\ turn.pc \in {"working", "asking"} => gate.reds < RedBudget
         /\ turn.pc \in {"asking", "judging"} => gate.checking \in Known
         /\ turn.pc = "judging" => gate.checking \in {turn.start, gate.pulled}
  BY Typed DEF SourceInv, StageFollows, WritesFollow, Started, Working, Concluding, GateTypeOK, GateOf, Ref

LEMMA PullFailsFollow ==
  ASSUME SourceInv, PullFails, turn'.n = turn.n
  PROVE  /\ UNCHANGED <<log, vm, gate>> /\ faults' \in 0..MaxFaults
         /\ Grows /\ LogFollows' /\ LogTypeOK' /\ Known' = Known /\ Ref' = Ref
         /\ vm' \in [live : BOOLEAN, tree : Trees, head : Ref', holds : SUBSET Known'] /\ gate' \in GateOf(Known')
<1>1. UNCHANGED <<log, vm, gate>> /\ faults' \in 0..MaxFaults
  BY Typed, BoundAssumption DEF PullFails, Faulty
<1>2. Grows /\ LogFollows' /\ LogTypeOK' /\ Known' = Known /\ Ref' = Ref
  BY <1>1, Typed, StaysFollow DEF Ref
<1> QED BY <1>1, <1>2, Typed DEF VmTypeOK, GateTypeOK, GateOf, Ref

LEMMA DoneKeeps ==
  ASSUME SourceInv, Done
  PROVE  SourceInv'
<1>1. turn.pc = "working" /\ UNCHANGED <<main, mirror, push>>
  BY DEF Done
<1>2. {"asking", "concluding"} \subseteq Stages
  BY DEF Stages, Working, Concluding
<1>3. CASE Pulls /\ Asked(Gate, Candidate) /\ UNCHANGED faults
  <2>1. turn'.n = turn.n
    BY <1>2, <1>3, Typed DEF Asked, Answers, Goes, TurnTypeOK
  <2>2. /\ Grows /\ LogFollows' /\ LogTypeOK' /\ vm'.live = vm.live /\ vm'.tree = vm.tree
        /\ vm' \in [live : BOOLEAN, tree : Trees, head : Ref', holds : SUBSET Known']
        /\ Candidate \in Ref' /\ (Candidate # None => Candidate \in Known')
        /\ Pulled # None => log'[Pulled].by = turn.n /\ log'[Pulled].past = {Pulled} \cup log[turn.start].past
        /\ Gate \in GateOf(Known') /\ Gate.pulled = Pulled /\ Gate.passed = gate.passed /\ Gate.reds = gate.reds
    BY <1>1, <1>3, <2>1, Typed, GateStaged, PullsFollow
  <2>3. CASE Candidate = None \/ Candidate \in Judged(Gate)
    <3>1. Answers(Gate, Candidate) /\ Gate.reds < RedBudget
      BY <1>1, <1>3, <2>2, <2>3, GateStaged DEF Asked
    <3>2. /\ SameTurn /\ turn'.pc \in {"working", "concluding"} /\ turn' = [turn EXCEPT !.pc = turn'.pc]
          /\ gate' \in GateOf(Known') /\ gate'.pulled = Gate.pulled /\ gate'.passed = Gate.passed
          /\ turn'.pc = "working" => gate'.reds < RedBudget
      BY <2>2, <3>1, Typed, AnswersFollow
    <3> QED BY <1>1, <1>3, <2>2, <3>2, Typed, GateKeeps
  <2>4. CASE ~(Candidate = None \/ Candidate \in Judged(Gate))
    <3>1. gate' = [Gate EXCEPT !.checking = Candidate] /\ Goes("asking")
      BY <1>3, <2>4 DEF Asked
    <3>2. SameTurn /\ turn'.pc = "asking" /\ turn' = [turn EXCEPT !.pc = turn'.pc]
      BY <1>2, <3>1, Typed, GoesFields
    <3>3. gate' \in GateOf(Known') /\ gate'.pulled = Pulled /\ gate'.passed = gate.passed /\ gate'.reds < RedBudget /\ gate'.checking \in Known'
      BY <1>1, <2>2, <2>4, <3>1, GateStaged DEF GateOf
    <3> QED BY <1>1, <1>3, <2>2, <3>2, <3>3, Typed, GateKeeps
  <2> QED BY <2>3, <2>4
<1>4. CASE PullFails /\ Goes("concluding")
  <2>1. SameTurn /\ turn'.pc = "concluding" /\ turn' = [turn EXCEPT !.pc = turn'.pc]
    BY <1>2, <1>4, Typed, GoesFields
  <2>2. /\ UNCHANGED <<log, vm, gate>> /\ faults' \in 0..MaxFaults
        /\ Grows /\ LogFollows' /\ LogTypeOK'
        /\ vm' \in [live : BOOLEAN, tree : Trees, head : Ref', holds : SUBSET Known'] /\ gate' \in GateOf(Known')
    BY <1>4, <2>1, PullFailsFollow DEF SameTurn
  <2> QED BY <1>1, <2>1, <2>2, GateStaged, GateKeeps DEF MadeOn
<1> QED BY <1>3, <1>4 DEF Done

LEMMA FinishCheckedKeeps ==
  ASSUME SourceInv, FinishChecked
  PROVE  SourceInv'
<1>1. turn.pc = "asking" /\ UNCHANGED <<log, main, mirror, vm, push>>
  BY DEF FinishChecked
<1>2. /\ turn.n \in Turns /\ turn.start \in Known /\ gate \in GateOf(Known) /\ gate.reds < RedBudget /\ gate.checking \in Known
      /\ gate.pulled # None => log[gate.pulled].by = turn.n /\ log[gate.pulled].past = {gate.pulled} \cup log[turn.start].past
  BY <1>1, GateStaged DEF MadeOn
<1>3. /\ SameTurn /\ turn'.pc \in {"working", "concluding"} /\ turn' = [turn EXCEPT !.pc = turn'.pc]
      /\ gate' \in GateOf(Known) /\ gate'.pulled = gate.pulled /\ faults' \in 0..MaxFaults
      /\ \A v \in gate'.passed : v \in gate.passed \/ Tree(v) \in Passing
      /\ turn'.pc = "working" => gate'.reds < RedBudget
  <2>1. CASE Answers(Verdict(gate.checking), gate.checking) /\ UNCHANGED faults
    <3> DEFINE g == Verdict(gate.checking)
    <3>1. /\ g \in GateOf(Known) /\ g.pulled = gate.pulled /\ g.reds < RedBudget
          /\ \A v \in g.passed : v \in gate.passed \/ Tree(v) \in Passing
      BY <1>2, Typed, VerdictFollow
    <3>2. Answers(g, gate.checking)
      BY <2>1
    <3> HIDE DEF g
    <3>3. /\ SameTurn /\ turn'.pc \in {"working", "concluding"} /\ turn' = [turn EXCEPT !.pc = turn'.pc]
          /\ gate' \in GateOf(Known) /\ gate'.pulled = g.pulled /\ gate'.passed = g.passed
          /\ turn'.pc = "working" => gate'.reds < RedBudget
      BY <3>1, <3>2, Typed, AnswersFollow
    <3> QED BY <2>1, <3>1, <3>3, Typed
  <2>2. CASE Faulty /\ gate' = [gate EXCEPT !.checking = None] /\ Goes("concluding")
    <3>1. "concluding" \in Stages
      BY DEF Stages, Concluding
    <3>2. SameTurn /\ turn'.pc = "concluding" /\ turn' = [turn EXCEPT !.pc = "concluding"]
      BY <2>2, <3>1, Typed, GoesFields
    <3>3. gate' \in GateOf(Known) /\ gate'.pulled = gate.pulled /\ gate'.passed = gate.passed
      BY <1>2, <2>2 DEF GateOf
    <3>4. faults' \in 0..MaxFaults
      BY <2>2, Typed, BoundAssumption DEF Faulty
    <3> QED BY <3>2, <3>3, <3>4
  <2> QED BY <2>1, <2>2 DEF FinishChecked
<1>4. Grows /\ LogFollows' /\ LogTypeOK' /\ Known' = Known /\ Ref' = Ref
  BY <1>1, <1>3, Typed, StaysFollow DEF SameTurn, Ref
<1>5. vm' \in [live : BOOLEAN, tree : Trees, head : Ref', holds : SUBSET Known']
  BY <1>1, <1>4, Typed DEF VmTypeOK
<1>6. \A v \in gate'.passed : v \in gate.passed \/ (v \in Known /\ Tree(v) \in Passing)
  BY <1>3 DEF GateOf
<1> QED BY <1>1, <1>2, <1>3, <1>4, <1>5, <1>6, GateKeeps

\* The turn settles what the gate judged: from here its push ends, with a candidate or with the checkout.
LEMMA SettlesKeeps ==
  ASSUME SourceInv, turn.pc \in {"concluding", "judging"}, UNCHANGED <<main, mirror>>, faults' \in 0..MaxFaults,
         Grows, LogFollows', LogTypeOK', vm'.live = vm.live, vm'.tree = vm.tree,
         vm' \in [live : BOOLEAN, tree : Trees, head : Ref', holds : SUBSET Known'],
         NEW g \in GateOf(Known'), NEW v \in Ref', Settles(g, v),
         \A u \in g.passed : u \in gate.passed \/ (u \in Known /\ Tree(u) \in Passing),
         g.pulled # None => log'[g.pulled].by = turn.n /\ log'[g.pulled].past = {g.pulled} \cup log[turn.start].past,
         v \in {None, turn.start, g.pulled}, v # None => v \in Known' /\ (vm.live => log'[v].tree = vm.tree)
  PROVE  SourceInv'
<1>1. /\ turn.n \in Turns /\ turn.base \in Known /\ turn.start \in Known /\ push[turn.n].end = "open"
      /\ push[turn.n].start = turn.start
  BY DEF SourceInv, StageFollows, Started, Working, Concluding
<1>2. Ref \subseteq Ref' /\ Known \subseteq Known' /\ \A u \in Known : log'[u] = log[u]
  BY DEF Grows, Ref
<1>3. gate' = g /\ Ends(turn.n, IF v = None THEN "snapshot" ELSE "candidate", v) /\ Goes("mirroring")
  BY DEF Settles
<1>4. /\ SameTurn /\ turn'.pc = "mirroring"
      /\ turn' \in [n : Turns \cup {0}, pc : Stages, base : Ref', start : Ref', previous : Ref', alone : BOOLEAN]
  <2>1. "mirroring" \in Stages
    BY DEF Stages, Concluding
  <2> QED BY <1>2, <1>3, <2>1, Typed, GoesFields DEF TurnTypeOK
<1>5. PICK queued \in BOOLEAN :
        push' = [push EXCEPT ![turn.n] = [push[turn.n] EXCEPT !.end = IF v = None THEN "snapshot" ELSE "candidate", !.target = v, !.scheduled = queued]]
  BY <1>1, <1>3, Typed DEF Ends, Push
<1>6. /\ push' \in [Turns -> Push'] /\ \A n \in Turns \ {turn.n} : push'[n] = push[n]
      /\ LET p == push'[turn.n] IN
           /\ p.end = (IF v = None THEN "snapshot" ELSE "candidate") /\ p.target = v
           /\ p.start = push[turn.n].start /\ p.expected = push[turn.n].expected /\ p.written = push[turn.n].written
           /\ p.next = push[turn.n].next /\ p.source = push[turn.n].source /\ p.clean = push[turn.n].clean
  <2> DEFINE end == IF v = None THEN "snapshot" ELSE "candidate"
             q == [push[turn.n] EXCEPT !.end = end, !.target = v, !.scheduled = queued]
  <2>1. Push \subseteq Push'
    BY <1>2 DEF Push
  <2>2. push[turn.n] \in Push' /\ end \in {"snapshot", "candidate"}
    BY <1>1, <2>1, Typed
  <2>3. /\ q \in Push' /\ q.end = end /\ q.target = v
        /\ q.start = push[turn.n].start /\ q.expected = push[turn.n].expected /\ q.written = push[turn.n].written
        /\ q.next = push[turn.n].next /\ q.source = push[turn.n].source /\ q.clean = push[turn.n].clean
    <3> HIDE DEF end
    <3> QED BY <2>2 DEF Push
  <2>4. push' = [push EXCEPT ![turn.n] = q]
    BY <1>5
  <2> HIDE DEF q
  <2>5. push' \in [Turns -> Push'] /\ push'[turn.n] = q /\ \A n \in Turns \ {turn.n} : push'[n] = push[n]
    BY <1>1, <2>1, <2>3, <2>4, Typed
  <2> QED BY <2>3, <2>5
<1>7. TypeOK'
  BY <1>2, <1>3, <1>4, <1>6, Typed DEF TypeOK, VmTypeOK, TurnTypeOK, GateTypeOK, GateOf, Ref
<1>8. StageFollows'
  BY <1>1, <1>2, <1>4, <1>6 DEF SameTurn, StageFollows, Preparing, Working, Started, Concluding
<1>9. PushesFollow'
  BY <1>1, <1>2, <1>4, <1>6 DEF SourceInv, SameTurn, PushesFollow, Unopened
<1>10. WritesFollow'
  <2>1. ASSUME NEW n \in Turns, n = turn.n PROVE WritesOf(n)'
    <3> DEFINE p == push[n]
    <3>1. p.start = turn.start /\ p.expected \in Ref /\ p.next \in Ref /\ p.end = "open"
      BY <1>1, <2>1, Typed DEF Push
    <3>2. /\ p.expected # None => log'[p.expected].by <= n /\ (p.expected \in log'[p.start].past \/ (log'[p.expected].by = n /\ log'[p.expected].past = {p.expected} \cup log'[p.start].past))
          /\ p.next # None => (log'[p.next].by = n /\ log'[p.next].past = {p.next} \cup log'[p.start].past) \/ (p.next = p.start /\ n = turn.n /\ turn.pc = "mirroring")
      <4>1. WritesOf(n)
        BY DEF SourceInv, WritesFollow
      <4> QED BY <1>1, <1>2, <3>1, <4>1 DEF WritesOf, MadeOn, Ref
    <3>3. v # None => v = p.start \/ (log'[v].by = n /\ log'[v].past = {v} \cup log'[p.start].past)
      BY <1>1, <1>2, <2>1, <3>1
    <3> QED BY <1>4, <1>6, <2>1, <3>1, <3>2, <3>3 DEF WritesOf, MadeOn, SameTurn
  <2>2. \A n \in Turns \ {turn.n} : WritesOf(n)'
    BY <1>1, <1>6, WritesStay
  <2> QED BY <1>1, <1>2, <1>3, <1>4, <2>1, <2>2 DEF SameTurn, WritesFollow, MadeOn
<1>11. MainIsBefore'
  BY <1>1, <1>2, <1>4, Typed, SMTT(30) DEF SourceInv, SameTurn, MainIsBefore, Preparing, LogTypeOK, Known
<1>12. PassesTheCheck'
  BY <1>2, <1>3, Typed DEF SourceInv, PassesTheCheck, MainPassesTheCheck, Tree, GateTypeOK
<1>13. CheckoutStays'
  BY <1>1, <1>4, <1>6 DEF SameTurn, CheckoutStays, Tree
<1>14. AloneWithTheMirror'
  BY <1>1, <1>2, <1>4, <1>6 DEF SourceInv, SameTurn, AloneWithTheMirror
<1> QED BY <1>7, <1>8, <1>9, <1>10, <1>11, <1>12, <1>13, <1>14 DEF SourceInv

LEMMA ConcludeKeeps ==
  ASSUME SourceInv, Conclude
  PROVE  SourceInv'
<1>1. turn.pc = "concluding" /\ UNCHANGED <<main, mirror>>
  BY DEF Conclude
<1>2. {"judging", "leaving", "mirroring"} \subseteq Stages
  BY DEF Stages, Concluding
<1>3. CASE /\ Pulls /\ UNCHANGED faults
           /\ IF Candidate = None \/ Candidate \in Judged(Gate) THEN Settles(Gate, Candidate)
              ELSE gate' = [Gate EXCEPT !.checking = Candidate] /\ Goes("judging") /\ UNCHANGED push
  <2>1. turn'.n = turn.n
    BY <1>2, <1>3, Typed DEF Settles, Goes, TurnTypeOK
  <2>2. /\ Grows /\ LogFollows' /\ LogTypeOK' /\ vm'.live = vm.live /\ vm'.tree = vm.tree
        /\ vm' \in [live : BOOLEAN, tree : Trees, head : Ref', holds : SUBSET Known']
        /\ Candidate \in Ref' /\ Candidate \in {None, Pulled, turn.start}
        /\ Candidate # None => Candidate \in Known' /\ log'[Candidate].tree = vm.tree
        /\ Pulled # None => log'[Pulled].by = turn.n /\ log'[Pulled].past = {Pulled} \cup log[turn.start].past
        /\ Gate \in GateOf(Known') /\ Gate.pulled = Pulled /\ Gate.passed = gate.passed
    BY <1>1, <1>3, <2>1, Typed, GateStaged, PullsFollow
  <2>3. CASE Candidate = None \/ Candidate \in Judged(Gate)
    <3> DEFINE g == Gate
               v == Candidate
    <3>1. /\ g \in GateOf(Known') /\ v \in Ref' /\ Settles(g, v) /\ g.passed = gate.passed
          /\ v \in {None, turn.start, g.pulled}
          /\ v # None => v \in Known' /\ log'[v].tree = vm.tree
          /\ g.pulled # None => log'[g.pulled].by = turn.n /\ log'[g.pulled].past = {g.pulled} \cup log[turn.start].past
      BY <1>3, <2>2, <2>3
    <3> HIDE DEF g, v
    <3> QED BY <1>1, <1>3, <2>2, <3>1, Typed, SettlesKeeps
  <2>4. CASE ~(Candidate = None \/ Candidate \in Judged(Gate))
    <3>1. gate' = [Gate EXCEPT !.checking = Candidate] /\ Goes("judging") /\ UNCHANGED push
      BY <1>3, <2>4
    <3>2. SameTurn /\ turn'.pc = "judging" /\ turn' = [turn EXCEPT !.pc = turn'.pc]
      BY <1>2, <3>1, Typed, GoesFields
    <3>3. /\ gate' \in GateOf(Known') /\ gate'.pulled = Pulled /\ gate'.passed = gate.passed
          /\ gate'.checking = Candidate /\ gate'.checking \in Known' /\ gate'.checking \in {turn.start, gate'.pulled}
      BY <2>2, <2>4, <3>1 DEF GateOf
    <3>4. log'[gate'.checking].tree = vm.tree
      BY <2>2, <2>4, <3>3
    <3> QED BY <1>1, <1>3, <2>2, <3>1, <3>2, <3>3, <3>4, Typed, GateKeeps
  <2> QED BY <2>3, <2>4
<1>4. CASE PullFails /\ Goes("leaving") /\ UNCHANGED push
  <2>1. SameTurn /\ turn'.pc = "leaving" /\ turn' = [turn EXCEPT !.pc = turn'.pc]
    BY <1>2, <1>4, Typed, GoesFields
  <2>2. /\ UNCHANGED <<log, vm, gate>> /\ faults' \in 0..MaxFaults
        /\ Grows /\ LogFollows' /\ LogTypeOK'
        /\ vm' \in [live : BOOLEAN, tree : Trees, head : Ref', holds : SUBSET Known'] /\ gate' \in GateOf(Known')
    BY <1>4, <2>1, PullFailsFollow DEF SameTurn
  <2> QED BY <1>1, <1>4, <2>1, <2>2, GateStaged, GateKeeps DEF MadeOn
<1> QED BY <1>3, <1>4 DEF Conclude

LEMMA SettleCheckedKeeps ==
  ASSUME SourceInv, SettleChecked
  PROVE  SourceInv'
<1>1. turn.pc = "judging" /\ UNCHANGED <<log, main, mirror, vm>>
  BY DEF SettleChecked
<1>2. /\ turn.n \in Turns /\ turn.start \in Known /\ gate \in GateOf(Known) /\ gate.checking \in Known
      /\ gate.checking \in {turn.start, gate.pulled}
      /\ gate.pulled # None => log[gate.pulled].by = turn.n /\ log[gate.pulled].past = {gate.pulled} \cup log[turn.start].past
  BY <1>1, GateStaged DEF MadeOn
<1>3. /\ SameTurn /\ turn'.pc \in {"leaving", "mirroring"} /\ turn' = [turn EXCEPT !.pc = turn'.pc]
  <2>1. {"leaving", "mirroring"} \subseteq Stages
    BY DEF Stages, Concluding
  <2> QED BY <2>1, Typed, GoesFields DEF SettleChecked, Settles
<1>4. Grows /\ LogFollows' /\ LogTypeOK' /\ Known' = Known /\ Ref' = Ref
  BY <1>1, <1>3, Typed, StaysFollow DEF SameTurn, Ref
<1>5. vm' \in [live : BOOLEAN, tree : Trees, head : Ref', holds : SUBSET Known']
  BY <1>1, <1>4, Typed DEF VmTypeOK
<1>6. CASE Settles(Verdict(gate.checking), gate.checking) /\ UNCHANGED faults
  <2> DEFINE g == Verdict(gate.checking)
             v == gate.checking
  <2>1. /\ g \in GateOf(Known') /\ g.pulled = gate.pulled
        /\ \A u \in g.passed : u \in gate.passed \/ Tree(u) \in Passing
    BY <1>2, <1>4, Typed, VerdictFollow
  <2>2. \A u \in g.passed : u \in gate.passed \/ (u \in Known /\ Tree(u) \in Passing)
    BY <1>4, <2>1 DEF GateOf
  <2>3. v \in Known /\ v \in Ref' /\ v \in {None, turn.start, gate.pulled} /\ Settles(g, v) /\ (vm.live => log'[v].tree = vm.tree)
    BY <1>1, <1>2, <1>4, <1>6 DEF SourceInv, CheckoutStays, Tree, Ref
  <2> HIDE DEF g, v
  <2> QED BY <1>1, <1>2, <1>4, <1>5, <1>6, <2>1, <2>2, <2>3, Typed, SettlesKeeps
<1>7. CASE Faulty /\ gate' = [gate EXCEPT !.checking = None] /\ Goes("leaving") /\ UNCHANGED push
  <2>1. turn'.pc = "leaving"
    BY <1>7, Typed DEF Goes, TurnTypeOK
  <2>2. gate' \in GateOf(Known') /\ gate'.pulled = gate.pulled /\ gate'.passed = gate.passed
    BY <1>2, <1>4, <1>7 DEF GateOf
  <2>3. faults' \in 0..MaxFaults
    BY <1>7, Typed, BoundAssumption DEF Faulty
  <2> QED BY <1>1, <1>2, <1>3, <1>4, <1>5, <1>7, <2>1, <2>2, <2>3, GateKeeps
<1> QED BY <1>6, <1>7 DEF SettleChecked

\* Steps that change where the turn is and little else.
LEMMA MovesKeep ==
  ASSUME SourceInv, UNCHANGED <<log, mirror, vm, push, gate, faults>>, turn.pc # "rest",
         SameTurn, turn'.pc \in {"leaving", "admitting"}, turn' = [turn EXCEPT !.pc = turn'.pc],
         main' \in Known, main' # main => turn.n > 0 /\ push[turn.n].end = "over",
         MainPassesTheCheck',
         turn.pc = "mirroring" => push[turn.n].end = "over",
         turn'.pc = "admitting" => turn.pc = "mirroring" /\ push[turn.n].target \in gate.passed
  PROVE  SourceInv'
<1>1. turn.n \in Turns /\ turn.base \in Known
  BY DEF SourceInv, StageFollows
<1>2. Grows /\ LogFollows' /\ LogTypeOK' /\ Known' = Known /\ Ref' = Ref
  BY Typed, StaysFollow DEF Ref, SameTurn
<1>3. turn' \in [n : Turns \cup {0}, pc : Stages, base : Ref, start : Ref, previous : Ref, alone : BOOLEAN]
  <2>1. turn'.pc \in Stages
    BY DEF Stages, Concluding
  <2> QED BY <2>1, Typed DEF TurnTypeOK
<1>4. TypeOK'
  BY <1>2, <1>3, Typed DEF TypeOK, VmTypeOK, TurnTypeOK, GateTypeOK, Push
<1>5. StageFollows'
  BY <1>1, <1>2 DEF SourceInv, SameTurn, StageFollows, Preparing, Working, Started, Concluding
<1>6. PushesFollow'
  BY <1>1, <1>2 DEF SourceInv, SameTurn, PushesFollow, Unopened
<1>7. WritesFollow'
  BY <1>2, WritesStay DEF SourceInv, SameTurn, WritesFollow, MadeOn
<1>8. MainIsBefore'
  BY <1>2 DEF SourceInv, SameTurn, MainIsBefore, Preparing
<1>9. PassesTheCheck'
  BY <1>2 DEF SourceInv, PassesTheCheck, Tree
<1>10. CheckoutStays'
  BY <1>1, <1>2 DEF SourceInv, SameTurn, CheckoutStays, Tree
<1>11. AloneWithTheMirror'
  BY <1>1, <1>2 DEF SourceInv, SameTurn, AloneWithTheMirror, Tree, UnchangedFrom
<1> QED BY <1>2, <1>4, <1>5, <1>6, <1>7, <1>8, <1>9, <1>10, <1>11 DEF SourceInv

LEMMA MirroredKeeps ==
  ASSUME SourceInv, Mirrored
  PROVE  SourceInv'
<1>1. /\ turn.pc = "mirroring" /\ push[turn.n].end = "over" /\ UNCHANGED <<log, main, mirror, vm, push, gate, faults>>
      /\ turn'.pc \in {"admitting", "leaving"} /\ SameTurn /\ turn' = [turn EXCEPT !.pc = turn'.pc]
      /\ turn'.pc = "admitting" => push[turn.n].target \in gate.passed
  <2>1. {"admitting", "leaving"} \subseteq Stages
    BY DEF Stages, Concluding
  <2> QED BY <2>1, Typed, GoesFields DEF Mirrored, Passed
<1>2. MainPassesTheCheck'
  BY <1>1 DEF SourceInv, PassesTheCheck, MainPassesTheCheck, Tree
<1> QED BY <1>1, <1>2, Typed, MovesKeep

LEMMA AdmitKeeps ==
  ASSUME SourceInv, Admit
  PROVE  SourceInv'
<1>1. /\ turn.pc = "admitting" /\ push[turn.n].end = "over" /\ UNCHANGED <<log, mirror, vm, push, gate, faults>>
      /\ main' = push[turn.n].target /\ main' \in gate.passed /\ turn.n \in Turns
  BY DEF SourceInv, StageFollows, Admit
<1>2. "leaving" \in Stages
  BY DEF Stages
<1>3. turn'.pc = "leaving" /\ SameTurn /\ turn' = [turn EXCEPT !.pc = turn'.pc]
  BY <1>2, Typed, GoesFields DEF Admit
<1>4. main' \in Known /\ MainPassesTheCheck'
  BY <1>1, Typed DEF SourceInv, PassesTheCheck, MainPassesTheCheck, Tree, GateTypeOK
<1> QED BY <1>1, <1>3, <1>4, MovesKeep DEF Turns

LEMMA FailsKeeps ==
  ASSUME SourceInv, Fails
  PROVE  SourceInv'
<1>1. turn.pc \notin {"rest", "leaving", "mirroring"} /\ UNCHANGED <<log, main, mirror, vm, push, gate, faults>>
  BY DEF Fails
<1>2. "leaving" \in Stages
  BY DEF Stages
<1>3. turn'.pc = "leaving" /\ SameTurn /\ turn' = [turn EXCEPT !.pc = turn'.pc]
  BY <1>2, Typed, GoesFields DEF Fails
<1>4. MainPassesTheCheck'
  BY <1>1 DEF SourceInv, PassesTheCheck, MainPassesTheCheck, Tree
<1> QED BY <1>1, <1>3, <1>4, Typed, MovesKeep

LEMMA TurnOverKeeps ==
  ASSUME SourceInv, TurnOver
  PROVE  SourceInv'
<1>1. /\ turn.pc = "leaving" /\ turn.n \in Turns /\ push[turn.n].end # "open" /\ UNCHANGED <<log, main, mirror, vm, push, gate, faults>>
      /\ turn' = Rest(turn.n) /\ turn'.n = turn.n /\ turn'.pc = "rest"
  BY RestFields DEF SourceInv, StageFollows, TurnOver
<1>2. Grows /\ LogFollows' /\ LogTypeOK' /\ Known' = Known /\ Ref' = Ref
  BY <1>1, Typed, StaysFollow DEF Ref
<1>3. turn' \in [n : Turns \cup {0}, pc : Stages, base : Ref, start : Ref, previous : Ref, alone : BOOLEAN]
  BY <1>1 DEF Rest, Stages, Ref
<1>4. TypeOK'
  BY <1>1, <1>2, <1>3, Typed DEF TypeOK, VmTypeOK, TurnTypeOK, GateTypeOK, Push
<1>5. StageFollows'
  BY <1>1 DEF StageFollows, Preparing, Working, Started, Concluding
<1>6. PushesFollow'
  BY <1>1, <1>2 DEF SourceInv, PushesFollow, Unopened
<1>7. WritesFollow'
  BY <1>1, <1>2, WritesStay DEF WritesFollow
<1>8. MainIsBefore'
  BY <1>1, <1>2 DEF SourceInv, MainIsBefore, Preparing
<1>9. PassesTheCheck'
  BY <1>1, <1>2 DEF SourceInv, PassesTheCheck, MainPassesTheCheck, Tree
<1>10. CheckoutStays' /\ AloneWithTheMirror'
  BY <1>1, <1>2 DEF SourceInv, CheckoutStays, AloneWithTheMirror, Tree, UnchangedFrom
<1> QED BY <1>2, <1>4, <1>5, <1>6, <1>7, <1>8, <1>9, <1>10 DEF SourceInv

LEMMA ExitKeeps ==
  ASSUME SourceInv, Exit
  PROVE  SourceInv'
<1>1. /\ turn.pc = "leaving" /\ push[turn.n].end = "open" /\ turn.n \in Turns /\ turn.start \in Known
      /\ push[turn.n].start = turn.start /\ UNCHANGED <<log, main, mirror, vm, turn, gate, faults>>
  BY DEF SourceInv, StageFollows, Exit
<1>2. Grows /\ LogFollows' /\ LogTypeOK' /\ Known' = Known /\ Ref' = Ref
  BY <1>1, Typed, StaysFollow DEF Ref
<1>3. /\ push' \in [Turns -> Push] /\ \A n \in Turns \ {turn.n} : push'[n] = push[n]
      /\ LET p == push'[turn.n] IN
           /\ p.start = push[turn.n].start /\ p.expected = push[turn.n].expected /\ p.written = push[turn.n].written
           /\ p.next = push[turn.n].next /\ p.source = push[turn.n].source /\ p.clean = push[turn.n].clean
           /\ p.source => p.end = "snapshot" /\ p.target = gate.pulled
           /\ ~p.source => ~p.scheduled /\ p.target = push[turn.n].target /\ p.end = (IF p.next = None THEN "over" ELSE "last")
  <2>1. CASE push[turn.n].source
    <3>1. Ends(turn.n, "snapshot", gate.pulled) /\ gate.pulled \in Ref /\ "snapshot" \in {"snapshot", "candidate"}
      BY <2>1, Typed DEF Exit, GateTypeOK
    <3>2. /\ push' \in [Turns -> Push]
          /\ \A other \in Turns \ {turn.n} : push'[other] = push[other]
          /\ push'[turn.n].end = "snapshot" /\ push'[turn.n].target = gate.pulled
          /\ push'[turn.n].start = push[turn.n].start /\ push'[turn.n].expected = push[turn.n].expected /\ push'[turn.n].written = push[turn.n].written
          /\ push'[turn.n].next = push[turn.n].next /\ push'[turn.n].source = push[turn.n].source /\ push'[turn.n].clean = push[turn.n].clean
      BY <1>1, <3>1, Typed, EndsFields
    <3> QED BY <2>1, <3>2
  <2>2. CASE ~push[turn.n].source
    BY <1>1, <2>2, Typed, ExitFields DEF Exit
  <2> QED BY <2>1, <2>2
<1>4. TypeOK'
  BY <1>1, <1>2, <1>3, Typed DEF TypeOK, VmTypeOK, TurnTypeOK, GateTypeOK, Push
<1>5. StageFollows'
  BY <1>1, <1>2, <1>3 DEF SourceInv, StageFollows, Preparing, Working, Started, Concluding
<1>6. PushesFollow'
  BY <1>1, <1>2, <1>3 DEF SourceInv, PushesFollow, Unopened
<1>7. WritesFollow'
  <2>1. ASSUME NEW n \in Turns, n = turn.n PROVE WritesOf(n)'
    <3> DEFINE p == push[n]
               q == push'[n]
    <3>1. WritesOf(n)
      BY DEF SourceInv, WritesFollow
    <3>2. /\ p.expected # None => log[p.expected].by <= n /\ (p.expected \in log[p.start].past \/ MadeOn(p.expected, p.start, n))
          /\ p.next # None => MadeOn(p.next, p.start, n)
      BY <1>1, <2>1, <3>1 DEF WritesOf
    <3>3. gate.pulled # None => MadeOn(gate.pulled, p.start, n)
      BY <1>1, <2>1 DEF SourceInv, WritesFollow
    <3>4. /\ q.start = p.start /\ q.expected = p.expected /\ q.next = p.next /\ log' = log
          /\ q.end # "candidate" /\ (q.end = "snapshot" => q.target = gate.pulled)
      BY <1>1, <1>3, <2>1
    <3> QED BY <3>2, <3>3, <3>4 DEF WritesOf, MadeOn
  <2>2. \A n \in Turns \ {turn.n} : WritesOf(n)'
    BY <1>1, <1>2, <1>3, WritesStay
  <2> QED BY <1>1, <1>2, <2>1, <2>2 DEF SourceInv, WritesFollow, MadeOn
<1>8. MainIsBefore'
  BY <1>1, <1>2, <1>3 DEF SourceInv, MainIsBefore, Preparing
<1>9. PassesTheCheck'
  BY <1>1, <1>2 DEF SourceInv, PassesTheCheck, MainPassesTheCheck, Tree
<1>10. CheckoutStays' /\ AloneWithTheMirror'
  BY <1>1, <1>2, <1>3 DEF SourceInv, CheckoutStays, AloneWithTheMirror, Tree, UnchangedFrom
<1> QED BY <1>2, <1>4, <1>5, <1>6, <1>7, <1>8, <1>9, <1>10 DEF SourceInv

\* A push that is not over is of a turn that began, and was opened on its start.
LEMMA OpenPush ==
  ASSUME SourceInv, NEW n \in Turns, push[n].end # "over"
  PROVE  /\ n <= turn.n /\ n \in 0..turn.n /\ push[n] \in Push /\ push[n].start \in Known /\ WritesOf(n)
         /\ UnchangedFrom(push[n]) \in Known
<1>1. ~(n > turn.n) /\ push[n].start \in Known /\ WritesOf(n)
  BY DEF SourceInv, PushesFollow, Unopened, WritesFollow
<1>2. n \in Nat /\ push[n] \in Push /\ push[n].written \in Ref
  BY Typed, BoundAssumption DEF Turns, Push
<1> QED BY <1>1, <1>2, Typed DEF UnchangedFrom, Ref

LEMMA PushBeginsKeeps ==
  ASSUME SourceInv, NEW n \in Turns, PushBegins(n)
  PROVE  SourceInv'
<1> DEFINE p == push[n]
           last == ~p.scheduled
           same == IF last THEN p.target ELSE None
           unchanged == UnchangedFrom(p)
           made == Snapshot(unchanged, same)
           To(v, clean) == push' = [push EXCEPT ![n] = [p EXCEPT !.scheduled = FALSE, !.next = v, !.clean = clean,
                                                                 !.end = IF ~last THEN @ ELSE IF v = None THEN "over" ELSE "last"]]
<1>1. /\ p.next = None /\ (p.scheduled \/ p.end = "snapshot") /\ p.end # "over" /\ p.end # "last"
      /\ (last => p.end = "snapshot") /\ UNCHANGED <<main, mirror, turn, gate>>
  BY Typed DEF SourceInv, PushesFollow, PushBegins, Push
<1>2. /\ n <= turn.n /\ n \in 0..turn.n /\ p \in Push /\ p.start \in Known /\ WritesOf(n) /\ unchanged \in Known
      /\ same \in Ref /\ last \in BOOLEAN /\ p.clean \in BOOLEAN
  BY <1>1, OpenPush DEF Push, Ref
<1>3. PICK v \in Ref', clean \in BOOLEAN :
        /\ To(v, clean) /\ (clean => p.clean) /\ faults' \in 0..MaxFaults
        /\ Grows /\ LogFollows' /\ LogTypeOK' /\ vm'.live = vm.live /\ vm'.tree = vm.tree
        /\ vm' \in [live : BOOLEAN, tree : Trees, head : Ref', holds : SUBSET Known']
        /\ v # None => /\ v \in Known' /\ log'[v].tree = vm.tree
                       /\ v = same \/ (log'[v].by = n /\ log'[v].past = {v} \cup log[p.start].past)
        /\ v = None /\ clean => vm.tree = Tree(unchanged)
  <2>1. CASE p.source /\ Snapped(n, p.start, made) /\ To(made, p.clean) /\ UNCHANGED faults
    <3> DEFINE start == p.start
               v == made
    <3>1. v \in Nat /\ v = Snapshot(unchanged, same) /\ Snapped(n, start, v) /\ start \in Known /\ To(v, p.clean)
      BY <1>2, <2>1, Typed, SnapshotNat
    <3> HIDE DEF start, unchanged, same, made, To, v
    <3>2. /\ Grows /\ LogFollows' /\ LogTypeOK'
          /\ v \in Ref' /\ (v = None <=> vm.tree = Tree(unchanged))
          /\ v # None => v \in Known' /\ log'[v].tree = vm.tree
          /\ v \in {None, same} \/ (v \notin Known /\ log'[v].by = n /\ log'[v].past = {v} \cup log[start].past)
          /\ vm'.live = vm.live /\ vm'.tree = vm.tree
          /\ vm' \in [live : BOOLEAN, tree : Trees, head : Ref', holds : SUBSET Known']
      BY <1>1, <1>2, <3>1, Typed, SnappedFollow
    <3> QED BY <1>2, <2>1, <3>1, <3>2, Typed DEF start
  <2>2. CASE UNCHANGED <<log, vm>> /\ faults' \in 0..MaxFaults /\ To(None, FALSE)
    <3> HIDE DEF To
    <3>1. Grows /\ LogFollows' /\ LogTypeOK' /\ Known' = Known /\ Ref' = Ref /\ None \in Ref'
      BY <1>1, <2>2, Typed, StaysFollow DEF Ref
    <3> QED BY <2>2, <3>1, Typed DEF VmTypeOK
  <2>3. \/ p.source /\ Snapped(n, p.start, made) /\ To(made, p.clean) /\ UNCHANGED faults
        \/ UNCHANGED <<log, vm>> /\ (UNCHANGED faults \/ Faulty) /\ To(None, FALSE)
    BY DEF PushBegins
  <2>4. UNCHANGED faults \/ Faulty => faults' \in 0..MaxFaults
    BY Typed, BoundAssumption DEF Faulty
  <2> QED BY <2>1, <2>2, <2>3, <2>4
<1>4. Ref \subseteq Ref' /\ Known \subseteq Known' /\ Push \subseteq Push' /\ \A u \in Known : log'[u] = log[u]
  BY <1>3 DEF Grows, Ref, Push
<1>5. /\ push' \in [Turns -> Push'] /\ \A other \in Turns \ {n} : push'[other] = push[other]
      /\ LET q == push'[n] IN
           /\ q.end = (IF ~last THEN p.end ELSE IF v = None THEN "over" ELSE "last")
           /\ ~q.scheduled /\ q.next = v /\ q.clean = clean
           /\ q.start = p.start /\ q.expected = p.expected /\ q.written = p.written /\ q.target = p.target /\ q.source = p.source
  <2> DEFINE end == IF ~last THEN p.end ELSE IF v = None THEN "over" ELSE "last"
             q == [p EXCEPT !.scheduled = FALSE, !.next = v, !.clean = clean, !.end = end]
  <2>1. end \in {"open", "snapshot", "candidate", "last", "over"} /\ p \in Push'
    BY <1>2, <1>4 DEF Push
  <2>2. /\ q \in Push' /\ q.end = end /\ ~q.scheduled /\ q.next = v /\ q.clean = clean
        /\ q.start = p.start /\ q.expected = p.expected /\ q.written = p.written /\ q.target = p.target /\ q.source = p.source
    <3> HIDE DEF end, p
    <3> QED BY <2>1 DEF Push
  <2>3. push' = [push EXCEPT ![n] = q]
    BY <1>3
  <2> HIDE DEF q
  <2>4. push' \in [Turns -> Push'] /\ push'[n] = q /\ \A other \in Turns \ {n} : push'[other] = push[other]
    BY <1>4, <2>2, <2>3, Typed
  <2> QED BY <2>2, <2>4
<1>6. TypeOK'
  BY <1>1, <1>3, <1>4, <1>5, Typed DEF TypeOK, VmTypeOK, TurnTypeOK, GateTypeOK, Ref
<1>7. StageFollows'
  BY <1>1, <1>4, <1>5 DEF SourceInv, StageFollows, Preparing, Working, Started, Concluding, Unopened
<1>8. PushesFollow'
  BY <1>1, <1>2, <1>3, <1>4, <1>5, Typed DEF SourceInv, PushesFollow, Unopened
<1>9. WritesFollow'
  <2>1. WritesOf(n)'
    <3>1. v # None => log'[v].by = n /\ log'[v].past = {v} \cup log'[p.start].past
      BY <1>1, <1>2, <1>3, <1>4 DEF WritesOf, MadeOn, Ref
    <3>2. p.expected # None => log'[p.expected].by <= n /\ (p.expected \in log'[p.start].past \/ (log'[p.expected].by = n /\ log'[p.expected].past = {p.expected} \cup log'[p.start].past))
      BY <1>1, <1>2, <1>4 DEF WritesOf, MadeOn, Ref, Push
    <3>3. p.target # None /\ p.end = "snapshot" => log'[p.target].by = n /\ log'[p.target].past = {p.target} \cup log'[p.start].past
      BY <1>1, <1>2, <1>4 DEF WritesOf, MadeOn, Ref, Push
    <3>4. p.end = "candidate" => p.target # None /\ (p.target = p.start \/ (log'[p.target].by = n /\ log'[p.target].past = {p.target} \cup log'[p.start].past))
      BY <1>1, <1>2, <1>4, Typed DEF SourceInv, PushesFollow, WritesOf, MadeOn, Ref, Push
    <3> QED BY <1>5, <3>1, <3>2, <3>3, <3>4 DEF WritesOf, MadeOn
  <2>2. \A other \in Turns \ {n} : WritesOf(other)'
    BY <1>1, <1>3, <1>5, WritesStay
  <2>3. (turn.pc # "rest" /\ gate.pulled # None => turn.start \in Known /\ MadeOn(gate.pulled, turn.start, turn.n))'
    BY <1>1, <1>4, Typed DEF SourceInv, WritesFollow, MadeOn, GateTypeOK, Ref
  <2> QED BY <2>1, <2>2, <2>3 DEF WritesFollow
<1>10. MainIsBefore'
  <2>1. turn.n > 0 => turn.n \in Turns
    BY Typed DEF Turns
  <2>2. turn.n > 0 /\ push'[turn.n].end # "over" => push[turn.n].end # "over"
    BY <1>1, <1>5, <2>1
  <2>3. log'[main].past = log[main].past /\ \A u \in log[main].past : log'[u].by = log[u].by
    BY <1>4, Typed DEF LogTypeOK, Known
  <2> QED BY <1>1, <2>2, <2>3 DEF SourceInv, MainIsBefore
<1>11. PassesTheCheck'
  BY <1>1, <1>4, Typed DEF SourceInv, PassesTheCheck, MainPassesTheCheck, Tree, GateTypeOK
<1>12. CheckoutStays'
  BY <1>1, <1>3, <1>4, <1>5, Typed DEF SourceInv, CheckoutStays, StageFollows, Tree, Push, Ref
<1>13. AloneWithTheMirror'
  BY <1>1, <1>2, <1>3, <1>4, <1>5, Typed DEF SourceInv, AloneWithTheMirror, Tree, UnchangedFrom, Push, Ref
<1> QED BY <1>3, <1>6, <1>7, <1>8, <1>9, <1>10, <1>11, <1>12, <1>13 DEF SourceInv

LEMMA EndsWithCandidateKeeps ==
  ASSUME SourceInv, NEW n \in Turns, EndsWithCandidate(n)
  PROVE  SourceInv'
<1> DEFINE p == push[n]
<1>1. /\ p.end = "candidate" /\ p.next = None /\ ~p.scheduled /\ n = turn.n /\ turn.pc = "mirroring" /\ p.target \in Known
      /\ (p.source => vm.live) /\ UNCHANGED <<log, main, mirror, vm, turn, gate, faults>> /\ p.start \in Known
  BY DEF SourceInv, PushesFollow, EndsWithCandidate
<1>2. Grows /\ LogFollows' /\ LogTypeOK' /\ Known' = Known /\ Ref' = Ref
  BY <1>1, Typed, StaysFollow DEF Ref
<1>3. /\ push' \in [Turns -> Push]
      /\ \A other \in Turns \ {n} : push'[other] = push[other]
      /\ LET q == push'[n] IN
           /\ q.end = "last" /\ q.next = p.target /\ q.scheduled = p.scheduled
           /\ q.start = p.start /\ q.expected = p.expected /\ q.written = p.written
           /\ q.target = p.target /\ q.source = p.source /\ q.clean = p.clean
  BY Typed, CandidateFields
<1>4. TypeOK'
  BY <1>1, <1>2, <1>3, Typed DEF TypeOK, VmTypeOK, TurnTypeOK, GateTypeOK, Push
<1>5. StageFollows'
  BY <1>1, <1>2, <1>3 DEF SourceInv, StageFollows, Preparing, Working, Started, Concluding
<1>6. PushesFollow'
  BY <1>1, <1>2, <1>3, Typed DEF SourceInv, PushesFollow, Unopened
<1>7. WritesFollow'
  <2>1. WritesOf(n)'
    <3>1. WritesOf(n)
      BY DEF SourceInv, WritesFollow
    <3> QED BY <1>1, <1>3, <3>1, SMTT(30) DEF WritesOf, MadeOn
  <2>2. \A other \in Turns \ {n} : WritesOf(other)'
    BY <1>1, <1>2, <1>3, WritesStay
  <2> QED BY <1>1, <1>2, <2>1, <2>2 DEF SourceInv, WritesFollow, MadeOn
<1>8. MainIsBefore'
  BY <1>1, <1>2, <1>3 DEF SourceInv, MainIsBefore, Preparing
<1>9. PassesTheCheck'
  BY <1>1, <1>2 DEF SourceInv, PassesTheCheck, MainPassesTheCheck, Tree
<1>10. CheckoutStays' /\ AloneWithTheMirror'
  BY <1>1, <1>2, <1>3, Typed DEF SourceInv, CheckoutStays, AloneWithTheMirror, Tree, UnchangedFrom
<1> QED BY <1>2, <1>4, <1>5, <1>6, <1>7, <1>8, <1>9, <1>10 DEF SourceInv

\* What a write of the mirror does: it lands, and the next expects it, or it does not.
LEMMA LandingFollows ==
  ASSUME SourceInv, NEW n \in Turns, PushLands(n)
  PROVE  LET p == push[n]
             q == push'[n] IN
         /\ p.next # None /\ p.next \in Known /\ UNCHANGED <<log, main, vm, turn, gate>> /\ faults' \in 0..MaxFaults
         /\ push' \in [Turns -> Push]
         /\ \A other \in Turns \ {n} : push'[other] = push[other]
         /\ q.end = (IF p.end = "last" THEN "over" ELSE p.end) /\ q.scheduled = p.scheduled /\ q.next = None
         /\ q.start = p.start /\ q.target = p.target /\ q.source = p.source
         /\ \/ /\ mirror \in {p.expected, p.next} /\ mirror' = p.next
               /\ q.expected = p.next /\ q.written = p.next /\ q.clean = p.clean
            \/ /\ mirror' = mirror /\ mirror # p.expected
               /\ q.expected = p.expected /\ q.written = p.written /\ q.clean = p.clean
            \/ /\ mirror' = mirror \/ (mirror \in {p.expected, p.next} /\ mirror' = p.next)
               /\ q.expected = p.expected /\ q.written = p.written /\ ~q.clean
<1> DEFINE p == push[n]
           After(head, clean) == push' = [push EXCEPT ![n] = [head EXCEPT !.next = None, !.clean = clean,
                                                                 !.end = IF @ = "last" THEN "over" ELSE @]]
<1>1. p \in Push /\ p.next # None /\ p.next \in Known /\ p.clean \in BOOLEAN /\ UNCHANGED <<log, main, vm, turn, gate>>
  BY Typed DEF PushLands, Push, Ref
<1>2. CASE MoveRef(p.expected, p.next) /\ After([p EXCEPT !.expected = p.next, !.written = p.next], p.clean) /\ UNCHANGED faults
  <2>1. mirror \in {p.expected, p.next} /\ mirror' = p.next
    BY <1>2 DEF MoveRef
  <2>2. push' = [push EXCEPT ![n] = [[push[n] EXCEPT !.expected = push[n].next, !.written = push[n].next]
                                     EXCEPT !.next = None, !.clean = push[n].clean, !.end = IF @ = "last" THEN "over" ELSE @]]
    BY <1>2
  <2>3. push[n].clean \in BOOLEAN /\ push \in [Turns -> Push]
    BY <1>1, Typed
  <2> DEFINE clean == push[n].clean
  <2>4. clean \in BOOLEAN
    BY <2>3
  <2>5. push' = [push EXCEPT ![n] = [[push[n] EXCEPT !.expected = push[n].next, !.written = push[n].next]
                                     EXCEPT !.next = None, !.clean = clean, !.end = IF @ = "last" THEN "over" ELSE @]]
    BY <2>2
  <2>6. clean = p.clean
    OBVIOUS
  <2> HIDE DEF clean
  <2>7. /\ push' \in [Turns -> Push]
        /\ \A other \in Turns \ {n} : push'[other] = push[other]
        /\ push'[n].end = (IF push[n].end = "last" THEN "over" ELSE push[n].end) /\ push'[n].scheduled = push[n].scheduled
        /\ push'[n].expected = push[n].next /\ push'[n].written = push[n].next
        /\ push'[n].next = None /\ push'[n].clean = clean
        /\ push'[n].start = push[n].start /\ push'[n].target = push[n].target /\ push'[n].source = push[n].source
    BY <2>3, <2>4, <2>5, LandedFields
  <2>8. faults' \in 0..MaxFaults
    BY <1>2, Typed
  <2> QED BY <1>1, <2>1, <2>6, <2>7, <2>8
<1>3. CASE RefMoved(p.expected, p.next) /\ After(p, p.clean) /\ UNCHANGED <<mirror, faults>>
  BY <1>1, <1>3, Typed, UnlandedFields DEF RefMoved
<1>4. CASE Faulty /\ After(p, FALSE) /\ (UNCHANGED mirror \/ MoveRef(p.expected, p.next))
  <2>1. faults' \in 0..MaxFaults
    BY <1>4, Typed, BoundAssumption DEF Faulty
  <2> QED BY <1>1, <1>4, <2>1, Typed, UnlandedFields DEF MoveRef
<1> QED BY <1>2, <1>3, <1>4 DEF PushLands

LEMMA PushLandsKeeps ==
  ASSUME SourceInv, NEW n \in Turns, PushLands(n)
  PROVE  SourceInv'
<1> DEFINE p == push[n]
           q == push'[n]
<1>1. /\ p.next # None /\ p.next \in Known /\ UNCHANGED <<log, main, vm, turn, gate>> /\ faults' \in 0..MaxFaults
      /\ push' \in [Turns -> Push]
      /\ \A other \in Turns \ {n} : push'[other] = push[other]
      /\ q.end = (IF p.end = "last" THEN "over" ELSE p.end) /\ q.scheduled = p.scheduled /\ q.next = None
      /\ q.start = p.start /\ q.target = p.target /\ q.source = p.source
  BY LandingFollows
<1>2. \/ /\ mirror \in {p.expected, p.next} /\ mirror' = p.next
         /\ q.expected = p.next /\ q.written = p.next /\ q.clean = p.clean
      \/ /\ mirror' = mirror /\ mirror # p.expected
         /\ q.expected = p.expected /\ q.written = p.written /\ q.clean = p.clean
      \/ /\ mirror' = mirror \/ (mirror \in {p.expected, p.next} /\ mirror' = p.next)
         /\ q.expected = p.expected /\ q.written = p.written /\ ~q.clean
  BY LandingFollows
<1>3. p.end # "over" /\ (p.end = "last" => ~p.scheduled)
  BY <1>1 DEF SourceInv, PushesFollow
<1>4. Grows /\ LogFollows' /\ LogTypeOK' /\ Known' = Known /\ Ref' = Ref
  BY <1>1, Typed, StaysFollow DEF Ref
<1>5. TypeOK'
  BY <1>1, <1>2, <1>4, Typed DEF TypeOK, VmTypeOK, TurnTypeOK, GateTypeOK, Push, Ref
<1>6. StageFollows'
  BY <1>1, <1>3, <1>4 DEF SourceInv, StageFollows, Preparing, Working, Started, Concluding, Unopened
<1>7. PushesFollow'
  BY <1>1, <1>3, <1>4, Typed DEF SourceInv, PushesFollow, Unopened
<1>8. WritesFollow'
  <2>1. WritesOf(n)'
    <3>1. p.start \in Known /\ n \in 0..turn.n /\ WritesOf(n)
      BY <1>3, OpenPush
    <3>2. log[p.next].by <= n /\ (p.next \in log[p.start].past \/ MadeOn(p.next, p.start, n))
      BY <1>1, <1>3, <3>1, Typed DEF WritesOf, MadeOn, LogTypeOK
    <3> QED BY <1>1, <1>2, <1>3, <3>1, <3>2 DEF WritesOf, MadeOn
  <2>2. \A other \in Turns \ {n} : WritesOf(other)'
    BY <1>1, <1>4, WritesStay
  <2> QED BY <1>1, <1>4, <2>1, <2>2 DEF SourceInv, WritesFollow, MadeOn
<1>9. MainIsBefore'
  <2>1. turn.n > 0 => turn.n \in Turns
    BY Typed DEF Turns
  <2> QED BY <1>1, <1>3, <1>4, <2>1 DEF SourceInv, MainIsBefore
<1>10. PassesTheCheck'
  BY <1>1, <1>4 DEF SourceInv, PassesTheCheck, MainPassesTheCheck, Tree
<1>11. CheckoutStays'
  BY <1>1, <1>4, Typed DEF SourceInv, StageFollows, CheckoutStays, Tree
<1>12. AloneWithTheMirror'
  <2>1. turn.n > 0 => turn.n \in Turns
    BY Typed DEF Turns
  <2>2. ~(turn.pc \in {"merging", "seeding"} /\ turn.alone)
    BY <1>3 DEF SourceInv, AloneWithTheMirror
  <2>3. turn.n > 0 /\ push'[turn.n].clean => n = turn.n
    BY <1>1, <1>3, <2>1 DEF SourceInv, AloneWithTheMirror
  <2>4. ASSUME n = turn.n, q.clean
        PROVE  /\ p.clean /\ mirror = p.expected /\ mirror' = p.next /\ q.expected = p.next /\ q.written = p.next
               /\ \A other \in Turns \ {turn.n} : push[other].end = "over"
               /\ p.source /\ p.end = "last" => Tree(p.next) = vm.tree
    <3>1. p.clean
      BY <1>2, <2>4
    <3>2. /\ mirror = p.expected
          /\ \A other \in Turns \ {turn.n} : push[other].end = "over"
          /\ p.source /\ p.end = "last" => Tree(p.next) = vm.tree
      BY <2>4, <3>1 DEF SourceInv, AloneWithTheMirror, Turns
    <3> QED BY <1>2, <2>4, <3>1, <3>2
  <2> QED BY <1>1, <1>3, <1>4, <2>2, <2>3, <2>4 DEF AloneWithTheMirror, Tree, UnchangedFrom
<1> QED BY <1>4, <1>5, <1>6, <1>7, <1>8, <1>9, <1>10, <1>11, <1>12 DEF SourceInv

LEMMA OthersAdmitKeeps ==
  ASSUME SourceInv, OthersAdmit
  PROVE  SourceInv'
<1>1. turn.pc = "rest" /\ main' = New /\ UNCHANGED <<mirror, vm, turn, push, gate, faults>>
  BY DEF OthersAdmit
<1>2. PICK t \in Passing : Makes(t, {main}, 0)
  BY DEF OthersAdmit
<1>3. /\ New \notin Known /\ New # None /\ Known' = Known \cup {New}
      /\ \A v \in Known : log'[v] = log[v]
      /\ log'[New].tree = t /\ log'[New].by = 0
      /\ log'[New].past = {New} \cup UNION {log[p].past : p \in {main}}
      /\ LogFollows' /\ LogTypeOK'
  <2>1. t \in Trees /\ {main} \in SUBSET Known /\ 0 \in 0..turn.n
    BY Typed, TreesAssumption
  <2> QED BY <1>1, <1>2, <2>1, Typed, MakesFollow
<1>4. Grows /\ Ref \subseteq Ref' /\ Known \subseteq Known' /\ Push \subseteq Push'
  BY <1>3 DEF Grows, Ref, Push
<1>5. TypeOK'
  BY <1>1, <1>3, <1>4, Typed DEF TypeOK, VmTypeOK, TurnTypeOK, GateTypeOK, Ref
<1>6. StageFollows'
  BY <1>1 DEF StageFollows, Preparing, Working, Started, Concluding
<1>7. PushesFollow'
  BY <1>1, <1>4 DEF SourceInv, PushesFollow, Unopened
<1>8. WritesFollow'
  BY <1>1, <1>4, WritesStay DEF WritesFollow
<1>9. MainIsBefore'
  BY <1>1, <1>3, Typed, SMTT(30) DEF SourceInv, MainIsBefore, Preparing, LogTypeOK, Known
<1>10. PassesTheCheck'
  BY <1>1, <1>3, Typed DEF SourceInv, PassesTheCheck, MainPassesTheCheck, Tree, GateTypeOK
<1>11. CheckoutStays'
  BY <1>1 DEF CheckoutStays
<1>12. AloneWithTheMirror'
  <2>1. turn.n > 0 => turn.n \in Turns
    BY Typed DEF Turns
  <2>2. turn.n > 0 /\ push[turn.n].clean =>
          /\ UnchangedFrom(push[turn.n]) \in Known
          /\ push[turn.n].end = "last" => push[turn.n].next \in Known
    <3>1. turn.n > 0 => push[turn.n] \in Push
      BY <2>1, Typed
    <3> QED BY <2>1, <3>1 DEF SourceInv, PushesFollow, UnchangedFrom, Push, Ref
  <2>3. UnchangedFrom(push[turn.n])' = UnchangedFrom(push[turn.n])
    BY <1>1 DEF UnchangedFrom
  <2> QED BY <1>1, <1>3, <2>2, <2>3 DEF SourceInv, AloneWithTheMirror, Tree
<1> QED BY <1>3, <1>5, <1>6, <1>7, <1>8, <1>9, <1>10, <1>11, <1>12 DEF SourceInv

-----------------------------------------------------------------------------
(* The specification *)

LEMMA SourceInvInit ==
  ASSUME Init
  PROVE  SourceInv
<1> DEFINE c == [tree |-> Starter, by |-> 0, past |-> {1}]
<1>1. c \in [tree : Trees, by : Nat, past : SUBSET Nat] /\ c.tree = Starter /\ c.by = 0 /\ c.past = {1}
  BY TreesAssumption
<1>2. log = <<c>>
  BY DEF Init
<1> HIDE DEF c
<1>3. log \in Seq([tree : Trees, by : Nat, past : SUBSET Nat]) /\ Len(log) = 1 /\ log[1] = c /\ log # <<>>
  BY <1>1, <1>2
<1>4. Known = {1} /\ Ref = {0, 1}
  BY <1>3 DEF Known, Ref, None
<1>5. /\ turn = [n |-> 0, pc |-> "rest", base |-> None, start |-> None, previous |-> None, alone |-> TRUE]
      /\ gate = [pulled |-> None, passed |-> {}, failed |-> {}, reds |-> 0, checking |-> None]
      /\ vm = [live |-> FALSE, tree |-> Starter, head |-> None, holds |-> {}]
      /\ main = 1 /\ mirror = None /\ faults = 0
  BY DEF Init, Rest, FreshGate, NoVm
<1>6. /\ push \in [Turns -> Push]
      /\ \A n \in Turns : push[n].end = "over" /\ push[n].next = None /\ ~push[n].scheduled /\ ~push[n].source /\ ~push[n].clean
  <2>1. push = [n \in Turns |-> NoPush]
    BY DEF Init
  <2> QED BY <2>1, NoPushFields
<1>7. TypeOK
  <2>1. LogTypeOK
    BY <1>1, <1>3, <1>4, <1>5, TreesAssumption DEF LogTypeOK, Tree
  <2>2. VmTypeOK
    BY <1>4, <1>5, TreesAssumption DEF VmTypeOK, None
  <2>3. TurnTypeOK
    BY <1>4, <1>5 DEF TurnTypeOK, None, Stages
  <2>4. GateTypeOK
    BY <1>4, <1>5, BudgetAssumption DEF GateTypeOK, None
  <2> QED BY <1>4, <1>5, <1>6, <2>1, <2>2, <2>3, <2>4, BoundAssumption DEF TypeOK, None
<1>8. LogFollows
  BY <1>1, <1>3, <1>4 DEF LogFollows
<1>9. StageFollows
  BY <1>5 DEF StageFollows, Started, Preparing, Working, Concluding
<1>10. PushesFollow
  BY <1>5, <1>6 DEF PushesFollow, Unopened
<1>11. WritesFollow
  BY <1>5, <1>6 DEF WritesFollow, WritesOf
<1>12. MainIsBefore
  BY <1>5 DEF MainIsBefore, Preparing
<1>13. PassesTheCheck
  BY <1>5 DEF PassesTheCheck, MainPassesTheCheck
<1>14. CheckoutStays /\ AloneWithTheMirror
  BY <1>5 DEF CheckoutStays, AloneWithTheMirror
<1> QED BY <1>7, <1>8, <1>9, <1>10, <1>11, <1>12, <1>13, <1>14 DEF SourceInv

LEMMA SourceInvStutters ==
  ASSUME SourceInv, UNCHANGED vars
  PROVE  SourceInv'
<1>1. /\ log' = log /\ main' = main /\ mirror' = mirror /\ vm' = vm /\ turn' = turn /\ push' = push
      /\ gate' = gate /\ faults' = faults
  BY DEF vars
<1>2. Known' = Known /\ Ref' = Ref /\ Push' = Push
  BY <1>1 DEF Known, Ref, Push
<1>3. TypeOK' /\ LogFollows'
  BY <1>1, <1>2 DEF SourceInv, TypeOK, LogTypeOK, VmTypeOK, TurnTypeOK, GateTypeOK, Tree, LogFollows
<1>4. StageFollows' /\ PushesFollow' /\ MainIsBefore'
  BY <1>1, <1>2 DEF SourceInv, StageFollows, PushesFollow, MainIsBefore, Unopened
<1>5. WritesFollow'
  <2>1. \A n \in Turns : WritesOf(n)'
    BY <1>1 DEF SourceInv, WritesFollow, WritesOf, MadeOn
  <2> QED BY <1>1, <1>2, <2>1 DEF SourceInv, WritesFollow, MadeOn
<1>6. PassesTheCheck' /\ CheckoutStays'
  BY <1>1 DEF SourceInv, PassesTheCheck, MainPassesTheCheck, CheckoutStays, Tree
<1>7. AloneWithTheMirror'
  BY <1>1 DEF SourceInv, AloneWithTheMirror, UnchangedFrom, Tree
<1> QED BY <1>3, <1>4, <1>5, <1>6, <1>7 DEF SourceInv

LEMMA SourceInvStep ==
  ASSUME SourceInv, [Next]_vars
  PROVE  SourceInv'
<1>1. CASE TurnBegins
  BY <1>1, TurnBeginsKeeps
<1>2. CASE StartTurn
  BY <1>2, StartTurnKeeps
<1>3. CASE MergeLands
  BY <1>3, MergeLandsKeeps
<1>4. CASE StartCheckout
  BY <1>4, StartCheckoutKeeps
<1>5. CASE SeedFails
  BY <1>5, SeedFailsKeeps
<1>6. CASE Done
  BY <1>6, DoneKeeps
<1>7. CASE FinishChecked
  BY <1>7, FinishCheckedKeeps
<1>8. CASE Conclude
  BY <1>8, ConcludeKeeps
<1>9. CASE SettleChecked
  BY <1>9, SettleCheckedKeeps
<1>10. CASE Mirrored
  BY <1>10, MirroredKeeps
<1>11. CASE Admit
  BY <1>11, AdmitKeeps
<1>12. CASE Exit
  BY <1>12, ExitKeeps
<1>13. CASE TurnOver
  BY <1>13, TurnOverKeeps
<1>14. ASSUME NEW n \in Turns, PushBegins(n) PROVE SourceInv'
  BY <1>14, PushBeginsKeeps
<1>15. ASSUME NEW n \in Turns, EndsWithCandidate(n) PROVE SourceInv'
  BY <1>15, EndsWithCandidateKeeps
<1>16. ASSUME NEW n \in Turns, PushLands(n) PROVE SourceInv'
  BY <1>16, PushLandsKeeps
<1>17. CASE Edit
  BY <1>17, EditKeeps
<1>18. CASE Fails
  BY <1>18, FailsKeeps
<1>19. CASE VmLost
  BY <1>19, VmLostKeeps
<1>20. CASE OthersAdmit
  BY <1>20, OthersAdmitKeeps
<1>21. CASE UNCHANGED vars
  BY <1>21, SourceInvStutters
<1> QED BY <1>1, <1>2, <1>3, <1>4, <1>5, <1>6, <1>7, <1>8, <1>9, <1>10, <1>11, <1>12, <1>13, <1>14, <1>15, <1>16,
           <1>17, <1>18, <1>19, <1>20, <1>21 DEF Next, Step

\* The inductive invariant: where a turn, its push and its gate are says what they may hold, a push writes
\* only what its turn made on its start, and a push alone with the mirror knows what the mirror is.
THEOREM SourceInvHolds == Spec => []SourceInv
<1>1. Init => SourceInv
  BY SourceInvInit
<1>2. SourceInv /\ [Next]_vars => SourceInv'
  BY SourceInvStep
<1> QED BY <1>1, <1>2, PTL DEF Spec

\* The revisions, the machine, the turn, its pushes and its gate hold only what their types say, and the red
\* finishes of a turn never go past the budget (candidate-gate.ts finish).
THEOREM TypeCorrect == Spec => []TypeOK
<1>1. SourceInv => TypeOK
  BY DEF SourceInv
<1> QED BY <1>1, SourceInvHolds, PTL

\* Main is what the Project began with, or a revision the check passed: no merge, no stale verdict and no
\* write of an earlier turn brings another to it (judge.ts, candidate-gate.ts, run.ts conclude).
THEOREM MainPasses == Spec => []MainPassesTheCheck
<1>1. SourceInv => MainPassesTheCheck
  BY DEF SourceInv, PassesTheCheck
<1> QED BY <1>1, SourceInvHolds, PTL

\* A turn alone with the mirror, whose writes met no fault, ends with the mirror, or the start it never
\* left, holding the checkout as it is (mirror.ts end).
THEOREM TurnIsMirrored == Spec => []EndedTurnIsMirrored
<1>1. SourceInv => EndedTurnIsMirrored
  BY DEF SourceInv, AloneWithTheMirror, UnchangedFrom, EndedTurnIsMirrored
<1> QED BY <1>1, SourceInvHolds, PTL

\* What a run admits is what its turn left in the checkout (run.ts conclude, candidate-gate.ts).
THEOREM AdmittedIsLeft == Spec => AdmittedIsWhatTheTurnLeft
<1>1. SourceInv /\ [Next]_vars => [Admit /\ vm.live => Tree(main') = vm.tree]_vars
  <2> SUFFICES ASSUME SourceInv, Admit, vm.live PROVE Tree(main') = vm.tree
    OBVIOUS
  <2>1. turn.pc = "admitting" /\ main' = push[turn.n].target
    BY DEF Admit
  <2>2. push[turn.n].target # None
    BY <2>1 DEF SourceInv, StageFollows, TypeOK, GateTypeOK, LogFollows, Known, None
  <2> QED BY <2>1, <2>2 DEF SourceInv, CheckoutStays, Tree
<1> QED BY <1>1, SourceInvHolds, PTL DEF Spec, AdmittedIsWhatTheTurnLeft

\* A write of the mirror keeps what of main the mirror held, or is a write an earlier turn left behind, over
\* what that turn or one before it wrote (conexus-git.ts startTurn, moveRef; mirror.ts).
LEMMA WriteKeepsMain ==
  ASSUME SourceInv, NEW n \in Turns, PushLands(n), mirror # None, mirror' # mirror
  PROVE  \/ log[mirror].past \cap log[main].past \subseteq log'[mirror'].past
         \/ log[mirror].by <= log'[mirror'].by /\ log'[mirror'].by < turn.n
<1> DEFINE p == push[n]
<1>1. p.next # None /\ p.next \in Known /\ log' = log /\ mirror = p.expected /\ mirror' = p.next
  BY LandingFollows
<1>2. p.end # "over" /\ p.start \in Known /\ n \in 0..turn.n /\ WritesOf(n)
  BY <1>1, OpenPush DEF SourceInv, PushesFollow
<1>3. p.expected # None /\ p.expected \in Known
  BY <1>1, Typed DEF Ref
<1>4. /\ log[p.expected].by <= n /\ (p.expected \in log[p.start].past \/ MadeOn(p.expected, p.start, n))
      /\ MadeOn(p.next, p.start, n) \/ (p.next = p.start /\ n = turn.n)
  BY <1>1, <1>2, <1>3 DEF WritesOf
<1>5. CASE n # turn.n
  BY <1>1, <1>2, <1>4, <1>5, Typed DEF MadeOn
<1>6. CASE n = turn.n
  <2>1. log[p.start].past \subseteq log[p.next].past
    BY <1>4 DEF MadeOn
  <2>2. CASE p.expected \in log[p.start].past
    BY <1>1, <1>2, <2>1, <2>2 DEF SourceInv, LogFollows
  <2>3. CASE MadeOn(p.expected, p.start, n)
    <3>1. n > 0
      BY DEF Turns
    <3>2. p.expected \notin log[main].past
      BY <1>2, <1>6, <2>3, <3>1 DEF SourceInv, MainIsBefore, MadeOn
    <3> QED BY <1>1, <2>1, <2>3, <3>2 DEF MadeOn
  <2> QED BY <1>4, <2>2, <2>3
<1> QED BY <1>5, <1>6

\* What of main was brought into a conversation stays in its mirror, whatever merges, writes and late
\* writes of earlier turns come (conexus-git.ts startTurn, moveRef).
THEOREM KeepsMain == Spec => MirrorKeepsMain
<1> DEFINE Keeps == mirror # None =>
             \/ log[mirror].past \cap log[main].past \subseteq log'[mirror'].past
             \/ log[mirror].by <= log'[mirror'].by /\ log'[mirror'].by < turn.n
<1>1. ASSUME SourceInv, [Next]_vars, mirror' # mirror PROVE Keeps
  <2>1. MergeLands \/ \E n \in Turns : PushLands(n)
    BY <1>1 DEF Next, Step, TurnBegins, StartTurn, StartCheckout, SeedFails, Done, FinishChecked, Conclude, SettleChecked,
                Mirrored, Admit, Exit, TurnOver, PushBegins, EndsWithCandidate, Edit, Fails, VmLost, OthersAdmit, vars
  <2>2. CASE MergeLands
    <3>1. turn.pc = "merging" /\ mirror' = turn.start /\ log' = log
      BY <1>1, <2>2 DEF MergeLands, MoveRef
    <3>2. main = turn.base /\ log[turn.base].past \subseteq log[turn.start].past
      BY <1>1, <3>1 DEF SourceInv, StageFollows, Preparing
    <3> QED BY <3>1, <3>2
  <2>3. ASSUME NEW n \in Turns, PushLands(n), mirror # None PROVE Keeps
    BY <1>1, <2>3, WriteKeepsMain
  <2> QED BY <2>1, <2>2, <2>3
<1>2. SourceInv /\ [Next]_vars => [Keeps]_mirror
  BY <1>1
<1> QED BY <1>2, SourceInvHolds, PTL DEF Spec, MirrorKeepsMain

=============================================================================
