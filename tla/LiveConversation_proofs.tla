------------------------ MODULE LiveConversation_proofs ------------------------
(***************************************************************************)
(* What holds of a conversation's instance, its run and its machine for any *)
(* number of instances, machines, runs, questions, keys and faults.         *)
(***************************************************************************)
EXTENDS LiveConversation, SequenceTheorems, TLAPS

-----------------------------------------------------------------------------
(* The inductive invariant *)

Placed == Runs \ {"queued", "leaving", "ending", "releasing"}

\* Where a run is says what it has: its instance, its incarnation, its hold and its open question.
StageFollows ==
  /\ run.pc \in {"queued", "opening"} => run.incarnation = None /\ ~run.started /\ ~run.prepared
  /\ run.pc \in {"none", "queued"} => run.instance = None /\ ~run.prepared
  /\ run.pc \in Placed => run.instance # None
  /\ run.incarnation # None => run.instance # None
  /\ run.pc \in {"preparing", "joining", "working", "asked"} => run.held
  /\ run.pc \in {"preparing", "joining"} => ~run.prepared
  /\ run.pc \in {"working", "asked", "waiting", "resuming"} => run.prepared
  /\ run.held => run.pc \in {"preparing", "joining", "working", "asked", "leaving"} /\ run.instance # None
  /\ run.pc \in {"asked", "waiting"} => inbox.question > 0
  /\ run.pc # "asked" => inbox.slot = NoReply

\* What was accepted was accepted for a question asked, and for this one only if its wait has its end.
RepliesFollow ==
  /\ \A a \in inbox.accepted : a.at <= inbox.question
  /\ inbox.accepting /\ inbox.slot = NoReply => \A a \in inbox.accepted : a.at # inbox.question
  /\ inbox.slot # NoReply => inbox.slot \in inbox.accepted

\* An instance let go of is no longer the conversation's, and what a run opens its session for is its own.
EntryFollows ==
  /\ retiring # None => entry = None
  /\ run.pc = "joining" => opening["run"] = run.instance

\* The run's deadline is the last its instance sets from the start of a hold to its end.
DeadlineFollows ==
  run.pc = "holding" \/ run.held =>
    /\ lane[run.instance] # <<>> => Last(lane[run.instance]) = "run"
    /\ Running(vmOf[run.instance]) /\ lane[run.instance] = <<>> /\ ~stray => machines[vmOf[run.instance]].deadline = "run"

\* A machine that was named was made.
MachinesKnown ==
  /\ recorded # None => machines[recorded].state # "none"
  /\ \A i \in Instances : vmOf[i] # None => machines[vmOf[i]].state # "none"

\* Of the instances that were let go of, only one whose kill failed may still set a deadline.
OnlyTheEntrySets ==
  ~stray => \A i \in Instances :
    lane[i] # <<>> => i = entry \/ (run.pc = "killing" /\ i = run.instance) \/ ~Alive(vmOf[i])

\* An instance with a deadline to set is not idle, unless a run will say at its end that it is not.
UsedWhilePending ==
  entry # None /\ ~used =>
    /\ lane[entry] # <<>> => run.prepared
    /\ run.instance # None => run.prepared

\* How many deadlines an instance may have to set.
LanesShort ==
  \A i \in Instances :
    /\ Len(lane[i]) <= 3 \/ (run.pc = "holding" /\ i = run.instance /\ Len(lane[i]) <= 4)
    /\ i = run.instance =>
         /\ run.held => Len(lane[i]) <= 1
         /\ run.pc \in {"waiting", "resuming"} => Len(lane[i]) <= 2
         /\ run.pc \in {"leaving", "settling"} /\ run.incarnation # None => Len(lane[i]) <= 2

\* The run the idle-machines job saw is this one or an earlier one; past its look, this one is no open run.
ReapFollows == reap.seen <= run.n /\ (reap.pc = "killing" => ~rowOpen \/ reap.seen # run.n)

-----------------------------------------------------------------------------
(* The deadlines of an instance *)

LEMMA AppendLane ==
  ASSUME NEW s \in Seq(Deadlines), NEW d \in Deadlines
  PROVE  /\ Append(s, d) \in Seq(Deadlines) /\ Len(Append(s, d)) = Len(s) + 1
         /\ Append(s, d) # <<>> /\ Last(Append(s, d)) = d
  BY DEF Last

LEMMA TailLane ==
  ASSUME NEW s \in Seq(Deadlines), s # <<>>
  PROVE  /\ Tail(s) \in Seq(Deadlines) /\ Len(Tail(s)) = Len(s) - 1 /\ Head(s) \in Deadlines
         /\ Tail(s) = <<>> => Head(s) = Last(s)
         /\ Tail(s) # <<>> => Last(Tail(s)) = Last(s)
<1>1. Len(s) \in Nat /\ Len(s) # 0 /\ Head(s) = s[1]
  OBVIOUS
<1>2. /\ Tail(s) \in Seq(Deadlines) /\ Len(Tail(s)) = Len(s) - 1
      /\ \A k \in 1..Len(Tail(s)) : Tail(s)[k] = s[k + 1]
  OBVIOUS
<1>3. Tail(s) = <<>> <=> Len(s) = 1
  BY <1>1, <1>2, EmptySeq
<1>4. Tail(s) # <<>> => Len(Tail(s)) \in 1..Len(Tail(s))
  BY <1>1, <1>2
<1> QED BY <1>1, <1>2, <1>3, <1>4 DEF Last

\* A lane whose last deadline is the run's, and which holds none of the run's, is empty.
LEMMA DrainedLane ==
  ASSUME NEW s \in Seq(Deadlines), "run" \notin Range(s), s # <<>> => Last(s) = "run"
  PROVE  s = <<>>
  BY DEF Last, Range

-----------------------------------------------------------------------------
(* The steps of the run, and those of everyone else *)

RunSteps ==
  \/ Begin \/ OpenSandbox \/ Start \/ Hold \/ FindSession \/ OpenSession \/ Lapse \/ Finish \/ Fails
  \/ Ask \/ Listen \/ Answer \/ (\E key \in Keys : Message(key)) \/ Expire \/ Stop \/ Resume
  \/ Leave \/ Settle \/ Killed \/ Retired \/ End \/ Release
SandboxSteps == Follow \/ Followed \/ SweepLooks \/ SweepEnds \/ Idles
MachineSteps ==
  \/ Keepalive \/ ReapLists \/ ReapReads \/ ReapKills
  \/ \E i \in Instances : DeadlineLands(i)
  \/ \E m \in Machines : Pauses(m) \/ Ages(m) \/ MachineLost(m)

LEMMA Steps == Next => RunSteps \/ SandboxSteps \/ MachineSteps
  BY DEF Next, RunSteps, SandboxSteps, MachineSteps

LEMMA SandboxFrame == SandboxSteps => UNCHANGED <<run, rowOpen, inbox, lane, machines, recorded, reap, faults, stray>>
  BY DEF SandboxSteps, Follow, Followed, SweepLooks, SweepEnds, Idles, hub, vms, jobs

LEMMA MachineFrame == MachineSteps => UNCHANGED <<run, rowOpen, inbox, hub, vmOf, recorded, sweep, stray>>
  BY DEF MachineSteps, Keepalive, ReapLists, ReapReads, ReapKills, DeadlineLands, Pauses, Ages, MachineLost, hub, vms, jobs

-----------------------------------------------------------------------------
(* The types *)

\* The records of the inbox, field by field.
LEMMA ReplyTypes == NoReply \in Slot /\ Replies \subseteq Slot /\ NoReply \notin Replies
  BY BoundAssumption DEF NoReply, Slot, Replies

LEMMA NewInboxFields ==
  /\ NewInbox \in Inbox /\ ~NewInbox.accepting /\ NewInbox.slot = NoReply
  /\ NewInbox.question = 0 /\ NewInbox.accepted = {} /\ NewInbox.ended = {}
  BY BoundAssumption, ReplyTypes DEF NewInbox, Inbox

LEMMA ClosedFields ==
  ASSUME NEW i \in Inbox
  PROVE  /\ Closed(i) \in Inbox /\ ~Closed(i).accepting /\ Closed(i).slot = NoReply
         /\ Closed(i).question = i.question /\ Closed(i).accepted = i.accepted /\ Closed(i).ended = i.ended
  BY ReplyTypes DEF Closed, Inbox

LEMMA TakesFields ==
  ASSUME NEW i \in Inbox, NEW reply \in Replies
  PROVE  /\ Takes(i, reply) \in Inbox /\ ~Takes(i, reply).accepting /\ Takes(i, reply).slot = NoReply
         /\ Takes(i, reply).question = i.question /\ Takes(i, reply).accepted = i.accepted
         /\ Takes(i, reply).ended = i.ended \cup {reply}
  BY ClosedFields DEF Takes, Inbox

LEMMA HeardFields ==
  ASSUME NEW i \in Inbox, NEW reply \in Replies
  PROVE  /\ Heard(i, reply) \in Inbox /\ Heard(i, reply).accepting = i.accepting /\ Heard(i, reply).slot = i.slot
         /\ Heard(i, reply).question = i.question /\ Heard(i, reply).accepted = i.accepted \cup {reply}
         /\ Heard(i, reply).ended = i.ended
  BY DEF Inbox, Heard

LEMMA KeptFields ==
  ASSUME NEW i \in Inbox, NEW reply \in Replies
  PROVE  /\ Kept(i, reply) \in Inbox /\ Kept(i, reply).accepting = i.accepting /\ Kept(i, reply).slot = reply
         /\ Kept(i, reply).question = i.question /\ Kept(i, reply).accepted = i.accepted /\ Kept(i, reply).ended = i.ended
  BY ReplyTypes DEF Inbox, Kept

LEMMA NoRunFields ==
  ASSUME NEW n
  PROVE  /\ NoRun(n).n = n /\ NoRun(n).pc = "none" /\ NoRun(n).instance = None /\ NoRun(n).incarnation = None
         /\ ~NoRun(n).started /\ NoRun(n).usable /\ ~NoRun(n).prepared /\ ~NoRun(n).held /\ ~NoRun(n).stopped
  BY DEF NoRun

LEMMA RunTypeStep ==
  ASSUME TypeOK, StageFollows, RunSteps
  PROVE  RunTypeOK'
<1> USE DEF TypeOK, RunTypeOK, Runs
<1>1. CASE Begin
  <2>1. run' = [n |-> run.n + 1, pc |-> "queued", instance |-> None, incarnation |-> None, started |-> FALSE,
                usable |-> TRUE, prepared |-> FALSE, held |-> FALSE, stopped |-> FALSE]
    BY <1>1 DEF Begin, NoRun
  <2>2. rowOpen' = TRUE /\ run.n + 1 \in 0..MaxRuns
    BY <1>1, BoundAssumption DEF Begin
  <2> QED BY <2>1, <2>2
<1>2. CASE OpenSandbox
  BY <1>2, IdsAssumption, BoundAssumption DEF OpenSandbox, Live, None
<1>3. CASE Start
  BY <1>3, IdsAssumption, BoundAssumption, ZenonT(60) DEF Start, Commands, None
<1>4. CASE Hold
  BY <1>4, IdsAssumption, BoundAssumption DEF Hold, None
<1>5. CASE OpenSession
  BY <1>5, IdsAssumption, BoundAssumption, ZenonT(60) DEF OpenSession, Refused, None
<1>5b. CASE FindSession
  BY <1>5b, IdsAssumption, BoundAssumption DEF FindSession, Goes, None
<1>6. CASE Lapse
  BY <1>6, IdsAssumption, BoundAssumption DEF Lapse, StageFollows, None
<1>7. CASE Finish
  BY <1>7, IdsAssumption, BoundAssumption DEF Finish, Goes, None
<1>8. CASE Fails
  BY <1>8, IdsAssumption, BoundAssumption DEF Fails, Goes, None
<1>9. CASE Ask
  BY <1>9, IdsAssumption, BoundAssumption DEF Ask, Goes, None
<1>10. CASE Listen
  BY <1>10, IdsAssumption, BoundAssumption DEF Listen, LetsGo, None
<1>11. CASE Answer
  BY <1>11, IdsAssumption, BoundAssumption DEF Answer, Offer, Goes, None
<1>12. ASSUME NEW key \in Keys, Message(key) PROVE RunTypeOK'
  BY <1>12, IdsAssumption, BoundAssumption DEF Message, Offer, Goes, None
<1>13. CASE Expire
  BY <1>13, IdsAssumption, BoundAssumption DEF Expire, WaitFails, Goes, None
<1>14. CASE Stop
  <2>1. CASE run' = [run EXCEPT !.stopped = TRUE, !.pc = "leaving"]
    BY <1>14, <2>1 DEF Stop, runOpen
  <2>2. CASE run' = [run EXCEPT !.stopped = TRUE]
    BY <1>14, <2>2 DEF Stop
  <2> QED BY <1>14, <2>1, <2>2 DEF Stop
<1>15. CASE Resume
  BY <1>15, IdsAssumption, BoundAssumption DEF Resume, Goes, None
<1>16. CASE Leave
  BY <1>16, IdsAssumption, BoundAssumption DEF Leave, LetsGo, None
<1>17. CASE Settle
  BY <1>17, IdsAssumption, BoundAssumption DEF Settle, Goes, None
<1>18. CASE Killed
  BY <1>18, IdsAssumption, BoundAssumption DEF Killed, Goes, None
<1>18b. CASE Retired
  BY <1>18b, IdsAssumption, BoundAssumption DEF Retired, None
<1>19. CASE End
  BY <1>19, IdsAssumption, BoundAssumption DEF End, Goes, None
<1>20. CASE Release
  BY <1>20, IdsAssumption, BoundAssumption DEF Release, NoRun, None
<1> QED BY <1>1, <1>2, <1>3, <1>4, <1>5, <1>5b, <1>6, <1>7, <1>8, <1>9, <1>10, <1>11, <1>12, <1>13, <1>14, <1>15, <1>16, <1>17, <1>18, <1>18b, <1>19, <1>20 DEF RunSteps

LEMMA AskFields ==
  ASSUME TypeOK, Ask
  PROVE  /\ inbox' \in Inbox /\ inbox'.accepting /\ inbox'.slot = NoReply /\ inbox'.question = inbox.question + 1
         /\ inbox'.accepted = inbox.accepted /\ inbox'.ended = inbox.ended
         /\ run.pc = "working" /\ run' = [run EXCEPT !.pc = "asked"]
<1>1. inbox \in Inbox /\ inbox.question + 1 \in 0..MaxQuestions
  BY BoundAssumption DEF Ask, Inbox, TypeOK, InboxTypeOK
<1>2. inbox' = [inbox EXCEPT !.accepting = TRUE, !.slot = NoReply, !.question = @ + 1]
  BY DEF Ask
<1> QED BY <1>1, <1>2, ReplyTypes DEF Inbox, Ask, Goes

\* An offer: to a run that listens, or to one that will.
LEMMA OfferFollows ==
  ASSUME TypeOK, StageFollows, NEW by \in Senders, Offer([at |-> inbox.question, by |-> by])
  PROVE  LET reply == [at |-> inbox.question, by |-> by] IN
         /\ InboxTypeOK' /\ reply \in Replies
         /\ inbox.accepting /\ inbox.slot = NoReply
         /\ inbox'.question = inbox.question /\ inbox'.accepted = inbox.accepted \cup {reply}
         /\ \/ /\ run.pc = "waiting" /\ run' = [run EXCEPT !.pc = "resuming"]
               /\ inbox'.slot = NoReply /\ inbox'.ended = inbox.ended \cup {reply} /\ ~inbox'.accepting
            \/ /\ run.pc = "asked" /\ run' = run
               /\ inbox'.slot = reply /\ inbox'.ended = inbox.ended /\ inbox'.accepting
<1> DEFINE reply == [at |-> inbox.question, by |-> by]
<1>1. reply \in Replies
  BY BoundAssumption DEF TypeOK, InboxTypeOK, Offer, StageFollows, Inbox, Replies
<1> DEFINE heard == Heard(inbox, reply)
<1>2. inbox \in Inbox /\ run.pc \in {"asked", "waiting"} /\ inbox.ended \subseteq inbox.accepted
  BY DEF TypeOK, InboxTypeOK, Offer
<1>3. /\ heard \in Inbox /\ heard.accepting = inbox.accepting /\ heard.slot = inbox.slot
      /\ heard.question = inbox.question /\ heard.accepted = inbox.accepted \cup {reply} /\ heard.ended = inbox.ended
  BY <1>1, <1>2, HeardFields
<1>4. CASE run.pc = "waiting"
  <2>1. inbox' = Takes(heard, reply) /\ run' = [run EXCEPT !.pc = "resuming"]
    BY <1>4 DEF Offer, Goes
  <2>2. /\ inbox' \in Inbox /\ ~inbox'.accepting /\ inbox'.slot = NoReply /\ inbox'.question = inbox.question
        /\ inbox'.accepted = inbox.accepted \cup {reply} /\ inbox'.ended = inbox.ended \cup {reply}
    <3> HIDE DEF heard, reply
    <3> QED BY <2>1, <1>1, <1>3, TakesFields
  <2>3. run'.pc = "resuming"
    BY <2>1 DEF TypeOK, RunTypeOK
  <2> QED BY <1>1, <1>2, <1>4, <2>1, <2>2, <2>3 DEF Offer, InboxTypeOK, Inbox
<1>5. CASE run.pc = "asked"
  <2>1. inbox' = Kept(heard, reply) /\ run' = run
    BY <1>5 DEF Offer
  <2>2. /\ inbox' \in Inbox /\ inbox'.accepting = inbox.accepting /\ inbox'.slot = reply
        /\ inbox'.question = inbox.question
        /\ inbox'.accepted = inbox.accepted \cup {reply} /\ inbox'.ended = inbox.ended
    <3> HIDE DEF heard, reply
    <3> QED BY <2>1, <1>1, <1>3, KeptFields
  <2> QED BY <1>1, <1>2, <1>5, <2>1, <2>2 DEF Offer, InboxTypeOK
<1> QED BY <1>2, <1>4, <1>5

LEMMA InboxTypeStep ==
  ASSUME TypeOK, StageFollows, RepliesFollow, OneReplyEndsEachWait, RunSteps
  PROVE  InboxTypeOK'
<1> USE DEF TypeOK, RunTypeOK, InboxTypeOK, Runs
<1>1. CASE Begin
  <2>1. inbox' = NewInbox /\ run'.pc = "queued"
    BY <1>1, NoRunFields DEF Begin, NoRun
  <2> QED BY <2>1, NewInboxFields DEF Inbox
<1>2. CASE OpenSandbox
  BY <1>2 DEF OpenSandbox, Live
<1>3. CASE Start
  <2>1. inbox' = inbox /\ run.pc = "opening" /\ run'.pc \in {"holding", "leaving"}
    BY <1>3 DEF Start
  <2> QED BY <2>1 DEF Inbox
<1>4. CASE Hold
  BY <1>4 DEF Hold
<1>5. CASE OpenSession
  <2>1. inbox' = inbox /\ run.pc = "joining" /\ run'.pc \in {"working", "leaving"}
    BY <1>5 DEF OpenSession
  <2> QED BY <2>1 DEF Inbox
<1>5b. CASE FindSession
  BY <1>5b DEF FindSession, Goes
<1>6. CASE Lapse
  BY <1>6 DEF Lapse, StageFollows
<1>7. CASE Finish
  BY <1>7 DEF Finish, Goes
<1>8. CASE Fails
  BY <1>8 DEF Fails, Goes
<1>9. CASE Ask
  BY <1>9, AskFields DEF Inbox
<1>10. CASE Listen
  <2>1. CASE inbox.slot # NoReply /\ inbox' = Takes(inbox, inbox.slot) /\ run'.pc = "resuming"
    <3>1. inbox.slot \in Replies /\ inbox.slot \in inbox.accepted
      BY <2>1 DEF RepliesFollow, Inbox
    <3> QED BY <2>1, <3>1, TakesFields DEF Inbox
  <2>2. CASE inbox' = Closed(inbox) /\ run'.pc = "leaving"
    BY <2>2, ClosedFields DEF Inbox
  <2>3. CASE inbox' = inbox /\ run'.pc = "waiting"
    BY <1>10, <2>3 DEF Listen
  <2> QED BY <1>10, <2>1, <2>2, <2>3 DEF Listen, LetsGo
<1>11. CASE Answer
  BY <1>11, OfferFollows DEF Answer, Senders
<1>12. ASSUME NEW key \in Keys, Message(key) PROVE InboxTypeOK'
  BY <1>12, OfferFollows DEF Message, Senders
<1>13. CASE Expire
  BY <1>13, ClosedFields DEF Expire, WaitFails, Goes, Inbox
<1>14. CASE Stop
  <2>1. CASE inbox' = Closed(inbox) /\ run'.pc = "leaving"
    BY <2>1, ClosedFields DEF Inbox
  <2>2. CASE inbox' = inbox /\ run'.pc = run.pc
    BY <2>2
  <2> QED BY <1>14, <2>1, <2>2 DEF Stop
<1>15. CASE Resume
  BY <1>15 DEF Resume, Goes
<1>16. CASE Leave
  BY <1>16 DEF Leave, LetsGo
<1>17. CASE Settle
  BY <1>17 DEF Settle, Goes
<1>18. CASE Killed
  BY <1>18 DEF Killed, Goes
<1>18b. CASE Retired
  BY <1>18b DEF Retired
<1>19. CASE End
  BY <1>19 DEF End, Goes
<1>20. CASE Release
  <2>1. inbox' = NewInbox /\ run'.pc = "none"
    BY <1>20, NoRunFields DEF Release
  <2> QED BY <2>1, NewInboxFields DEF Inbox
<1> QED BY <1>1, <1>2, <1>3, <1>4, <1>5, <1>5b, <1>6, <1>7, <1>8, <1>9, <1>10, <1>11, <1>12, <1>13, <1>14, <1>15, <1>16, <1>17, <1>18, <1>18b, <1>19, <1>20 DEF RunSteps

-----------------------------------------------------------------------------
(* The stage of the run, and its inbox *)

LEMMA StageStep ==
  ASSUME TypeOK, StageFollows, RepliesFollow, RunKeepsItsInstance, RunSteps
  PROVE  StageFollows'
<1> USE DEF TypeOK, RunTypeOK, InboxTypeOK, Runs, StageFollows, Placed
<1>1. CASE Begin
  <2>1. run' = [n |-> run.n + 1, pc |-> "queued", instance |-> None, incarnation |-> None, started |-> FALSE,
                usable |-> TRUE, prepared |-> FALSE, held |-> FALSE, stopped |-> FALSE]
    BY <1>1 DEF Begin, NoRun
  <2>2. inbox'.slot = NoReply
    BY <1>1, NewInboxFields DEF Begin
  <2> QED BY <2>1, <2>2
<1>2. CASE OpenSandbox
  BY <1>2, IdsAssumption DEF OpenSandbox, Live, None
<1>3. CASE Start
  BY <1>3, ZenonT(60) DEF Start
<1>4. CASE Hold
  BY <1>4 DEF Hold
<1>5. CASE OpenSession
  BY <1>5 DEF OpenSession
<1>5b. CASE FindSession
  BY <1>5b DEF FindSession, Goes
<1>6. CASE Lapse
  BY <1>6 DEF Lapse
<1>7. CASE Finish
  BY <1>7 DEF Finish, Goes
<1>8. CASE Fails
  BY <1>8 DEF Fails, Goes
<1>9. CASE Ask
  BY <1>9, AskFields DEF Inbox
<1>10. CASE Listen
  <2>1. inbox'.slot = NoReply
    BY <1>10, ClosedFields, TakesFields DEF Listen, RepliesFollow, Inbox
  <2>2. /\ ~run'.held /\ run'.pc \in {"resuming", "leaving", "waiting"}
        /\ run'.instance = run.instance /\ run'.incarnation = run.incarnation /\ run'.prepared = run.prepared
    BY <1>10 DEF Listen, LetsGo
  <2>3. run'.pc # "leaving" => inbox'.question = inbox.question
    BY <1>10, <2>2 DEF Listen, LetsGo, Takes, Closed, Inbox
  <2> QED BY <1>10, <2>1, <2>2, <2>3 DEF Listen
<1>11. CASE Answer
  BY <1>11, OfferFollows DEF Answer, Senders
<1>12. ASSUME NEW key \in Keys, Message(key) PROVE StageFollows'
  BY <1>12, OfferFollows DEF Message, Senders
<1>13. CASE Expire
  BY <1>13, ClosedFields DEF Expire, WaitFails, Goes
<1>14. CASE Stop
  <2>1. CASE inbox' = Closed(inbox) /\ run' = [run EXCEPT !.stopped = TRUE, !.pc = "leaving"]
    BY <1>14, <2>1, ClosedFields
  <2>2. CASE inbox' = inbox /\ run' = [run EXCEPT !.stopped = TRUE]
    BY <1>14, <2>2
  <2> QED BY <1>14, <2>1, <2>2 DEF Stop
<1>15. CASE Resume
  BY <1>15 DEF Resume, Goes
<1>16. CASE Leave
  BY <1>16 DEF Leave, LetsGo
<1>17. CASE Settle
  BY <1>17 DEF Settle, Goes
<1>18. CASE Killed
  BY <1>18 DEF Killed, Goes
<1>18b. CASE Retired
  BY <1>18b DEF Retired
<1>19. CASE End
  BY <1>19 DEF End, Goes
<1>20. CASE Release
  BY <1>20, NoRunFields, NewInboxFields DEF Release
<1> QED BY <1>1, <1>2, <1>3, <1>4, <1>5, <1>5b, <1>6, <1>7, <1>8, <1>9, <1>10, <1>11, <1>12, <1>13, <1>14, <1>15, <1>16, <1>17, <1>18, <1>18b, <1>19, <1>20 DEF RunSteps

LEMMA RepliesStep ==
  ASSUME TypeOK, StageFollows, RepliesFollow, OneReplyEndsEachWait, RunSteps
  PROVE  RepliesFollow' /\ OneReplyEndsEachWait'
<1> USE DEF TypeOK, InboxTypeOK, RepliesFollow, OneReplyEndsEachWait
<1>1. CASE inbox' = NewInbox
  BY <1>1, NewInboxFields
<1>2. CASE inbox' = inbox
  BY <1>2
<1>3. CASE Ask
  <2>1. /\ inbox'.slot = NoReply /\ inbox'.question = inbox.question + 1
        /\ inbox'.accepted = inbox.accepted /\ inbox'.ended = inbox.ended /\ inbox.slot = NoReply
    BY <1>3, AskFields DEF StageFollows
  <2>2. inbox.question \in Nat /\ \A a \in inbox.accepted : a.at \in Nat /\ a.at <= inbox.question
    BY BoundAssumption DEF Inbox, Replies
  <2> QED BY <2>1, <2>2
<1>4. CASE inbox' = Closed(inbox) /\ inbox.slot = NoReply
  BY <1>4, ClosedFields
<1>5. CASE inbox' = Takes(inbox, inbox.slot) /\ inbox.slot # NoReply
  <2>1. inbox.slot \in inbox.accepted /\ inbox.slot \in Replies
    BY <1>5 DEF Inbox
  <2> QED BY <1>5, <2>1, TakesFields
<1>6. ASSUME NEW by \in Senders, by \in Keys => ~TakenBefore(by), Offer([at |-> inbox.question, by |-> by])
      PROVE  RepliesFollow' /\ OneReplyEndsEachWait'
  <2> DEFINE reply == [at |-> inbox.question, by |-> by]
  <2>1. /\ inbox.accepting /\ inbox.slot = NoReply /\ reply \in Replies /\ inbox'.question = inbox.question
        /\ inbox'.accepted = inbox.accepted \cup {reply}
        /\ \/ inbox'.slot = NoReply /\ inbox'.ended = inbox.ended \cup {reply} /\ ~inbox'.accepting
           \/ inbox'.slot = reply /\ inbox'.ended = inbox.ended
    BY <1>6, OfferFollows
  <2>2. \A a \in inbox.accepted : a.at # reply.at /\ (a.by = reply.by => reply.by \notin Keys)
    BY <1>6, <2>1 DEF TakenBefore
  <2>3. \A a, b \in inbox'.accepted : a.at = b.at \/ (a.by = b.by /\ a.by \in Keys) => a = b
    BY <2>1, <2>2
  <2>4. \A a \in inbox'.accepted : a \in inbox'.ended \/ a = inbox'.slot
    BY <2>1, ReplyTypes DEF Inbox
  <2>5. \A a \in inbox'.accepted : a.at <= inbox'.question
    BY <2>1, BoundAssumption DEF Inbox
  <2>6. inbox'.slot # NoReply => inbox'.slot \in inbox'.accepted
    BY <2>1
  <2>7. inbox'.accepting /\ inbox'.slot = NoReply => \A a \in inbox'.accepted : a.at # inbox'.question
    BY <2>1, ReplyTypes
  <2> QED BY <2>3, <2>4, <2>5, <2>6, <2>7
<1>7. CASE Answer
  BY <1>6, <1>7, NamesAssumption DEF Answer, Senders
<1>8. ASSUME NEW key \in Keys, Message(key) PROVE RepliesFollow' /\ OneReplyEndsEachWait'
  BY <1>6, <1>8 DEF Message, Senders
<1> QED
  BY <1>1, <1>2, <1>3, <1>4, <1>5, <1>7, <1>8
  DEF RunSteps, Begin, OpenSandbox, Start, Hold, FindSession, OpenSession, Lapse, Finish, Fails, Listen, Expire, WaitFails,
      Stop, Resume, Leave, Settle, Killed, Retired, End, Release

-----------------------------------------------------------------------------
(* The instance of the conversation *)

\* An instance that is made is one of those that are spare.
LEMMA NewIsSpare == Spare # {} => NewInstance \in Spare
  BY DEF NewInstance

LEMMA FoundInstance ==
  ASSUME TypeOK, NEW i \in Instances, Found(i)
  PROVE  /\ entry' = i /\ entry \in {None, i}
         /\ entry # None => vmOf' = vmOf
         /\ entry = None => i # run.instance /\ lane[i] = <<>> /\ vmOf' = [vmOf EXCEPT ![i] = recorded]
  BY NewIsSpare DEF Found, Spare

\* A session that is found live or made: it has the workspace of the entry, unless it was live.
LEMMA OpenedSession ==
  ASSUME TypeOK
  PROVE  /\ Opened = SessionOn(Opened.on) /\ Opened.on \in Instances \cup {None}
         /\ session = NoSession => Opened = SessionOn(entry)
         /\ session # NoSession => Opened = session
<1>1. session = NoSession \/ \E i \in Instances \cup {None} : session = SessionOn(i)
  BY DEF TypeOK, HubTypeOK
<1>2. entry \in Instances \cup {None}
  BY DEF TypeOK, HubTypeOK
<1>3. \A i : SessionOn(i).live /\ SessionOn(i).on = i /\ SessionOn(i) # NoSession
  BY DEF SessionOn, NoSession
<1>4. ~NoSession.live
  BY DEF NoSession
<1> QED BY <1>1, <1>2, <1>3, <1>4, Zenon DEF Opened

LEMMA InstanceStep ==
  ASSUME TypeOK, StageFollows, EntryFollows, RunKeepsItsInstance, Next
  PROVE  EntryFollows' /\ RunKeepsItsInstance'
<1> USE IdsAssumption DEF TypeOK, RunTypeOK, HubTypeOK, Runs, Openers, StageFollows, Placed, EntryFollows, RunKeepsItsInstance, hub, None
<1>1. CASE Begin
  BY <1>1, NoRunFields DEF Begin, runOpen
<1>2. CASE OpenSandbox
  BY <1>2, FoundInstance DEF OpenSandbox, Live
<1>3. CASE Start
  BY <1>3 DEF Start
<1>4. CASE Hold
  BY <1>4 DEF Hold
<1>5. CASE OpenSession
  BY <1>5, OpenedSession DEF OpenSession, Joins, Refused
<1>5b. CASE FindSession
  BY <1>5b, FoundInstance DEF FindSession, Finds, Live, Goes
<1>6. CASE Lapse
  BY <1>6 DEF Lapse
<1>7. CASE Finish
  BY <1>7 DEF Finish, Goes
<1>8. CASE Fails
  BY <1>8 DEF Fails, Goes
<1>9. CASE Ask
  BY <1>9, AskFields DEF Ask
<1>10. CASE Listen
  BY <1>10 DEF Listen, LetsGo
<1>11. CASE Answer
  BY <1>11 DEF Answer, Offer, Goes
<1>12. ASSUME NEW key \in Keys, Message(key) PROVE EntryFollows' /\ RunKeepsItsInstance'
  BY <1>12 DEF Message, Offer, Goes
<1>13. CASE Expire
  BY <1>13 DEF Expire, WaitFails, Goes
<1>14. CASE Stop
  BY <1>14, ZenonT(60) DEF Stop, runOpen
<1>15. CASE Resume
  BY <1>15 DEF Resume, Goes
<1>16. CASE Leave
  BY <1>16 DEF Leave, LetsGo
<1>17. CASE Settle
  BY <1>17 DEF Settle, Goes, Retire
<1>18. CASE Killed
  BY <1>18 DEF Killed, Goes
<1>18b. CASE Retired
  BY <1>18b DEF Retired, LetGo, DeletesSession
<1>19. CASE End
  BY <1>19 DEF End, Goes
<1>20. CASE Release
  BY <1>20, NoRunFields DEF Release
<1>21. CASE MachineSteps
  BY <1>21, MachineFrame
<1>22. CASE Follow
  BY <1>22, FoundInstance DEF Follow, Finds, Live
<1>23. CASE SweepLooks
  BY <1>23 DEF SweepLooks
<1>24. CASE SweepEnds
  BY <1>24 DEF SweepEnds, StillIdle, Idle, Retire, runOpen
<1>25. CASE Followed
  BY <1>25, OpenedSession DEF Followed, Joins
<1>26. CASE Idles
  BY <1>26 DEF Idles
<1> QED
  BY Steps, <1>1, <1>2, <1>3, <1>4, <1>5, <1>5b, <1>6, <1>7, <1>8, <1>9, <1>10, <1>11, <1>12, <1>13, <1>14, <1>15, <1>16, <1>17, <1>18, <1>18b, <1>19, <1>20, <1>21, <1>22, <1>23, <1>24, <1>25, <1>26
  DEF RunSteps, SandboxSteps

-----------------------------------------------------------------------------
(* The types of what the Hub and E2B hold *)

LEMMA HubTypeStep ==
  ASSUME TypeOK, StageFollows, Next
  PROVE  HubTypeOK'
<1> USE IdsAssumption, BoundAssumption DEF TypeOK, RunTypeOK, HubTypeOK, hub, jobs, Openers, None
<1>1. ASSUME Faulty PROVE faults' \in 0..MaxFaults
  BY <1>1 DEF Faulty
<1>2. CASE UNCHANGED <<hub, jobs, stray>> /\ (Faulty \/ UNCHANGED faults)
  BY <1>1, <1>2
<1>3. CASE OpenSandbox
  BY <1>3, FoundInstance DEF OpenSandbox, Live
<1>4. CASE OpenSession
  BY <1>4, OpenedSession DEF OpenSession, Joins
<1>4b. CASE FindSession
  BY <1>4b, FoundInstance DEF FindSession, Finds, Live
<1>4c. CASE Fails
  BY <1>4c DEF Fails
<1>5. CASE Settle
  BY <1>5 DEF Settle, Retire, StageFollows, Placed, Runs
<1>6. CASE Killed
  BY <1>1, <1>6 DEF Killed, TypeOK, LaneTypeOK
<1>6b. CASE Retired
  BY <1>1, <1>6b DEF Retired, LetGo, DeletesSession
<1>7. CASE Release
  BY <1>7 DEF Release
<1>8. CASE Follow
  BY <1>8, FoundInstance DEF Follow, Finds, Live
<1>8b. CASE Followed
  BY <1>8b, OpenedSession DEF Followed, Joins
<1>9. CASE SweepLooks
  BY <1>9 DEF SweepLooks
<1>10. CASE SweepEnds
  BY <1>10 DEF SweepEnds, Retire
<1>12. CASE ReapLists
  BY <1>12 DEF ReapLists
<1>13. CASE ReapReads
  BY <1>13 DEF ReapReads, NoReap
<1>14. CASE ReapKills
  BY <1>1, <1>14 DEF ReapKills, NoReap
<1>15. CASE Idles
  BY <1>15 DEF Idles
<1> QED
  BY <1>2, <1>3, <1>4, <1>4b, <1>4c, <1>5, <1>6, <1>6b, <1>7, <1>8, <1>8b, <1>9, <1>10, <1>12, <1>13, <1>14, <1>15
  DEF Next, Begin, Start, Hold, Keepalive, Lapse, Finish, Ask, Listen, Answer, Message, Expire, Stop, Resume,
      Leave, End, DeadlineLands, Pauses, Ages, MachineLost

\* Machines come to be, run, pause, age and go; one that was made is never unmade.
Made(m) == m # None => machines[m].state # "none"
MachinesStay == \A m \in Machines : Made(m) => Made(m)'

LEMMA CommandsFollow ==
  ASSUME TypeOK, NEW i \in Instances, NEW m \in Machines, Commands(i, m)
  PROVE  /\ vmOf' = [vmOf EXCEPT ![i] = m] /\ vmOf' \in [Instances -> Machines \cup {None}]
         /\ machines' \in [Machines -> States]
         /\ MachinesStay /\ Running(m)'
         /\ Running(m) => machines' = machines
         /\ \A other \in Machines \ {m} : machines'[other] = machines[other]
         /\ ~Running(m) => (~Alive(m) /\ machines[m].state = "none") \/ machines[m].state = "paused"
<1> USE DEF TypeOK, VmTypeOK
<1>1. m # None /\ m \in Machine(i) /\ vmOf' = [vmOf EXCEPT ![i] = m]
  BY IdsAssumption DEF Commands, None
<1>2. machines[m].state \in {"running", "paused", "none"}
  BY <1>1 DEF Machine, Fresh, Alive
<1>3. CASE Running(m)
  <2>1. machines' = machines
    BY <1>3 DEF Commands, Awake
  <2> QED BY <1>1, <1>3, <2>1 DEF Running, MachinesStay, Made
<1>4. CASE ~Running(m)
  <2>1. machines' = [machines EXCEPT ![m] = [state |-> "running", deadline |-> "run", old |-> FALSE]]
    BY <1>4 DEF Commands, Awake
  <2>2. [state |-> "running", deadline |-> "run", old |-> FALSE] \in States
    BY DEF States, Deadlines
  <2>3. machines' \in [Machines -> States] /\ machines'[m].state = "running"
    BY <2>1, <2>2
  <2>4. \A other \in Machines \ {m} : machines'[other] = machines[other]
    BY <2>1
  <2> QED BY <1>1, <1>2, <1>4, <2>3, <2>4 DEF Running, MachinesStay, Made, Alive
<1> QED BY <1>3, <1>4

LEMMA GoneFollows ==
  ASSUME TypeOK, NEW S, Gone(S)
  PROVE  /\ machines' \in [Machines -> States]
         /\ MachinesStay
         /\ \A m \in Machines : Running(m)' => Running(m) /\ machines'[m] = machines[m]
         /\ \A m \in Machines : Alive(m)' => Alive(m) /\ m \notin S
  BY DEF Gone, VmTypeOK, TypeOK, Running, Alive, Made, MachinesStay, States

LEMMA LandsFollow ==
  ASSUME TypeOK, NEW i \in Instances, Lands(i)
  PROVE  /\ machines' \in [Machines -> States] /\ MachinesStay
         /\ \A m \in Machines : machines'[m].state = machines[m].state
         /\ \A m \in Machines : machines'[m] # machines[m] => m = vmOf[i] /\ Running(m)
         /\ Running(vmOf[i]) => machines'[vmOf[i]].deadline = Head(lane[i])
<1> USE DEF TypeOK, VmTypeOK, LaneTypeOK
<1>1. lane[i] \in Seq(Deadlines) /\ Head(lane[i]) \in Deadlines
  BY TailLane DEF Lands
<1>2. CASE Running(vmOf[i])
  <2>1. vmOf[i] \in Machines /\ machines' = [machines EXCEPT ![vmOf[i]].deadline = Head(lane[i])]
    BY <1>2 DEF Lands, Running
  <2> QED BY <1>1, <1>2, <2>1, SMTT(30) DEF States, MachinesStay, Made
<1>3. CASE ~Running(vmOf[i])
  BY <1>3 DEF Lands, MachinesStay, Made
<1> QED BY <1>2, <1>3

\* The machine of an instance that is made is the one the rows name.
LEMMA FoundFollows ==
  ASSUME TypeOK, MachinesKnown, NEW i \in Instances, Found(i)
  PROVE  /\ vmOf' \in [Instances -> Machines \cup {None}]
         /\ \A j \in Instances : vmOf'[j] # None => machines[vmOf'[j]].state # "none"
         /\ \A j \in Instances : vmOf'[j] # vmOf[j] => j = i /\ entry = None /\ i # run.instance /\ lane[i] = <<>>
         /\ entry' = i /\ entry \in {None, i}
  BY FoundInstance DEF TypeOK, VmTypeOK, MachinesKnown

LEMMA VmStep ==
  ASSUME TypeOK, StageFollows, MachinesKnown, Next
  PROVE  VmTypeOK' /\ MachinesKnown'
<1> USE DEF TypeOK, VmTypeOK, MachinesKnown, vms
<1>1. CASE UNCHANGED <<vmOf, recorded>> /\ MachinesStay /\ machines' \in [Machines -> States]
  BY <1>1 DEF MachinesStay, Made
<1>2. CASE UNCHANGED <<vmOf, recorded, machines>>
  BY <1>2
<1>3. ASSUME NEW i \in Instances, Found(i), UNCHANGED <<machines, recorded>> PROVE VmTypeOK' /\ MachinesKnown'
  BY <1>3, FoundFollows
<1>4. ASSUME NEW i \in Instances, NEW m \in Machines, Commands(i, m), recorded' \in {recorded, m}
      PROVE VmTypeOK' /\ MachinesKnown'
  BY <1>4, CommandsFollow DEF MachinesStay, Made, Running
<1>5. run.pc \in {"opening", "resuming", "settling"} => run.instance \in Instances
  BY DEF RunTypeOK, StageFollows, Placed, Runs
<1>6. CASE OpenSandbox
  BY <1>3, <1>6 DEF OpenSandbox, Live
<1>7. CASE FindSession
  BY <1>3, <1>7 DEF FindSession, Finds, Live
<1>8. CASE Follow
  BY <1>3, <1>8 DEF Follow, Finds, Live
<1>9. CASE Start
  BY <1>2, <1>4, <1>5, <1>9 DEF Start
<1>10. CASE Resume
  BY <1>2, <1>4, <1>5, <1>10 DEF Resume
<1>11. CASE Settle
  BY <1>2, <1>4, <1>5, <1>11 DEF Settle
<1>12. CASE Killed
  BY <1>1, <1>2, <1>12, GoneFollows DEF Killed
<1>13. CASE ReapKills
  BY <1>1, <1>2, <1>13, GoneFollows DEF ReapKills
<1>14. ASSUME NEW i \in Instances, DeadlineLands(i) PROVE VmTypeOK' /\ MachinesKnown'
  BY <1>1, <1>14, LandsFollow DEF DeadlineLands
<1>15. ASSUME NEW m \in Machines, Pauses(m) PROVE VmTypeOK' /\ MachinesKnown'
  BY <1>1, <1>15 DEF Pauses, States, MachinesStay, Made
<1>16. ASSUME NEW m \in Machines, Ages(m) PROVE VmTypeOK' /\ MachinesKnown'
  BY <1>1, <1>16 DEF Ages, States, MachinesStay, Made
<1>17. ASSUME NEW m \in Machines, MachineLost(m) PROVE VmTypeOK' /\ MachinesKnown'
  BY <1>1, <1>17, GoneFollows DEF MachineLost
<1> QED
  BY <1>2, <1>6, <1>7, <1>8, <1>9, <1>10, <1>11, <1>12, <1>13, <1>14, <1>15, <1>16, <1>17
  DEF Next, Begin, Hold, OpenSession, Keepalive, Lapse, Finish, Fails, Ask, Listen, Answer, Message, Expire, Stop, Leave,
      Retired, End, Release, Followed, SweepLooks, SweepEnds, ReapLists, ReapReads, Idles

-----------------------------------------------------------------------------
(* The deadlines *)

LEMMA SetsFollow ==
  ASSUME TypeOK, NEW i \in Instances, NEW d \in Deadlines, Sets(i, d)
  PROVE  /\ lane' \in [Instances -> Seq(Deadlines)] /\ Len(lane'[i]) = Len(lane[i]) + 1
         /\ lane'[i] # <<>> /\ Last(lane'[i]) = d
         /\ \A j \in Instances \ {i} : lane'[j] = lane[j]
  BY AppendLane DEF Sets, TypeOK, LaneTypeOK

LEMMA LandedLane ==
  ASSUME TypeOK, NEW i \in Instances, Lands(i)
  PROVE  /\ lane' \in [Instances -> Seq(Deadlines)] /\ Len(lane'[i]) = Len(lane[i]) - 1 /\ lane[i] # <<>>
         /\ lane'[i] = <<>> => Head(lane[i]) = Last(lane[i])
         /\ lane'[i] # <<>> => Last(lane'[i]) = Last(lane[i])
         /\ \A j \in Instances \ {i} : lane'[j] = lane[j]
  BY TailLane DEF Lands, TypeOK, LaneTypeOK

\* The lane of a run whose deadline is the last to set is empty once it holds none of the run's.
LEMMA RunDrained ==
  ASSUME TypeOK, DeadlineFollows, run.instance \in Instances, run.pc = "holding" \/ run.held,
         "run" \notin Range(lane[run.instance])
  PROVE  lane[run.instance] = <<>> /\ Len(lane[run.instance]) = 0
  BY DrainedLane, EmptySeq DEF TypeOK, LaneTypeOK, DeadlineFollows

LEMMA LetsGoFollows ==
  ASSUME TypeOK, NEW then, LetsGo(then), run.held => run.instance \in Instances
  PROVE  /\ run' = [then EXCEPT !.held = FALSE] /\ lane' \in [Instances -> Seq(Deadlines)]
         /\ \A j \in Instances \ {run.instance} : lane'[j] = lane[j]
         /\ run.held => Len(lane'[run.instance]) = Len(lane[run.instance]) + 1
         /\ ~run.held => lane' = lane
<1>1. CASE run.held
  BY <1>1, SetsFollow DEF LetsGo, Deadlines
<1>2. CASE ~run.held
  BY <1>2 DEF LetsGo, TypeOK, LaneTypeOK
<1> QED BY <1>1, <1>2

LEMMA LaneStep ==
  ASSUME TypeOK, StageFollows, DeadlineFollows, LanesShort, Next
  PROVE  LanesShort' /\ lane' \in [Instances -> Seq(Deadlines)]
<1> USE IdsAssumption DEF TypeOK, RunTypeOK, LaneTypeOK, Runs, StageFollows, Placed, LanesShort, vms, None
<1>0. \A i \in Instances : Len(lane[i]) \in Nat
  OBVIOUS
<1> USE <1>0
<1>1. CASE Begin
  BY <1>1, NoRunFields DEF Begin, runOpen
<1>2. CASE OpenSandbox
  <2>1. UNCHANGED lane /\ run' = [run EXCEPT !.pc = "opening", !.instance = run'.instance] /\ run.pc = "queued"
    BY <1>2 DEF OpenSandbox
  <2> QED BY <2>1
<1>3. CASE Start
  <2>1. run.instance \in Instances /\ "run" \in Deadlines
    BY <1>3 DEF Start, Deadlines
  <2>2. CASE run'.pc = "holding" /\ ~run'.held /\ run'.instance = run.instance /\ Sets(run.instance, "run")
    <3>1. /\ lane' \in [Instances -> Seq(Deadlines)] /\ Len(lane'[run.instance]) = Len(lane[run.instance]) + 1
          /\ \A j \in Instances \ {run.instance} : lane'[j] = lane[j]
      BY <2>1, <2>2, SetsFollow
    <3>2. run.pc = "opening"
      BY <1>3 DEF Start
    <3>3. Len(lane'[run.instance]) <= 4 /\ \A j \in Instances \ {run.instance} : Len(lane'[j]) <= 3
      BY <2>1, <3>1, <3>2
    <3> QED BY <2>1, <2>2, <3>1, <3>3
  <2>3. CASE run'.pc = "leaving" /\ ~run'.held /\ run'.incarnation = None /\ UNCHANGED lane
    BY <1>3, <2>3 DEF Start
  <2> QED BY <1>3, <2>2, <2>3 DEF Start
<1>4. CASE Hold
  BY <1>4, RunDrained DEF Hold
<1>5. CASE OpenSession
  BY <1>5 DEF OpenSession
<1>5b. CASE FindSession
  BY <1>5b DEF FindSession, Goes
<1>6. CASE Lapse
  BY <1>6 DEF Lapse
<1>7. CASE Finish
  BY <1>7 DEF Finish, Goes
<1>8. CASE Fails
  BY <1>8 DEF Fails, Goes
<1>9. CASE Ask
  BY <1>9 DEF Ask, Goes
<1>10. CASE Listen
  <2>1. /\ lane' \in [Instances -> Seq(Deadlines)] /\ Len(lane'[run.instance]) = Len(lane[run.instance]) + 1
        /\ \A j \in Instances \ {run.instance} : lane'[j] = lane[j]
    BY <1>10, LetsGoFollows DEF Listen
  <2>2. run'.instance = run.instance /\ ~run'.held /\ run'.pc \in {"resuming", "leaving", "waiting"}
    BY <1>10 DEF Listen, LetsGo
  <2> QED BY <1>10, <2>1, <2>2 DEF Listen
<1>10b. ASSUME NEW reply, Offer(reply), UNCHANGED lane PROVE LanesShort' /\ lane' \in [Instances -> Seq(Deadlines)]
  <2>1. run' = run \/ (run.pc = "waiting" /\ run' = [run EXCEPT !.pc = "resuming"])
    BY <1>10b DEF Offer, Goes
  <2> QED BY <1>10b, <2>1
<1>11. CASE Answer
  BY <1>10b, <1>11 DEF Answer
<1>12. ASSUME NEW key \in Keys, Message(key) PROVE LanesShort' /\ lane' \in [Instances -> Seq(Deadlines)]
  BY <1>10b, <1>12 DEF Message
<1>13. CASE Expire
  BY <1>13 DEF Expire, WaitFails, Goes
<1>14. CASE Stop
  BY <1>14, ZenonT(60) DEF Stop, runOpen
<1>15. CASE Resume
  <2>1. run.instance \in Instances /\ "run" \in Deadlines
    BY <1>15 DEF Resume, Deadlines
  <2>2. CASE run'.pc = "holding" /\ ~run'.held /\ run'.instance = run.instance /\ Sets(run.instance, "run")
    <3>1. /\ lane' \in [Instances -> Seq(Deadlines)] /\ Len(lane'[run.instance]) = Len(lane[run.instance]) + 1
          /\ \A j \in Instances \ {run.instance} : lane'[j] = lane[j]
      BY <2>1, <2>2, SetsFollow
    <3> QED BY <1>15, <2>1, <2>2, <3>1 DEF Resume
  <2>3. CASE run'.pc = "leaving" /\ ~run'.held /\ run'.instance = run.instance /\ UNCHANGED lane
    BY <1>15, <2>3 DEF Resume
  <2> QED BY <1>15, <2>2, <2>3 DEF Resume, Goes
<1>16. CASE Leave
  <2>1. run'.pc \in {"ending", "settling"} /\ run'.instance = run.instance /\ ~run'.held /\ run'.incarnation = run.incarnation
    BY <1>16 DEF Leave, LetsGo
  <2>2. CASE run.held
    <3>1. /\ lane' \in [Instances -> Seq(Deadlines)] /\ Len(lane'[run.instance]) = Len(lane[run.instance]) + 1
          /\ \A j \in Instances \ {run.instance} : lane'[j] = lane[j]
      BY <1>16, <2>2, LetsGoFollows DEF Leave
    <3> QED BY <1>16, <2>1, <2>2, <3>1 DEF Leave
  <2>3. CASE ~run.held
    <3>1. lane' = lane
      BY <1>16, <2>3 DEF Leave, LetsGo
    <3> QED BY <1>16, <2>1, <2>3, <3>1 DEF Leave
  <2> QED BY <2>2, <2>3
<1>17. CASE Settle
  <2>1. run.instance \in Instances /\ "idle" \in Deadlines
    BY <1>17 DEF Settle, Deadlines
  <2>2. CASE run.incarnation # None /\ run' = [run EXCEPT !.pc = "ending"] /\ Sets(run.instance, "idle")
    <3>1. /\ lane' \in [Instances -> Seq(Deadlines)] /\ Len(lane'[run.instance]) = Len(lane[run.instance]) + 1
          /\ \A j \in Instances \ {run.instance} : lane'[j] = lane[j]
      BY <2>1, <2>2, SetsFollow
    <3>2. run.pc = "settling"
      BY <1>17 DEF Settle
    <3>3. \A j \in Instances : Len(lane'[j]) <= 3
      BY <2>1, <2>2, <3>1, <3>2
    <3> QED BY <2>1, <2>2, <3>1, <3>2, <3>3
  <2>3. CASE run'.pc \in {"killing", "ending"} /\ run'.instance = run.instance /\ ~run'.held /\ UNCHANGED lane
    BY <1>17, <2>3 DEF Settle
  <2> QED BY <1>17, <2>2, <2>3 DEF Settle, Goes
<1>18. CASE Killed
  BY <1>18 DEF Killed, Goes
<1>18b. CASE Retired
  BY <1>18b DEF Retired
<1>19. CASE End
  BY <1>19 DEF End, Goes
<1>20. CASE Release
  BY <1>20, NoRunFields DEF Release
<1>21. CASE SandboxSteps
  BY <1>21, SandboxFrame
<1>22. CASE Keepalive
  <2>1. run.instance \in Instances /\ "run" \in Deadlines
    BY <1>22 DEF Keepalive, Deadlines
  <2>2. Len(lane[run.instance]) = 0
    BY <1>22, <2>1, RunDrained DEF Keepalive
  <2>3. /\ lane' \in [Instances -> Seq(Deadlines)] /\ Len(lane'[run.instance]) = Len(lane[run.instance]) + 1
        /\ \A j \in Instances \ {run.instance} : lane'[j] = lane[j]
    BY <1>22, <2>1, SetsFollow DEF Keepalive
  <2>4. run' = run /\ run.held /\ Len(lane'[run.instance]) = 1
    BY <1>22, <2>2, <2>3 DEF Keepalive
  <2>5. \A j \in Instances : j = run.instance \/ Len(lane'[j]) <= 3
    BY <2>3, <2>4
  <2> QED BY <2>1, <2>3, <2>4, <2>5
<1>23. ASSUME NEW i \in Instances, DeadlineLands(i)
       PROVE  LanesShort' /\ lane' \in [Instances -> Seq(Deadlines)]
  BY <1>23, LandedLane DEF DeadlineLands
<1>24. CASE MachineSteps /\ UNCHANGED lane
  BY <1>24, MachineFrame
<1> QED
  BY Steps, <1>1, <1>2, <1>3, <1>4, <1>5, <1>5b, <1>6, <1>7, <1>8, <1>9, <1>10, <1>11, <1>12, <1>13, <1>14, <1>15, <1>16, <1>17, <1>18, <1>18b, <1>19, <1>20, <1>21, <1>22, <1>23, <1>24
  DEF RunSteps, MachineSteps, ReapLists, ReapReads, ReapKills, Pauses, Ages, MachineLost

\* A step that keeps a hold as it was, and one after which there is none.
Keeps ==
  /\ run'.instance = run.instance
  /\ run'.pc = "holding" \/ run'.held => run.pc = "holding" \/ run.held
  /\ UNCHANGED <<vmOf, lane, machines, stray>>
Drops == run'.pc # "holding" /\ ~run'.held

LEMMA HoldFollows ==
  ASSUME TypeOK, StageFollows, RunKeepsItsInstance, RunSteps
  PROVE  Keeps \/ Drops \/ (Start /\ Sets(run.instance, "run")) \/ (Resume /\ Sets(run.instance, "run"))
<1> USE IdsAssumption DEF TypeOK, RunTypeOK, StageFollows, RunKeepsItsInstance, Keeps, Drops, Runs, Placed, vms, None
<1> DEFINE Goal == Keeps \/ Drops \/ (Start /\ Sets(run.instance, "run")) \/ (Resume /\ Sets(run.instance, "run"))
<1>1. CASE Begin
  BY <1>1, NoRunFields DEF Begin
<1>2. CASE OpenSandbox
  BY <1>2 DEF OpenSandbox
<1>3. CASE Start
  BY <1>3 DEF Start
<1>4. CASE Hold
  BY <1>4 DEF Hold
<1>5. CASE OpenSession
  BY <1>5 DEF OpenSession
<1>5b. CASE FindSession
  BY <1>5b, FoundInstance DEF FindSession, Finds, Live, Goes
<1>6. CASE Lapse
  BY <1>6 DEF Lapse
<1>7. CASE Finish
  BY <1>7 DEF Finish, Goes
<1>8. CASE Fails
  BY <1>8 DEF Fails, Goes
<1>9. CASE Ask
  BY <1>9 DEF Ask, Goes
<1>10. CASE Listen
  <2>1. run'.pc \in {"resuming", "leaving", "waiting"} /\ ~run'.held
    BY <1>10 DEF Listen, LetsGo
  <2> QED BY <2>1
<1>11. CASE Answer
  BY <1>11 DEF Answer, Offer, Goes
<1>12. ASSUME NEW key \in Keys, Message(key) PROVE Goal
  BY <1>12 DEF Message, Offer, Goes
<1>13. CASE Expire
  BY <1>13 DEF Expire, WaitFails, Goes
<1>14. CASE Stop
  BY <1>14 DEF Stop
<1>15. CASE Resume
  BY <1>15 DEF Resume, Goes
<1>16. CASE Leave
  BY <1>16 DEF Leave, LetsGo
<1>17. CASE Settle
  BY <1>17 DEF Settle, Goes
<1>18. CASE Killed
  BY <1>18 DEF Killed, Goes
<1>18b. CASE Retired
  BY <1>18b DEF Retired
<1>19. CASE End
  BY <1>19 DEF End, Goes
<1>20. CASE Release
  BY <1>20, NoRunFields DEF Release
<1> QED BY <1>1, <1>2, <1>3, <1>4, <1>5, <1>5b, <1>6, <1>7, <1>8, <1>9, <1>10, <1>11, <1>12, <1>13, <1>14, <1>15, <1>16, <1>17, <1>18, <1>18b, <1>19, <1>20 DEF RunSteps

\* The world stops machines, and changes nothing else of one that runs.
LEMMA WorldFollows ==
  ASSUME TypeOK, MachineSteps
  PROVE  \/ Keepalive
         \/ \E i \in Instances : DeadlineLands(i)
         \/ UNCHANGED lane /\ \A m \in Machines :
              /\ Running(m)' => Running(m) /\ machines'[m].deadline = machines[m].deadline
              /\ Alive(m)' => Alive(m)
<1> USE DEF TypeOK, VmTypeOK, Running, Alive
<1> DEFINE Goal == UNCHANGED lane /\ \A k \in Machines :
              /\ Running(k)' => Running(k) /\ machines'[k].deadline = machines[k].deadline
              /\ Alive(k)' => Alive(k)
<1>1. CASE ReapLists \/ ReapReads
  BY <1>1 DEF ReapLists, ReapReads, vms
<1>2. CASE ReapKills
  BY <1>2, GoneFollows DEF ReapKills
<1>3. ASSUME NEW m \in Machines, MachineLost(m) PROVE Goal
  BY <1>3, GoneFollows DEF MachineLost
<1>4. ASSUME NEW m \in Machines, Pauses(m) PROVE Goal
  BY <1>4 DEF Pauses, States
<1>5. ASSUME NEW m \in Machines, Ages(m) PROVE Goal
  BY <1>5 DEF Ages, States
<1> QED BY <1>1, <1>2, <1>3, <1>4, <1>5 DEF MachineSteps

LEMMA DeadlineStep ==
  ASSUME TypeOK, StageFollows, RunKeepsItsInstance, DeadlineFollows, OnlyTheEntrySets, MachinesKnown, Next
  PROVE  DeadlineFollows'
<1> USE DEF TypeOK, DeadlineFollows
<1>1. (run.pc = "holding" \/ run.held) => run.instance \in Instances /\ entry = run.instance
  BY DEF RunTypeOK, StageFollows, RunKeepsItsInstance, Placed, Runs
<1>2. CASE RunSteps
  <2>1. CASE Keeps
    BY <2>1 DEF Keeps, Running
  <2>2. CASE Drops
    BY <2>2 DEF Drops
  <2>3. CASE (Start \/ Resume) /\ Sets(run.instance, "run")
    <3>1. run.instance \in Instances /\ run'.instance = run.instance
      BY <2>3 DEF Start, Resume, Goes, RunTypeOK, StageFollows, Placed, Runs
    <3> QED BY <2>3, <3>1, SetsFollow DEF Deadlines
  <2> QED BY <1>2, <2>1, <2>2, <2>3, HoldFollows
<1>3. CASE SandboxSteps
  <2>1. UNCHANGED <<run, lane, machines, stray>>
    BY <1>3, SandboxFrame
  <2>2. ASSUME NEW i \in Instances, Live(i), run.pc = "holding" \/ run.held PROVE vmOf' = vmOf
    BY <1>1, <2>2, FoundInstance, IdsAssumption DEF Live, None
  <2>3. run.pc = "holding" \/ run.held => vmOf' = vmOf
    BY <1>3, <2>2 DEF SandboxSteps, Follow, Finds, Followed, SweepLooks, SweepEnds, Idles, vms
  <2> QED BY <2>1, <2>3 DEF Running
<1>4. CASE Keepalive
  BY <1>1, <1>4, SetsFollow DEF Keepalive, Deadlines
<1>5. ASSUME NEW i \in Instances, DeadlineLands(i), run.pc = "holding" \/ run.held PROVE DeadlineFollows'
  <2>1. UNCHANGED <<run, vmOf, stray>> /\ Lands(i)
    BY <1>5 DEF DeadlineLands
  <2>2. \A m \in Machines : machines'[m].state = machines[m].state
    BY <2>1, LandsFollow
  <2>3. CASE i = run.instance
    <3>1. /\ lane[i] # <<>> /\ Last(lane[i]) = "run"
          /\ lane'[i] = <<>> => Head(lane[i]) = "run"
          /\ lane'[i] # <<>> => Last(lane'[i]) = "run"
      BY <1>5, <2>1, <2>3, LandedLane
    <3>2. Running(vmOf[i])' => machines'[vmOf[i]].deadline = Head(lane[i])
      BY <2>1, <2>2, LandsFollow DEF Running, VmTypeOK
    <3> QED BY <2>1, <2>3, <3>1, <3>2
  <2>4. CASE i # run.instance
    <3>1. lane'[run.instance] = lane[run.instance]
      BY <1>1, <1>5, <2>1, <2>4, LandedLane
    <3>2. ~stray => ~Running(vmOf[i])
      BY <1>1, <1>5, <2>1, <2>4, LandedLane DEF OnlyTheEntrySets, Alive, Running, StageFollows
    <3>3. ~stray => machines' = machines
      BY <2>1, <3>2 DEF Lands
    <3> QED BY <1>1, <1>5, <2>1, <3>1, <3>3 DEF Running
  <2> QED BY <2>3, <2>4
<1>6. CASE MachineSteps /\ (run.pc = "holding" \/ run.held)
  <2>1. UNCHANGED <<run, vmOf, stray>>
    BY <1>6, MachineFrame
  <2>2. ASSUME UNCHANGED lane, \A m \in Machines : Running(m)' => Running(m) /\ machines'[m].deadline = machines[m].deadline
        PROVE  DeadlineFollows'
    <3>1. Running(vmOf[run.instance])' => vmOf[run.instance] \in Machines
      BY <1>1, <1>6, <2>1 DEF Running, VmTypeOK
    <3> QED BY <1>6, <2>1, <2>2, <3>1 DEF Running
  <2> QED BY <1>4, <1>5, <1>6, <2>2, WorldFollows
<1>7. CASE MachineSteps /\ ~(run.pc = "holding" \/ run.held)
  BY <1>7, MachineFrame
<1> QED BY Steps, <1>2, <1>3, <1>6, <1>7

LEMMA UsedStep ==
  ASSUME TypeOK, StageFollows, EntryFollows, RunKeepsItsInstance, UsedWhilePending, Next
  PROVE  UsedWhilePending'
<1> USE IdsAssumption DEF TypeOK, HubTypeOK, RunTypeOK, LaneTypeOK, StageFollows, UsedWhilePending, Runs, Placed, hub, vms, None
<1>1. CASE used' = TRUE
  BY <1>1
<1>2. CASE UNCHANGED <<entry, used, lane>> /\ run'.instance = run.instance /\ (run.prepared => run'.prepared)
  BY <1>2
<1>3. CASE entry' = None
  BY <1>3
<1>4. ASSUME NEW d \in Deadlines, run.instance \in Instances, entry = run.instance, Sets(run.instance, d),
             UNCHANGED <<entry, used>>, run'.instance = run.instance, run.prepared => run'.prepared
      PROVE  UsedWhilePending'
  BY <1>4
<1>5. CASE Begin
  BY <1>5, NoRunFields DEF Begin, NoRun, runOpen
<1>6. CASE Start
  BY <1>4, <1>2, <1>6 DEF Start, RunKeepsItsInstance, Deadlines
<1>7. CASE Resume
  BY <1>4, <1>2, <1>7 DEF Resume, Goes, RunKeepsItsInstance, Deadlines
<1>8. CASE Keepalive
  BY <1>4, <1>8 DEF Keepalive, RunKeepsItsInstance, Deadlines
<1>9. CASE Listen
  <2>1. run'.instance = run.instance /\ run'.prepared = run.prepared /\ Sets(run.instance, "idle")
    BY <1>9 DEF Listen, LetsGo
  <2> QED BY <1>4, <1>9, <2>1 DEF Listen, RunKeepsItsInstance, Deadlines
<1>10. CASE Leave
  <2>1. run'.instance = run.instance /\ run'.prepared = run.prepared
    BY <1>10 DEF Leave, LetsGo
  <2> QED BY <1>2, <1>4, <1>10, <2>1 DEF Leave, LetsGo, RunKeepsItsInstance, Deadlines
<1>11. CASE Settle
  <2>1. run'.instance = run.instance /\ run'.prepared = run.prepared
    BY <1>11 DEF Settle, Goes
  <2> QED BY <1>2, <1>3, <1>4, <1>11, <2>1 DEF Settle, Retire, RunKeepsItsInstance, Deadlines
<1>12. CASE Release
  BY <1>12, NoRunFields DEF Release
<1>13. CASE SandboxSteps
  <2>1. CASE Idles
    BY <2>1 DEF Idles, Still
  <2> QED
    BY <1>1, <1>2, <1>3, <1>13, <2>1 DEF SandboxSteps, Follow, Finds, Followed, SweepLooks, SweepEnds, Retire, jobs
<1>14. ASSUME NEW i \in Instances, DeadlineLands(i) PROVE UsedWhilePending'
  <2>1. \A j \in Instances : lane'[j] # <<>> => lane[j] # <<>>
    BY <1>14, LandedLane DEF DeadlineLands
  <2> QED BY <1>14, <2>1 DEF DeadlineLands
<1>15. CASE OpenSandbox \/ FindSession
  BY <1>1, <1>15 DEF OpenSandbox, FindSession, Finds
<1>15b. CASE OpenSession
  BY <1>2, <1>15b DEF OpenSession
<1>16. CASE Hold \/ Lapse \/ Finish \/ Fails \/ Ask \/ Expire \/ Stop \/ End
  BY <1>2, <1>16 DEF Hold, Lapse, Finish, Fails, Ask, Expire, WaitFails, Stop, End, Goes
<1>17. CASE Answer \/ \E key \in Keys : Message(key)
  BY <1>2, <1>17 DEF Answer, Message, Offer, Goes
<1>18. CASE Killed \/ Retired
  BY <1>2, <1>18 DEF Killed, Retired, Goes
<1>19. CASE MachineSteps /\ UNCHANGED lane
  BY <1>2, <1>19, MachineFrame
<1> QED
  BY Steps, <1>5, <1>6, <1>7, <1>8, <1>9, <1>10, <1>11, <1>12, <1>13, <1>14, <1>15, <1>15b, <1>16, <1>17, <1>18, <1>19
  DEF RunSteps, MachineSteps, ReapLists, ReapReads, ReapKills, Pauses, Ages, MachineLost

\* What a step brings into play is the entry's, or being killed, or gone.
LEMMA EntrySetsStep ==
  ASSUME TypeOK, StageFollows, EntryFollows, RunKeepsItsInstance, UsedWhilePending, MachinesKnown, OnlyTheEntrySets, Next
  PROVE  OnlyTheEntrySets'
<1> USE IdsAssumption DEF TypeOK, HubTypeOK, RunTypeOK, VmTypeOK, LaneTypeOK, StageFollows, OnlyTheEntrySets, Runs, Placed, hub, vms, None
<1>1. ASSUME UNCHANGED <<entry, vmOf, lane, stray>>, run.pc = "killing" => run'.pc = "killing" /\ run'.instance = run.instance,
             \A m \in Machines : Alive(m)' => Alive(m)
      PROVE  OnlyTheEntrySets'
  BY <1>1 DEF Alive
<1>2. ASSUME NEW i \in Instances, Live(i), UNCHANGED <<lane, machines, stray>>,
             run.pc = "killing" => run'.pc = "killing" /\ run'.instance = run.instance
      PROVE  OnlyTheEntrySets'
  <2>1. /\ \A j \in Instances : vmOf'[j] # vmOf[j] => j = i
        /\ entry' = i /\ entry \in {None, i}
    BY <1>2, FoundFollows DEF Live
  <2> QED BY <1>2, <2>1 DEF Alive
<1>3. ASSUME NEW d \in Deadlines, Sets(run.instance, d), run.instance \in Instances, entry = run.instance,
             UNCHANGED <<entry, vmOf, machines, stray>>, run.pc # "killing"
      PROVE  OnlyTheEntrySets'
  BY <1>3, SetsFollow DEF Alive
\* A machine a command wakes was alive, or no instance had it.
<1>4. ASSUME NEW i \in Instances, NEW m \in Machines, Commands(i, m), NEW j \in Instances, j # i, ~Alive(vmOf[j])
      PROVE  ~Alive(vmOf[j])'
  <2>0. vmOf' = [vmOf EXCEPT ![i] = m] /\ \A other \in Machines \ {m} : machines'[other] = machines[other]
    BY <1>4, CommandsFollow
  <2>1. vmOf'[j] = vmOf[j] /\ \A other \in Machines \ {m} : machines'[other] = machines[other]
    BY <1>4, <2>0
  <2>2. CASE vmOf[j] = m
    BY <1>4, <2>1, <2>2, CommandsFollow DEF MachinesKnown, Alive, Running
  <2>3. CASE vmOf[j] # m
    BY <1>4, <2>1, <2>3 DEF Alive
  <2> QED BY <2>2, <2>3
<1>5. ASSUME NEW i \in Instances, NEW m \in Machines, Commands(i, m), i = run.instance, i = entry, run.pc # "killing",
             \A j \in Instances \ {i} : lane'[j] = lane[j], UNCHANGED stray,
             entry' = i \/ (run'.pc = "killing" /\ run'.instance = i)
      PROVE  OnlyTheEntrySets'
  BY <1>4, <1>5
<1>6. CASE Start
  <2>1. run.instance \in Instances /\ run.instance = entry /\ run.pc # "killing" /\ UNCHANGED <<entry, stray>>
    BY <1>6 DEF Start, RunKeepsItsInstance
  <2>2. ASSUME NEW m \in Machines, Commands(run.instance, m), Sets(run.instance, "run") PROVE OnlyTheEntrySets'
    BY <1>5, <2>1, <2>2, SetsFollow DEF Deadlines
  <2>3. CASE UNCHANGED vms
    BY <1>1, <2>1, <2>3 DEF Alive
  <2> QED BY <1>6, <2>2, <2>3 DEF Start
<1>7. CASE Resume
  <2>1. run.instance \in Instances /\ run.instance = entry /\ run.pc # "killing" /\ UNCHANGED <<entry, stray>>
    BY <1>7 DEF Resume, RunKeepsItsInstance
  <2>2. ASSUME NEW m \in Machines, Commands(run.instance, m), Sets(run.instance, "run") \/ UNCHANGED lane PROVE OnlyTheEntrySets'
    BY <1>5, <2>1, <2>2, SetsFollow DEF Deadlines
  <2>3. CASE UNCHANGED <<vmOf, machines, lane>>
    BY <1>1, <2>1, <2>3 DEF Alive
  <2> QED BY <1>7, <2>2, <2>3 DEF Resume
<1>8. CASE Settle
  <2>1. run.instance \in Instances /\ run.instance = entry /\ run.pc # "killing" /\ UNCHANGED stray
    BY <1>8 DEF Settle, RunKeepsItsInstance
  <2>2. \/ Sets(run.instance, "idle") /\ entry' = entry
        \/ UNCHANGED lane /\ (entry' = entry \/ (run'.pc = "killing" /\ run'.instance = run.instance))
    BY <1>8 DEF Settle, Retire, Goes
  <2>3. ASSUME NEW m \in Machines, Commands(run.instance, m) PROVE OnlyTheEntrySets'
    BY <1>5, <2>1, <2>2, <2>3, SetsFollow DEF Deadlines
  <2>4. CASE UNCHANGED <<vmOf, machines>>
    <3>1. \A j \in Instances \ {run.instance} : lane'[j] = lane[j]
      BY <2>1, <2>2, SetsFollow DEF Deadlines
    <3> QED BY <2>1, <2>2, <2>4, <3>1 DEF Alive
  <2> QED BY <1>8, <2>3, <2>4 DEF Settle
<1>9. CASE Killed
  <2>1. run.pc = "killing" /\ run.instance \in Instances /\ UNCHANGED <<entry, vmOf, lane>>
    BY <1>9 DEF Killed
  <2>2. CASE Gone({vmOf[run.instance]}) /\ UNCHANGED stray
    <3>1. \A m \in Machines : Alive(m)' => Alive(m) /\ m # vmOf[run.instance]
      BY <2>2, GoneFollows
    <3>2. \A i \in Instances : Alive(vmOf[i])' => Alive(vmOf[i]) /\ vmOf[i] # vmOf[run.instance]
      BY <2>1, <3>1 DEF Alive
    <3> QED BY <2>1, <2>2, <3>2
  <2>3. CASE UNCHANGED machines /\ stray' = (stray \/ lane[run.instance] # <<>>)
    BY <2>1, <2>3 DEF Alive
  <2> QED BY <1>9, <2>2, <2>3 DEF Killed
<1>10. CASE OpenSandbox \/ FindSession \/ Follow
  BY <1>2, <1>10 DEF OpenSandbox, FindSession, Follow, Finds, Goes
<1>11. CASE SweepEnds
  <2>1. CASE StillIdle
    <3>1. /\ entry \in Instances /\ lane[entry] = <<>> /\ entry' = None
          /\ run.pc = "none" /\ UNCHANGED <<run, lane, vmOf, machines, stray>>
      BY <1>11, <2>1 DEF SweepEnds, StillIdle, Idle, runOpen, UsedWhilePending, Retire
    <3> QED BY <3>1 DEF Alive
  <2>2. CASE ~StillIdle
    BY <1>1, <1>11, <2>2 DEF SweepEnds, Alive
  <2> QED BY <2>1, <2>2
<1>12. CASE Keepalive
  BY <1>3, <1>12 DEF Keepalive, RunKeepsItsInstance, Deadlines
<1>13. CASE Listen
  BY <1>3, <1>13 DEF Listen, LetsGo, RunKeepsItsInstance, Deadlines
<1>14. CASE Leave
  <2>1. CASE run.held
    BY <1>3, <1>14, <2>1 DEF Leave, LetsGo, RunKeepsItsInstance, Deadlines
  <2>2. CASE ~run.held
    BY <1>1, <1>14, <2>2 DEF Leave, LetsGo, Alive
  <2> QED BY <2>1, <2>2
<1>15. ASSUME NEW i \in Instances, DeadlineLands(i) PROVE OnlyTheEntrySets'
  <2>1. \A j \in Instances : lane'[j] # <<>> => lane[j] # <<>>
    BY <1>15, LandedLane DEF DeadlineLands
  <2>2. \A m \in Machines : machines'[m].state = machines[m].state
    BY <1>15, LandsFollow DEF DeadlineLands
  <2> QED BY <1>15, <2>1, <2>2 DEF DeadlineLands, Alive
<1>16. CASE MachineSteps
  <2>1. UNCHANGED <<run, entry, vmOf, stray>>
    BY <1>16, MachineFrame
  <2> QED BY <1>1, <1>12, <1>15, <1>16, <2>1, WorldFollows
<1>17. CASE Retired \/ Followed \/ SweepLooks \/ Idles
  BY <1>1, <1>17 DEF Retired, Followed, SweepLooks, Idles, Alive
<1>18. CASE Begin \/ Hold \/ OpenSession \/ Lapse \/ Finish \/ Fails \/ Ask \/ Expire \/ Stop \/ End \/ Release
  BY <1>1, <1>18 DEF Begin, Hold, OpenSession, Lapse, Finish, Fails, Ask, Expire, WaitFails, Stop, End, Release, Goes, runOpen, Alive
<1>19. CASE Answer \/ \E key \in Keys : Message(key)
  BY <1>1, <1>19 DEF Answer, Message, Offer, Goes, Alive
<1> QED
  BY Steps, <1>6, <1>7, <1>8, <1>9, <1>10, <1>11, <1>13, <1>14, <1>16, <1>17, <1>18, <1>19
  DEF RunSteps, SandboxSteps

LEMMA ReapStep ==
  ASSUME TypeOK, StageFollows, ReapFollows, Next
  PROVE  ReapFollows'
<1> USE BoundAssumption DEF TypeOK, RunTypeOK, HubTypeOK, ReapFollows, Runs
<1>1. CASE UNCHANGED reap /\ run'.n = run.n /\ (rowOpen' => rowOpen)
  BY <1>1
<1>2. CASE Begin
  <2>1. run'.n = run.n + 1 /\ UNCHANGED reap
    BY <1>2 DEF Begin, NoRun, jobs
  <2> QED BY <2>1
<1>3. CASE ReapLists
  BY <1>3 DEF ReapLists
<1>4. CASE ReapReads
  BY <1>4 DEF ReapReads, Spared, NoReap
<1>5. CASE ReapKills
  BY <1>5 DEF ReapKills, NoReap
<1>6. CASE Release
  BY <1>6, NoRunFields DEF Release, jobs
<1>7. CASE Answer \/ \E key \in Keys : Message(key)
  BY <1>1, <1>7 DEF Answer, Message, Offer, Goes, jobs
<1>8. CASE Listen \/ Leave
  BY <1>1, <1>8 DEF Listen, Leave, LetsGo, jobs
<1>9. CASE SandboxSteps
  BY <1>1, <1>9, SandboxFrame
<1>10. CASE OpenSandbox \/ Start \/ Hold \/ FindSession \/ OpenSession \/ Lapse \/ Finish \/ Fails
  BY <1>1, <1>10 DEF OpenSandbox, Start, Hold, FindSession, OpenSession, Lapse, Finish, Fails, Goes, jobs
<1>11. CASE Ask \/ Expire \/ Stop \/ Resume \/ Settle \/ Killed \/ Retired \/ End
  BY <1>1, <1>11 DEF Ask, Expire, WaitFails, Stop, Resume, Settle, Killed, Retired, End, Goes, jobs
<1>12. CASE MachineSteps
  BY <1>1, <1>3, <1>4, <1>5, <1>12, MachineFrame
  DEF MachineSteps, Keepalive, DeadlineLands, Pauses, Ages, MachineLost, jobs
<1> QED BY Steps, <1>2, <1>6, <1>7, <1>8, <1>9, <1>10, <1>11, <1>12 DEF RunSteps

-----------------------------------------------------------------------------
(* The invariant holds, and what it gives *)

LiveInv ==
  /\ TypeOK /\ StageFollows /\ RepliesFollow /\ OneReplyEndsEachWait
  /\ EntryFollows /\ RunKeepsItsInstance /\ MachinesKnown
  /\ DeadlineFollows /\ OnlyTheEntrySets /\ UsedWhilePending /\ LanesShort /\ ReapFollows

LEMMA LiveInvInit == Init => LiveInv
<1> SUFFICES ASSUME Init PROVE LiveInv
  OBVIOUS
<1> USE IdsAssumption, BoundAssumption DEF Init
<1>1. /\ run = [n |-> 0, pc |-> "none", instance |-> None, incarnation |-> None, started |-> FALSE,
                usable |-> TRUE, prepared |-> FALSE, held |-> FALSE, stopped |-> FALSE]
  BY DEF NoRun
<1>2. RunTypeOK
  <2>1. 0 \in 0..MaxRuns /\ None \in Instances \cup {None} /\ None \in Machines \cup {None} /\ rowOpen = FALSE
    BY BoundAssumption
  <2> HIDE DEF Init
  <2> QED BY <1>1, <2>1 DEF RunTypeOK, Runs
<1>3. InboxTypeOK
  BY <1>1, NewInboxFields DEF InboxTypeOK, Inbox
<1>4. VmTypeOK
  BY DEF VmTypeOK, States, Deadlines
<1>5. LaneTypeOK /\ \A i \in Instances : Len(lane[i]) = 0
  BY EmptySeq DEF LaneTypeOK
<1>6. HubTypeOK
  <2>1. 0 \in 0..MaxRuns /\ 0 \in 0..MaxFaults
    BY BoundAssumption
  <2>2. NoReap \in [pc : {"off", "listed", "killing"}, doomed : SUBSET Machines, seen : 0..MaxRuns]
    BY <2>1 DEF NoReap
  <2>3. session = NoSession /\ opening \in [Openers -> Instances \cup {None}]
    OBVIOUS
  <2> QED BY <2>1, <2>2, <2>3 DEF HubTypeOK
<1>7. StageFollows /\ RepliesFollow /\ OneReplyEndsEachWait
  BY <1>1, NewInboxFields DEF StageFollows, RepliesFollow, OneReplyEndsEachWait, Placed, Runs
<1>8. EntryFollows /\ RunKeepsItsInstance /\ MachinesKnown
  BY <1>1 DEF EntryFollows, RunKeepsItsInstance, MachinesKnown, Runs, None
<1>9. DeadlineFollows /\ OnlyTheEntrySets /\ UsedWhilePending /\ LanesShort
  BY <1>1, <1>5 DEF DeadlineFollows, OnlyTheEntrySets, UsedWhilePending, LanesShort
<1>10. ReapFollows
  BY <1>1 DEF ReapFollows, NoReap
<1> QED BY <1>2, <1>3, <1>4, <1>5, <1>6, <1>7, <1>8, <1>9, <1>10 DEF LiveInv, TypeOK

LEMMA LiveInvStep ==
  ASSUME LiveInv, [Next]_vars
  PROVE  LiveInv'
<1>0. LiveInv
  OBVIOUS
<1>1. CASE UNCHANGED vars
  BY <1>0, <1>1 DEF LiveInv, vars, hub, vms, jobs, TypeOK, RunTypeOK, InboxTypeOK, VmTypeOK, LaneTypeOK, HubTypeOK, StageFollows, RepliesFollow,
     OneReplyEndsEachWait, EntryFollows, RunKeepsItsInstance, MachinesKnown, DeadlineFollows, OnlyTheEntrySets, UsedWhilePending,
     LanesShort, ReapFollows, Alive, Running
<1>2. CASE Next
  <2> USE <1>0 DEF LiveInv
  <2>1. ASSUME RunSteps PROVE RunTypeOK' /\ InboxTypeOK' /\ StageFollows' /\ RepliesFollow' /\ OneReplyEndsEachWait'
    BY <2>1, RunTypeStep, InboxTypeStep, StageStep, RepliesStep
  <2>2. ASSUME UNCHANGED <<run, rowOpen, inbox>> PROVE RunTypeOK' /\ InboxTypeOK' /\ StageFollows' /\ RepliesFollow' /\ OneReplyEndsEachWait'
    <3>1. RunTypeOK' /\ InboxTypeOK'
      BY <2>2 DEF TypeOK, RunTypeOK, InboxTypeOK
    <3>2. StageFollows'
      BY <2>2 DEF StageFollows
    <3>3. RepliesFollow' /\ OneReplyEndsEachWait'
      BY <2>2 DEF RepliesFollow, OneReplyEndsEachWait
    <3> QED BY <3>1, <3>2, <3>3
  <2>3. RunTypeOK' /\ InboxTypeOK' /\ StageFollows' /\ RepliesFollow' /\ OneReplyEndsEachWait'
    BY <1>2, <2>1, <2>2, Steps, SandboxFrame, MachineFrame
  <2>4. LanesShort' /\ lane' \in [Instances -> Seq(Deadlines)]
    BY <1>2, LaneStep
  <2>5. LaneTypeOK'
    BY <2>4 DEF LaneTypeOK, LanesShort
  <2> QED
    BY <1>2, <2>3, <2>4, <2>5, HubTypeStep, VmStep, InstanceStep, DeadlineStep, EntrySetsStep, UsedStep, ReapStep DEF TypeOK
<1> QED BY <1>1, <1>2

THEOREM LiveInvHolds == Spec => []LiveInv
<1>1. Init => LiveInv
  BY LiveInvInit
<1>2. LiveInv /\ [Next]_vars => LiveInv'
  BY LiveInvStep
<1> QED BY <1>1, <1>2, PTL DEF Spec

\* A conversation's run, its inbox, what the Hub holds and E2B's machines hold only what their types
\* say, and no instance ever has more than four deadlines to set (sandbox.ts #setDeadline).
THEOREM TypeCorrect == Spec => []TypeOK
<1>1. LiveInv => TypeOK
  BY DEF LiveInv
<1> QED BY <1>1, LiveInvHolds, PTL

\* However many answers, messages and retries race for a question, one is accepted, no key is
\* accepted twice, and what was accepted is what ends the wait (question.ts createInbox).
THEOREM OneReply == Spec => []OneReplyEndsEachWait
<1>1. LiveInv => OneReplyEndsEachWait
  BY DEF LiveInv
<1> QED BY <1>1, LiveInvHolds, PTL

\* A run that has its sandbox has the conversation's own instance until it lets it go, and from its preparation on
\* no session but one of that instance, whatever sweep, kill or open comes in between and whatever session an
\* earlier one left (conversation.ts live, open, retire, sweep).
THEOREM InstanceIsKept == Spec => []RunKeepsItsInstance
<1>1. LiveInv => RunKeepsItsInstance
  BY DEF LiveInv
<1> QED BY <1>1, LiveInvHolds, PTL

\* The deadline set last on a machine a run holds is the run's, unless an instance whose kill failed
\* has one to set (sandbox.ts #setDeadline).
THEOREM HeldStaysAwake == Spec => []HeldMachineStaysAwake
<1>1. LiveInv => HeldMachineStaysAwake
  BY DEF LiveInv, DeadlineFollows, HeldMachineStaysAwake
<1> QED BY <1>1, LiveInvHolds, PTL

\* The idle-machines job kills nothing while the run it saw open stands (idle-machine-sweep.ts).
THEOREM ReaperSpares == Spec => ReaperSparesOpenRuns
<1>1. LiveInv /\ [Next]_vars => [ReapKills => ~rowOpen \/ reap.seen # run.n]_vars
  BY DEF LiveInv, ReapFollows, ReapKills
<1> QED BY <1>1, LiveInvHolds, PTL DEF Spec, ReaperSparesOpenRuns

=============================================================================
