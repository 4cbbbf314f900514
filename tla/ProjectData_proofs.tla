-------------------------- MODULE ProjectData_proofs --------------------------
(***************************************************************************)
(* What holds of a Project's data for any runs, any administrators that     *)
(* delete it and any lists of migrations.                                   *)
(***************************************************************************)
EXTENDS ProjectData, SequenceTheorems, TLAPS

-----------------------------------------------------------------------------
(* The inductive invariant *)

Elements(s) == {s[i] : i \in DOMAIN s}
Waiting == {"queued", "looked", "sent"}

\* Only the first of the Hub's prepares is past the queue, the runner has none it was not sent, and the
\* run of a prepare the Hub waits for is open, or was settled by a pass.
QueuesFollow ==
  /\ chain \in Seq(Runs) /\ line \in Seq(Runs) /\ ledger \in Seq(Nat)
  /\ \A r \in Runs :
       /\ at[r] \in {"looked", "sent"} => First(r, chain)
       /\ r \in Ahead => at[r] \in {"sent", "told", "over"}
       /\ at[r] = "turn" => r \in open
       /\ at[r] \in Waiting => r \in open \cup lost

\* A prepare may reset while the Hub holds its lock, and then no grant comes; or while its lock is lost and
\* its time is not over. What the runner applies goes on from what is there.
ResetFollows ==
  /\ app => Holding = {}
  /\ \A r \in Ahead : mode[r] = "RESET" => at[r] = "sent" \/ r \in cut \cup late
  /\ doing = "resetting" => line # <<>> /\ mode[Head(line)] = "RESET" /\ (at[Head(line)] = "sent" \/ Head(line) \in cut)
  /\ doing = "applying" => line # <<>> /\ (ledger = NoSchema \/ IsPrefix(ledger, artifact[Head(line)]))

\* How far each deletion is says what is gone. Unless a lost run is left, the runner is given nothing more,
\* so that a release that waited for what was in flight leaves nothing behind.
DeletionFollows ==
  /\ releases # {} => grave # "none"
  /\ grave # "none" => open = {}
  /\ \A d \in Deleters :
       /\ step[d] \in {"repository", "complete"} => ~stored
       /\ step[d] = "complete" => ~repo
  /\ grave \in {"purged", "completed"} => ~stored
  /\ grave = "completed" => ~repo
  /\ ~stored => ~app /\ grave # "none"
  /\ grave # "none" /\ lost = {} =>
       /\ \A x \in releases : Ahead \subseteq x.behind
       /\ (\E d \in Deleters : step[d] \in {"purge", "repository", "complete"}) \/ grave \in {"purged", "completed"} =>
            ledger = NoSchema /\ line = <<>>

DataInv == TypeOK /\ QueuesFollow /\ ResetFollows /\ DeletionFollows

-----------------------------------------------------------------------------
(* Queues that hold each run once *)

LEMMA Appended ==
  ASSUME NEW s \in Seq(Runs), IsInjective(s), NEW r \in Runs, r \notin Elements(s)
  PROVE  /\ Append(s, r) \in Seq(Runs) /\ IsInjective(Append(s, r)) /\ Elements(Append(s, r)) = Elements(s) \cup {r}
         /\ Append(s, r) # <<>> /\ Head(Append(s, r)) = (IF s = <<>> THEN r ELSE Head(s))
<1> DEFINE t == Append(s, r)
<1>1. /\ Len(s) \in Nat /\ DOMAIN s = 1..Len(s) /\ t \in Seq(Runs) /\ Len(t) = Len(s) + 1 /\ DOMAIN t = 1..(Len(s) + 1)
      /\ \A i \in 1..Len(s) : t[i] = s[i]
      /\ t[Len(s) + 1] = r
  OBVIOUS
<1> HIDE DEF t
<1>2. IsInjective(t)
  BY <1>1 DEF IsInjective, Elements
<1>3. Elements(t) = Elements(s) \cup {r}
  <2>1. 1..(Len(s) + 1) = 1..Len(s) \cup {Len(s) + 1}
    BY <1>1
  <2> QED BY <1>1, <2>1 DEF Elements
<1>4. t # <<>> /\ Head(t) = t[1]
  BY <1>1, EmptySeq
<1>5. s # <<>> => Head(s) = s[1] /\ Len(s) > 0
  BY <1>1
<1>6. s = <<>> => Len(s) = 0
  OBVIOUS
<1>7. t # <<>> /\ Head(t) = (IF s = <<>> THEN r ELSE Head(s))
  BY <1>1, <1>4, <1>5, <1>6
<1> QED BY <1>1, <1>2, <1>3, <1>7 DEF t

LEMMA Shortened ==
  ASSUME NEW s \in Seq(Runs), IsInjective(s), s # <<>>
  PROVE  /\ Tail(s) \in Seq(Runs) /\ IsInjective(Tail(s)) /\ Elements(Tail(s)) = Elements(s) \ {Head(s)}
         /\ Head(s) \in Elements(s) /\ Head(s) \in Runs
<1> DEFINE t == Tail(s)
<1>1. /\ Len(s) \in Nat \ {0} /\ DOMAIN s = 1..Len(s) /\ t \in Seq(Runs) /\ Len(t) = Len(s) - 1 /\ DOMAIN t = 1..(Len(s) - 1)
      /\ \A i \in 1..(Len(s) - 1) : t[i] = s[i + 1]
      /\ Head(s) = s[1] /\ Head(s) \in Runs
  BY EmptySeq, HeadTailProperties, LenProperties
<1> HIDE DEF t
<1>2. IsInjective(t)
  BY <1>1, SMTT(30) DEF IsInjective
<1>3. Elements(t) \subseteq Elements(s) \ {Head(s)}
  BY <1>1 DEF Elements, IsInjective
<1>4. Elements(s) \ {Head(s)} \subseteq Elements(t)
  <2> SUFFICES ASSUME NEW i \in 1..Len(s), s[i] # s[1] PROVE s[i] \in Elements(t)
    BY <1>1 DEF Elements
  <2>1. i - 1 \in 1..(Len(s) - 1) /\ t[i - 1] = s[i]
    BY <1>1
  <2> QED BY <1>1, <2>1 DEF Elements
<1>5. Head(s) \in Elements(s)
  BY <1>1 DEF Elements
<1> QED BY <1>1, <1>2, <1>3, <1>4, <1>5 DEF t

LEMMA EmptyQueue == <<>> \in Seq(Runs) /\ IsInjective(<<>>) /\ Elements(<<>>) = {}
  BY DEF IsInjective, Elements

LEMMA PrefixOfItself == ASSUME NEW s \in Seq(Nat) PROVE IsPrefix(s, s) /\ IsPrefix(<<>>, s)
<1>1. IsPrefix(s, s)
  BY DEF IsPrefix
<1>2. SubSeq(<<>>, 1, 0) = <<>> /\ SubSeq(s, 1, 0) = <<>>
  BY SubSeqEmpty
<1> QED BY <1>1, <1>2 DEF IsPrefix

-----------------------------------------------------------------------------
(* What the invariant says of the queues *)

LEMMA Queues ==
  ASSUME DataInv
  PROVE  /\ chain \in Seq(Runs) /\ line \in Seq(Runs) /\ ledger \in Seq(Nat)
         /\ IsInjective(chain) /\ IsInjective(line)
         /\ Elements(chain) = {r \in Runs : at[r] \in Waiting} /\ Elements(line) = Ahead /\ Ahead \subseteq Runs
         /\ \A r \in Runs : First(r, chain) <=> chain # <<>> /\ Head(chain) = r
         /\ \A r \in Runs : First(r, line) => r \in Ahead
<1>1. chain \in Seq(Runs) /\ line \in Seq(Runs) /\ ledger \in Seq(Nat) /\ IsInjective(chain) /\ IsInjective(line)
  BY DEF DataInv, QueuesFollow, TypeOK
<1>2. Elements(chain) = {r \in Runs : at[r] \in Waiting} /\ Elements(line) = Ahead
  BY DEF DataInv, TypeOK, Elements, Waiting, Ahead
<1>3. Elements(line) \subseteq Runs
  BY <1>1 DEF Elements
<1>4. line # <<>> => Head(line) \in Elements(line)
  BY <1>1, Shortened
<1> QED BY <1>1, <1>2, <1>3, <1>4 DEF First

LEMMA AheadNow == Ahead' = Elements(line')
  BY DEF Ahead, Elements

\* What leaves the Hub's queue is its first, and no other is past the queue.
LEMMA BackFollows ==
  ASSUME DataInv, NEW r \in Runs, at[r] \in {"looked", "sent"}, Back(r)
  PROVE  /\ at' \in [Runs -> {"idle", "turn", "queued", "looked", "sent", "told", "over"}]
         /\ at'[r] = "told" /\ \A o \in Runs \ {r} : at'[o] = at[o] /\ at[o] \notin {"looked", "sent"}
         /\ chain' \in Seq(Runs) /\ IsInjective(chain')
         /\ Elements(chain') = {o \in Runs : at'[o] \in Waiting}
<1>1. First(r, chain) /\ chain # <<>> /\ \A o \in Runs \ {r} : at[o] \notin {"looked", "sent"}
  BY DEF DataInv, QueuesFollow, First
<1>2. /\ at' \in [Runs -> {"idle", "turn", "queued", "looked", "sent", "told", "over"}]
      /\ at'[r] = "told" /\ \A o \in Runs \ {r} : at'[o] = at[o]
  BY DEF Back, DataInv, TypeOK
<1>3. chain' = Tail(chain) /\ Head(chain) = r
  BY <1>1 DEF Back, First
<1>4. /\ chain' \in Seq(Runs) /\ IsInjective(chain') /\ Elements(chain') = Elements(chain) \ {r}
  BY <1>1, <1>3, Queues, Shortened
<1>5. {o \in Runs : at'[o] \in Waiting} = {o \in Runs : at[o] \in Waiting} \ {r}
  BY <1>2 DEF Waiting
<1> QED BY <1>1, <1>2, <1>4, <1>5, Queues

\* What the runner is sent was not in its line.
LEMMA SendsFollow ==
  ASSUME DataInv, NEW r \in Runs, at[r] \in {"queued", "looked"}, First(r, chain), NEW what \in {"REFUSE", "RESET"}, Sends(r, what)
  PROVE  /\ at' \in [Runs -> {"idle", "turn", "queued", "looked", "sent", "told", "over"}]
         /\ at'[r] = "sent" /\ \A o \in Runs \ {r} : at'[o] = at[o] /\ at[o] \notin {"looked", "sent"}
         /\ mode' \in [Runs -> {"none", "REFUSE", "RESET"}]
         /\ mode'[r] = what /\ \A o \in Runs \ {r} : mode'[o] = mode[o]
         /\ line' \in Seq(Runs) /\ IsInjective(line') /\ Ahead' = Ahead \cup {r} /\ r \notin Ahead
         /\ line' # <<>> /\ Head(line') = (IF line = <<>> THEN r ELSE Head(line))
         /\ Elements(chain) = {o \in Runs : at'[o] \in Waiting} /\ UNCHANGED <<chain, doing>>
<1>1. r \notin Ahead /\ \A o \in Runs \ {r} : at[o] \notin {"looked", "sent"}
  BY DEF DataInv, QueuesFollow, First
<1>2. /\ at' \in [Runs -> {"idle", "turn", "queued", "looked", "sent", "told", "over"}]
      /\ at'[r] = "sent" /\ \A o \in Runs \ {r} : at'[o] = at[o]
      /\ mode' \in [Runs -> {"none", "REFUSE", "RESET"}]
      /\ mode'[r] = what /\ \A o \in Runs \ {r} : mode'[o] = mode[o]
  BY DEF Sends, DataInv, TypeOK
<1>3. line' = Append(line, r) /\ UNCHANGED <<chain, doing>>
  BY DEF Sends
<1>4. /\ line' \in Seq(Runs) /\ IsInjective(line') /\ Elements(line') = Elements(line) \cup {r}
      /\ line' # <<>> /\ Head(line') = (IF line = <<>> THEN r ELSE Head(line))
  BY <1>1, <1>3, Queues, Appended
<1>5. {o \in Runs : at'[o] \in Waiting} = {o \in Runs : at[o] \in Waiting}
  BY <1>2 DEF Waiting
<1> QED BY <1>1, <1>2, <1>3, <1>4, <1>5, Queues, AheadNow

\* The answer to the runner's first prepare is the end of it, on both sides.
LEMMA RepliesFollow ==
  ASSUME DataInv, NEW r \in Runs, First(r, line), Replies(r)
  PROVE  /\ at' \in [Runs -> {"idle", "turn", "queued", "looked", "sent", "told", "over"}]
         /\ at'[r] \in {"told", "over"} /\ \A o \in Runs \ {r} : at'[o] = at[o]
         /\ at'[r] = at[r] \/ (at[r] = "sent" /\ at'[r] = "told")
         /\ chain' \in Seq(Runs) /\ IsInjective(chain')
         /\ Elements(chain') = {o \in Runs : at'[o] \in Waiting}
         /\ \A o \in Runs : at'[o] \in {"looked", "sent"} => First(o, chain')
         /\ line' \in Seq(Runs) /\ IsInjective(line') /\ Ahead' = Ahead \ {r} /\ r \in Ahead /\ doing' = "none"
         /\ artifact' \in [Runs -> Artifacts \cup {<<>>}] /\ mode' \in [Runs -> {"none", "REFUSE", "RESET"}]
         /\ \A o \in Runs \ {r} : mode'[o] = mode[o]
         /\ mode'[r] = "none" /\ late' = late \ {r} /\ cut' = cut \ {r}
<1>1. r \in Ahead /\ at[r] \in {"sent", "told", "over"}
  BY Queues DEF DataInv, QueuesFollow
<1>2. /\ line' \in Seq(Runs) /\ IsInjective(line') /\ Ahead' = Ahead \ {r} /\ doing' = "none"
  <2>1. line # <<>> /\ Head(line) = r /\ line' = Tail(line) /\ doing' = "none"
    BY DEF First, Replies
  <2> QED BY <2>1, Queues, Shortened, AheadNow
<1>3. /\ artifact' \in [Runs -> Artifacts \cup {<<>>}] /\ mode' \in [Runs -> {"none", "REFUSE", "RESET"}]
      /\ \A o \in Runs \ {r} : mode'[o] = mode[o]
      /\ mode'[r] = "none" /\ late' = late \ {r} /\ cut' = cut \ {r}
  BY DEF Replies, Forgets, DataInv, TypeOK
<1>4. CASE at[r] = "sent"
  <2>1. Back(r)
    BY <1>4 DEF Replies
  <2>2. \A o \in Runs : at'[o] \notin {"looked", "sent"}
    BY <1>4, <2>1, BackFollows
  <2> QED BY <1>1, <1>2, <1>3, <1>4, <2>1, <2>2, BackFollows
<1>5. CASE at[r] # "sent"
  <2>1. UNCHANGED <<at, chain>>
    BY <1>5 DEF Replies
  <2>2. \A o \in Runs : at'[o] \in {"looked", "sent"} => First(o, chain')
    BY <2>1 DEF DataInv, QueuesFollow
  <2>3. at \in [Runs -> {"idle", "turn", "queued", "looked", "sent", "told", "over"}]
    BY DEF DataInv, TypeOK
  <2>4. at' = at /\ chain' = chain
    BY <2>1
  <2>5. /\ chain' \in Seq(Runs) /\ IsInjective(chain')
        /\ Elements(chain') = {o \in Runs : at'[o] \in Waiting}
    BY <2>4, Queues
  <2>6. /\ at' \in [Runs -> {"idle", "turn", "queued", "looked", "sent", "told", "over"}]
        /\ at'[r] \in {"told", "over"} /\ \A o \in Runs \ {r} : at'[o] = at[o]
    BY <1>1, <1>5, <2>3, <2>4
  <2> QED BY <1>1, <1>2, <1>3, <2>2, <2>4, <2>5, <2>6
<1> QED BY <1>4, <1>5

-----------------------------------------------------------------------------
(* People and the Hub's half of a prepare *)

LEMMA BeginKeeps ==
  ASSUME DataInv, NEW r \in Runs, Begin(r)
  PROVE  DataInv'
<1>1. /\ at[r] = "idle" /\ stored /\ grave = "none" /\ open = {} /\ open' = {r}
      /\ UNCHANGED <<stored, repo, app, grave, lost, cut, mode, late, chain, line, doing, ledger, releases, step>>
      /\ at' = [at EXCEPT ![r] = "turn"]
  BY DEF Begin, Admitted, projectVars, runnerVars
<1>2. PICK a \in Artifacts : artifact' = [artifact EXCEPT ![r] = a]
  BY DEF Begin
<1>3. /\ at' \in [Runs -> {"idle", "turn", "queued", "looked", "sent", "told", "over"}]
      /\ at'[r] = "turn" /\ \A o \in Runs \ {r} : at'[o] = at[o]
      /\ artifact' \in [Runs -> Artifacts \cup {<<>>}] /\ \A o \in Runs \ {r} : artifact'[o] = artifact[o]
  BY <1>1, <1>2 DEF DataInv, TypeOK
<1>4. r \notin Ahead /\ Ahead' = Ahead
  BY <1>1 DEF DataInv, QueuesFollow, Ahead
<1>5. {o \in Runs : at'[o] \in Waiting} = {o \in Runs : at[o] \in Waiting}
  BY <1>1, <1>3 DEF Waiting
<1>6. {chain'[i] : i \in DOMAIN chain'} = {o \in Runs : at'[o] \in {"queued", "looked", "sent"}}
  BY <1>1, <1>5, Queues DEF Elements, Waiting
<1>7. TypeOK'
  BY <1>1, <1>3, <1>4, <1>6 DEF DataInv, TypeOK
<1>8. QueuesFollow'
  BY <1>1, <1>3, <1>4 DEF DataInv, QueuesFollow, Waiting, First
<1>9. ResetFollows'
  <2>1. Holding' = Holding
    BY <1>1, <1>3 DEF Holding
  <2>2. line # <<>> => Head(line) # r /\ Head(line) \in Runs
    BY <1>4, Queues, Shortened
  <2> QED BY <1>1, <1>3, <1>4, <2>1, <2>2 DEF DataInv, ResetFollows
<1>10. DeletionFollows'
  BY <1>1 DEF DataInv, DeletionFollows
<1> QED BY <1>7, <1>8, <1>9, <1>10 DEF DataInv

LEMMA GrantKeeps ==
  ASSUME DataInv, Grant
  PROVE  DataInv'
<1>1. /\ stored /\ grave = "none" /\ Holding = {} /\ app'
      /\ UNCHANGED <<stored, repo, grave, open, lost, cut, at, artifact, mode, late, chain, line, doing, ledger, releases, step>>
  BY DEF Grant, Admitted, runVars, runnerVars
<1>2. app' = TRUE /\ Ahead' = Ahead /\ Holding' = Holding
  BY <1>1 DEF Grant, Ahead, Holding
<1>3. TypeOK'
  BY <1>1, <1>2 DEF DataInv, TypeOK
<1>4. QueuesFollow'
  BY <1>1, <1>2 DEF DataInv, QueuesFollow, First
<1>5. ResetFollows' /\ DeletionFollows'
  BY <1>1, <1>2 DEF DataInv, ResetFollows, DeletionFollows
<1> QED BY <1>3, <1>4, <1>5 DEF DataInv

LEMMA PreparesKeeps ==
  ASSUME DataInv, NEW r \in Runs, Prepares(r)
  PROVE  DataInv'
<1>1. /\ at[r] = "turn" /\ r \in open /\ chain' = Append(chain, r)
      /\ UNCHANGED <<stored, repo, app, grave, open, lost, cut, artifact, mode, late, line, doing, ledger, releases, step>>
      /\ at' = [at EXCEPT ![r] = "queued"]
  BY DEF Prepares, projectVars, runnerVars
<1>2. /\ at' \in [Runs -> {"idle", "turn", "queued", "looked", "sent", "told", "over"}]
      /\ at'[r] = "queued" /\ \A o \in Runs \ {r} : at'[o] = at[o]
  BY <1>1 DEF DataInv, TypeOK
<1>3. r \notin Ahead /\ Ahead' = Ahead /\ r \notin Elements(chain)
  BY <1>1, Queues DEF DataInv, QueuesFollow, Ahead, Waiting
<1>4. /\ chain' \in Seq(Runs) /\ IsInjective(chain') /\ Elements(chain') = Elements(chain) \cup {r}
      /\ chain' # <<>> /\ Head(chain') = (IF chain = <<>> THEN r ELSE Head(chain))
  BY <1>1, <1>3, Queues, Appended
<1>5. {o \in Runs : at'[o] \in Waiting} = {o \in Runs : at[o] \in Waiting} \cup {r}
  BY <1>2 DEF Waiting
<1>6. {chain'[i] : i \in DOMAIN chain'} = {o \in Runs : at'[o] \in {"queued", "looked", "sent"}}
  BY <1>4, <1>5, Queues DEF Elements, Waiting
<1>7. TypeOK'
  BY <1>1, <1>2, <1>3, <1>4, <1>6 DEF DataInv, TypeOK
<1>8. QueuesFollow'
  BY <1>1, <1>2, <1>3, <1>4 DEF DataInv, QueuesFollow, Waiting, First
<1>9. ResetFollows'
  <2>1. Holding' = Holding
    BY <1>1, <1>2 DEF Holding
  <2>2. line # <<>> => Head(line) # r /\ Head(line) \in Runs
    BY <1>3, Queues, Shortened
  <2> QED BY <1>1, <1>2, <1>3, <2>1, <2>2, Queues DEF DataInv, ResetFollows
<1>10. DeletionFollows'
  BY <1>1, <1>3 DEF DataInv, DeletionFollows
<1> QED BY <1>7, <1>8, <1>9, <1>10 DEF DataInv

LEMMA SendsKeeps ==
  ASSUME DataInv, NEW r \in Runs, at[r] \in {"queued", "looked"}, First(r, chain),
         NEW what \in {"REFUSE", "RESET"}, app => what = "REFUSE", Sends(r, what)
  PROVE  DataInv'
<1>1. UNCHANGED <<stored, repo, app, grave, open, lost, cut, artifact, late, chain, doing, ledger, releases, step>>
  BY DEF Sends, projectVars
<1>2. /\ at' \in [Runs -> {"idle", "turn", "queued", "looked", "sent", "told", "over"}]
      /\ at'[r] = "sent" /\ \A o \in Runs \ {r} : at'[o] = at[o] /\ at[o] \notin {"looked", "sent"}
      /\ mode' \in [Runs -> {"none", "REFUSE", "RESET"}]
      /\ mode'[r] = what /\ \A o \in Runs \ {r} : mode'[o] = mode[o]
      /\ line' \in Seq(Runs) /\ IsInjective(line') /\ Ahead' = Ahead \cup {r} /\ r \notin Ahead
      /\ line' # <<>> /\ Head(line') = (IF line = <<>> THEN r ELSE Head(line))
      /\ Elements(chain) = {o \in Runs : at'[o] \in Waiting} /\ UNCHANGED <<chain, doing>>
  BY SendsFollow
<1>3. {chain'[i] : i \in DOMAIN chain'} = {o \in Runs : at'[o] \in {"queued", "looked", "sent"}}
  BY <1>2 DEF Elements, Waiting
<1>4. TypeOK'
  BY <1>1, <1>2, <1>3 DEF DataInv, TypeOK
<1>5. r \in open \cup lost
  BY DEF DataInv, QueuesFollow, Waiting
<1>6. QueuesFollow'
  BY <1>1, <1>2, <1>5 DEF DataInv, QueuesFollow, Waiting, First
<1>7. ResetFollows'
  <2>1. app => Holding' = {}
    BY <1>2 DEF DataInv, Holding
  <2>2. line # <<>> => Head(line) \in Ahead /\ Head(line') = Head(line) /\ Head(line) \in Runs /\ Head(line) # r
    BY <1>2, Queues, Shortened
  <2> QED BY <1>1, <1>2, <2>1, <2>2, Queues DEF DataInv, ResetFollows
<1>8. DeletionFollows'
  <2>1. ~(grave # "none" /\ lost = {})
    BY <1>5 DEF DataInv, DeletionFollows
  <2> QED BY <1>1, <2>1 DEF DataInv, DeletionFollows
<1> QED BY <1>4, <1>6, <1>7, <1>8 DEF DataInv

LEMMA LooksKeeps ==
  ASSUME DataInv, NEW r \in Runs, Looks(r)
  PROVE  DataInv'
<1>1. at[r] = "queued" /\ First(r, chain)
  BY DEF Looks
<1>2. CASE app
  <2>1. Sends(r, "REFUSE")
    BY <1>2 DEF Looks
  <2> QED BY <1>1, <2>1, SendsKeeps
<1>3. CASE ~app
  <2>1. /\ UNCHANGED <<stored, repo, app, grave, open, lost, cut, artifact, mode, late, chain, line, doing, ledger, releases, step>>
        /\ at' = [at EXCEPT ![r] = "looked"]
    BY <1>3 DEF Looks, projectVars, runnerVars
  <2>2. /\ at' \in [Runs -> {"idle", "turn", "queued", "looked", "sent", "told", "over"}]
        /\ at'[r] = "looked" /\ \A o \in Runs \ {r} : at'[o] = at[o]
    BY <2>1 DEF DataInv, TypeOK
  <2>3. Ahead' = Ahead /\ r \notin Ahead /\ Holding' = Holding
    BY <1>1, <2>1, <2>2 DEF Ahead, Holding, DataInv, QueuesFollow
  <2>4. {o \in Runs : at'[o] \in {"queued", "looked", "sent"}} = {o \in Runs : at[o] \in {"queued", "looked", "sent"}}
    BY <1>1, <2>2
  <2>5. {o \in Runs : at'[o] = "sent"} = {o \in Runs : at[o] = "sent"}
    BY <1>1, <2>2
  <2>6. TypeOK'
    BY <2>1, <2>2, <2>3, <2>4, <2>5 DEF DataInv, TypeOK
  <2>7. QueuesFollow'
    BY <1>1, <2>1, <2>2, <2>3 DEF DataInv, QueuesFollow, Waiting, First
  <2>8. ResetFollows'
    <3>1. line # <<>> => Head(line) # r /\ Head(line) \in Runs
      BY <2>3, Queues, Shortened
    <3> QED BY <2>1, <2>2, <2>3, <3>1, Queues DEF DataInv, ResetFollows
  <2>9. DeletionFollows'
    BY <2>1, <2>3 DEF DataInv, DeletionFollows
  <2> QED BY <2>6, <2>7, <2>8, <2>9 DEF DataInv
<1> QED BY <1>2, <1>3

LEMMA LocksKeeps ==
  ASSUME DataInv, NEW r \in Runs, Locks(r)
  PROVE  DataInv'
<1> DEFINE what == Allowed
<1>1. at[r] = "looked" /\ Sends(r, what) /\ what \in {"REFUSE", "RESET"} /\ (app => what = "REFUSE")
  BY DEF Locks, Allowed
<1>2. First(r, chain)
  BY <1>1 DEF DataInv, QueuesFollow
<1> HIDE DEF what
<1> QED BY <1>1, <1>2, SendsKeeps

LEMMA BackKeeps ==
  ASSUME DataInv, NEW r \in Runs, at[r] = "sent", Back(r), cut' \in {cut, cut \cup {r}},
         mode[r] = "RESET" => r \in cut' \/ (r \in late /\ ~(First(r, line) /\ doing = "resetting")),
         UNCHANGED <<stored, repo, app, grave, open, lost, artifact, mode, late, line, doing, ledger, releases, step>>
  PROVE  DataInv'
<1>1. /\ at' \in [Runs -> {"idle", "turn", "queued", "looked", "sent", "told", "over"}]
      /\ at'[r] = "told" /\ \A o \in Runs \ {r} : at'[o] = at[o] /\ at[o] \notin {"looked", "sent"}
      /\ chain' \in Seq(Runs) /\ IsInjective(chain')
      /\ Elements(chain') = {o \in Runs : at'[o] \in Waiting}
  BY BackFollows
<1>2. Ahead' = Ahead /\ {chain'[i] : i \in DOMAIN chain'} = {o \in Runs : at'[o] \in {"queued", "looked", "sent"}}
  BY <1>1 DEF Ahead, Elements, Waiting
<1>3. TypeOK'
  BY <1>1, <1>2 DEF DataInv, TypeOK
<1>4. QueuesFollow'
  BY <1>1, <1>2 DEF DataInv, QueuesFollow, Waiting
<1>5. ResetFollows'
  <2>1. Holding' \subseteq Holding
    BY <1>1 DEF Holding
  <2>2. line # <<>> => Head(line) \in Runs /\ (Head(line) = r => First(r, line))
    BY Queues, Shortened DEF First
  <2>3. \A o \in Ahead : mode'[o] = "RESET" => at'[o] = "sent" \/ o \in cut' \cup late'
    BY <1>1, Queues DEF DataInv, ResetFollows
  <2>4. doing' = "resetting" => line' # <<>> /\ mode'[Head(line')] = "RESET" /\ (at'[Head(line')] = "sent" \/ Head(line') \in cut')
    BY <1>1, <2>2 DEF DataInv, ResetFollows
  <2> QED BY <1>2, <2>1, <2>3, <2>4 DEF DataInv, ResetFollows
<1>6. DeletionFollows'
  BY <1>2 DEF DataInv, DeletionFollows
<1> QED BY <1>3, <1>4, <1>5, <1>6 DEF DataInv

LEMMA TimesOutKeeps ==
  ASSUME DataInv, NEW r \in Runs, TimesOut(r)
  PROVE  DataInv'
  BY BackKeeps DEF TimesOut, projectVars, runnerVars

LEMMA LockLostKeeps ==
  ASSUME DataInv, NEW r \in Runs, LockLost(r)
  PROVE  DataInv'
<1>1. at[r] = "sent" /\ Back(r) /\ cut' = cut \cup {r}
  BY DEF LockLost, Holding
<1> QED BY <1>1, BackKeeps DEF LockLost, projectVars, runnerVars

LEMMA SettlesKeeps ==
  ASSUME DataInv, NEW r \in Runs, Settles(r)
  PROVE  DataInv'
<1>1. /\ at[r] \in {"turn", "told"} /\ open' = open \ {r}
      /\ UNCHANGED <<stored, repo, app, grave, lost, cut, artifact, mode, late, chain, line, doing, ledger, releases, step>>
      /\ at' = [at EXCEPT ![r] = "over"]
  BY DEF Settles, projectVars, runnerVars
<1>2. /\ at' \in [Runs -> {"idle", "turn", "queued", "looked", "sent", "told", "over"}]
      /\ at'[r] = "over" /\ \A o \in Runs \ {r} : at'[o] = at[o]
  BY <1>1 DEF DataInv, TypeOK
<1>3. Ahead' = Ahead /\ Holding' = Holding
  BY <1>1, <1>2 DEF Ahead, Holding
<1>4. {o \in Runs : at'[o] \in {"queued", "looked", "sent"}} = {o \in Runs : at[o] \in {"queued", "looked", "sent"}}
  BY <1>1, <1>2
<1>5. {o \in Runs : at'[o] = "sent"} = {o \in Runs : at[o] = "sent"}
  BY <1>1, <1>2
<1>6. TypeOK'
  BY <1>1, <1>2, <1>3, <1>4, <1>5 DEF DataInv, TypeOK
<1>7. QueuesFollow'
  BY <1>1, <1>2, <1>3 DEF DataInv, QueuesFollow, Waiting, First
<1>8. ResetFollows'
  <2>1. line # <<>> => Head(line) \in Runs
    BY Queues, Shortened
  <2> QED BY <1>1, <1>2, <1>3, <2>1, Queues DEF DataInv, ResetFollows
<1>9. DeletionFollows'
  BY <1>1, <1>3 DEF DataInv, DeletionFollows
<1> QED BY <1>6, <1>7, <1>8, <1>9 DEF DataInv

LEMMA LeaseLostKeeps ==
  ASSUME DataInv, NEW r \in Runs, LeaseLost(r)
  PROVE  DataInv'
<1>1. /\ r \in open /\ at[r] \in Waiting /\ open' = open \ {r} /\ lost' = lost \cup {r}
      /\ UNCHANGED <<stored, repo, app, grave, cut, at, artifact, mode, late, chain, line, doing, ledger, releases, step>>
  BY DEF LeaseLost, projectVars, runnerVars, Waiting
<1>2. Ahead' = Ahead /\ Holding' = Holding
  BY <1>1 DEF Ahead, Holding
<1>3. TypeOK'
  BY <1>1, <1>2 DEF DataInv, TypeOK
<1>4. QueuesFollow'
  BY <1>1, <1>2 DEF DataInv, QueuesFollow, Waiting, First
<1>5. ResetFollows' /\ DeletionFollows'
  BY <1>1, <1>2 DEF DataInv, ResetFollows, DeletionFollows
<1> QED BY <1>3, <1>4, <1>5 DEF DataInv

-----------------------------------------------------------------------------
(* The application runner *)

LEMMA WindowClosesKeeps ==
  ASSUME DataInv, NEW r \in Runs, WindowCloses(r)
  PROVE  DataInv'
<1>1. /\ late' = late \cup {r}
      /\ UNCHANGED <<stored, repo, app, grave, open, lost, cut, at, artifact, mode, chain, line, doing, ledger, releases, step>>
  BY DEF WindowCloses, projectVars, runnerVars, runVars
<1>2. Ahead' = Ahead /\ Holding' = Holding
  BY <1>1 DEF Ahead, Holding
<1>3. TypeOK'
  BY <1>1, <1>2 DEF DataInv, TypeOK
<1>4. QueuesFollow'
  BY <1>1, <1>2 DEF DataInv, QueuesFollow, Waiting, First
<1>5. ResetFollows' /\ DeletionFollows'
  BY <1>1, <1>2 DEF DataInv, ResetFollows, DeletionFollows
<1> QED BY <1>3, <1>4, <1>5 DEF DataInv

\* The migrations of a build are a list of them.
LEMMA ArtifactSeq ==
  ASSUME DataInv, NEW r \in Runs
  PROVE  artifact[r] \in Seq(Nat) /\ Applied \in Seq(Nat)
<1>1. \A a \in Artifacts : a \in Seq(Nat)
  <2> SUFFICES ASSUME NEW a \in Artifacts PROVE a \in Seq(Nat)
    OBVIOUS
  <2> QED BY ArtifactsAssumption
<1>2. <<>> \in Seq(Nat)
  OBVIOUS
<1> QED BY <1>1, <1>2, Queues DEF DataInv, TypeOK, Applied

\* A runner at work has no deletion that went past its release, unless a lost run is left.
LEMMA AtWork ==
  ASSUME DataInv, line # <<>>, grave # "none", lost = {}
  PROVE  (\A d \in Deleters : step[d] \notin {"purge", "repository", "complete"}) /\ grave \notin {"purged", "completed"}
  BY DEF DataInv, DeletionFollows

LEMMA RepliesKeep ==
  ASSUME DataInv, NEW r \in Runs, First(r, line), Replies(r), ledger' \in Seq(Nat),
         UNCHANGED <<stored, repo, app, grave, open, lost, releases, step>>
  PROVE  DataInv'
<1>1. /\ at' \in [Runs -> {"idle", "turn", "queued", "looked", "sent", "told", "over"}]
      /\ at'[r] \in {"told", "over"} /\ \A o \in Runs \ {r} : at'[o] = at[o]
      /\ at'[r] = at[r] \/ (at[r] = "sent" /\ at'[r] = "told")
      /\ chain' \in Seq(Runs) /\ IsInjective(chain')
      /\ Elements(chain') = {o \in Runs : at'[o] \in Waiting}
      /\ \A o \in Runs : at'[o] \in {"looked", "sent"} => First(o, chain')
      /\ line' \in Seq(Runs) /\ IsInjective(line') /\ Ahead' = Ahead \ {r} /\ r \in Ahead /\ doing' = "none"
      /\ artifact' \in [Runs -> Artifacts \cup {<<>>}] /\ mode' \in [Runs -> {"none", "REFUSE", "RESET"}]
      /\ \A o \in Runs \ {r} : mode'[o] = mode[o]
      /\ mode'[r] = "none" /\ late' = late \ {r} /\ cut' = cut \ {r}
  BY RepliesFollow
<1>2. {chain'[i] : i \in DOMAIN chain'} = {o \in Runs : at'[o] \in {"queued", "looked", "sent"}}
  BY <1>1 DEF Elements, Waiting
<1>3. TypeOK'
  BY <1>1, <1>2 DEF DataInv, TypeOK
<1>4. QueuesFollow'
  BY <1>1 DEF DataInv, QueuesFollow, Waiting
<1>5. ResetFollows'
  <2>1. Holding' \subseteq Holding
    BY <1>1 DEF Holding
  <2> QED BY <1>1, <2>1, Queues DEF DataInv, ResetFollows
<1>6. DeletionFollows'
  <2>1. line # <<>>
    BY DEF First
  <2>2. grave # "none" /\ lost = {} =>
          (\A d \in Deleters : step[d] \notin {"purge", "repository", "complete"}) /\ grave \notin {"purged", "completed"}
    BY <2>1, AtWork
  <2> QED BY <1>1, <2>2 DEF DataInv, DeletionFollows
<1> QED BY <1>3, <1>4, <1>5, <1>6 DEF DataInv

LEMMA PlansKeeps ==
  ASSUME DataInv, NEW r \in Runs, Plans(r)
  PROVE  DataInv'
<1>1. /\ First(r, line) /\ doing = "none" /\ ledger' = Applied /\ Applied \in Seq(Nat)
      /\ UNCHANGED <<stored, repo, app, grave, open, lost, releases, step>>
  BY ArtifactSeq DEF Plans, projectVars
<1>2. CASE Replies(r)
  BY <1>1, <1>2, RepliesKeep
<1>3. ASSUME UNCHANGED asked,
             \/ InWindow(r) /\ doing' = "resetting"
             \/ ~Diverged(r) /\ doing' = "applying"
      PROVE  DataInv'
  <2>1. UNCHANGED <<at, artifact, mode, late, cut, chain, line>> /\ Ahead' = Ahead /\ Holding' = Holding
    BY <1>3 DEF asked, Ahead, Holding
  <2>2. line # <<>> /\ Head(line) = r /\ r \in Ahead
    BY <1>1, Queues DEF First
  <2>3. TypeOK'
    BY <1>1, <1>3, <2>1 DEF DataInv, TypeOK
  <2>4. QueuesFollow'
    BY <1>1, <2>1 DEF DataInv, QueuesFollow, First
  <2>5. ResetFollows'
    BY <1>1, <1>3, <2>1, <2>2 DEF DataInv, ResetFollows, InWindow, Diverged
  <2>6. DeletionFollows'
    BY <1>1, <2>1, <2>2, AtWork DEF DataInv, DeletionFollows
  <2> QED BY <2>3, <2>4, <2>5, <2>6 DEF DataInv
<1> QED BY <1>2, <1>3 DEF Plans

LEMMA ResetsKeeps ==
  ASSUME DataInv, NEW r \in Runs, Resets(r)
  PROVE  DataInv'
<1>1. First(r, line) /\ UNCHANGED <<stored, repo, app, grave, open, lost, releases, step>>
  BY DEF Resets, projectVars
<1>2. CASE Replies(r) /\ UNCHANGED ledger
  BY <1>1, <1>2, Queues, RepliesKeep
<1>3. CASE ledger' = <<>> /\ doing' = "applying" /\ UNCHANGED asked
  <2>1. UNCHANGED <<at, artifact, mode, late, cut, chain, line>> /\ Ahead' = Ahead /\ Holding' = Holding
    BY <1>3 DEF asked, Ahead, Holding
  <2>2. line # <<>> /\ Head(line) = r /\ r \in Ahead
    BY <1>1, Queues DEF First
  <2>3. IsPrefix(<<>>, artifact[r]) /\ <<>> \in Seq(Nat)
    BY ArtifactSeq, PrefixOfItself
  <2>4. TypeOK'
    BY <1>1, <1>3, <2>1 DEF DataInv, TypeOK
  <2>5. QueuesFollow'
    BY <1>1, <1>3, <2>1, <2>3 DEF DataInv, QueuesFollow, First
  <2>6. ResetFollows'
    BY <1>1, <1>3, <2>1, <2>2, <2>3 DEF DataInv, ResetFollows
  <2>7. DeletionFollows'
    BY <1>1, <2>1, <2>2, AtWork DEF DataInv, DeletionFollows
  <2> QED BY <2>4, <2>5, <2>6, <2>7 DEF DataInv
<1> QED BY <1>2, <1>3 DEF Resets

LEMMA AppliesKeeps ==
  ASSUME DataInv, NEW r \in Runs, Applies(r)
  PROVE  DataInv'
<1>1. /\ First(r, line) /\ Replies(r) /\ ledger' \in {ledger, artifact[r]}
      /\ UNCHANGED <<stored, repo, app, grave, open, lost, releases, step>>
  BY DEF Applies, projectVars
<1> QED BY <1>1, Queues, ArtifactSeq, RepliesKeep

-----------------------------------------------------------------------------
(* The deletion *)

\* The queues and what may be reset are as they were.
LEMMA SameQueues ==
  ASSUME DataInv, UNCHANGED <<open, lost, cut, at, artifact, mode, late, chain, line, doing>>, ledger' \in {ledger, NoSchema},
         app' = app \/ app' = FALSE
  PROVE  /\ QueuesFollow' /\ ResetFollows' /\ Ahead' = Ahead
         /\ IsInjective(chain') /\ IsInjective(line')
         /\ {chain'[i] : i \in DOMAIN chain'} = {o \in Runs : at'[o] \in {"queued", "looked", "sent"}}
<1>1. Ahead' = Ahead /\ Holding' = Holding /\ NoSchema \in Seq(Nat)
  BY DEF Ahead, Holding, NoSchema
<1>2. QueuesFollow'
  BY <1>1 DEF DataInv, QueuesFollow, First
<1>3. ResetFollows'
  <2>1. app' => app
    OBVIOUS
  <2>2. app' => Holding' = {}
    BY <1>1, <2>1 DEF DataInv, ResetFollows
  <2> QED BY <1>1, <2>2 DEF DataInv, ResetFollows
<1>4. /\ IsInjective(chain') /\ IsInjective(line')
      /\ {chain'[i] : i \in DOMAIN chain'} = {o \in Runs : at'[o] \in {"queued", "looked", "sent"}}
  BY DEF DataInv, TypeOK
<1> QED BY <1>1, <1>2, <1>3, <1>4

LEMMA BuriesKeeps ==
  ASSUME DataInv, NEW d \in Deleters, Buries(d)
  PROVE  DataInv'
<1>1. /\ step' = [step EXCEPT ![d] = "release"]
      /\ \/ grave = "none" /\ stored /\ open = {} /\ grave' = "begun"
         \/ grave \in {"begun", "purged"} /\ grave' = grave
      /\ UNCHANGED <<stored, repo, app, open, lost, cut, at, artifact, mode, late, chain, line, doing, ledger, releases>>
  BY DEF Buries, Admitted, runVars, runnerVars
<1>2. /\ QueuesFollow' /\ ResetFollows' /\ Ahead' = Ahead
      /\ IsInjective(chain') /\ IsInjective(line')
      /\ {chain'[i] : i \in DOMAIN chain'} = {o \in Runs : at'[o] \in {"queued", "looked", "sent"}}
  BY <1>1, SameQueues
<1>3. TypeOK'
  BY <1>1, <1>2 DEF DataInv, TypeOK
<1>4. DeletionFollows'
  <2>1. step'[d] = "release" /\ \A o \in Deleters \ {d} : step'[o] = step[o]
    BY <1>1 DEF DataInv, TypeOK
  <2>2. grave = "none" => releases = {} /\ \A o \in Deleters : step[o] = "idle"
    BY DEF DataInv, DeletionFollows, TypeOK
  <2> QED BY <1>1, <1>2, <2>1, <2>2 DEF DataInv, DeletionFollows
<1> QED BY <1>2, <1>3, <1>4 DEF DataInv

\* A deletion that goes on is of a Project with a tombstone.
LEMMA Buried ==
  ASSUME DataInv, NEW d \in Deleters, step[d] # "idle"
  PROVE  grave # "none" /\ open = {}
  BY DEF DataInv, TypeOK, DeletionFollows

LEMMA AsksReleaseKeeps ==
  ASSUME DataInv, NEW d \in Deleters, AsksRelease(d)
  PROVE  DataInv'
<1>1. /\ step[d] = "release" /\ step' = [step EXCEPT ![d] = "released"]
      /\ releases' = releases \cup {[by |-> d, behind |-> Ahead]}
      /\ UNCHANGED <<stored, repo, app, grave, open, lost, cut, at, artifact, mode, late, chain, line, doing, ledger>>
  BY DEF AsksRelease, projectVars, runVars, runnerVars
<1>2. /\ QueuesFollow' /\ ResetFollows' /\ Ahead' = Ahead
      /\ IsInjective(chain') /\ IsInjective(line')
      /\ {chain'[i] : i \in DOMAIN chain'} = {o \in Runs : at'[o] \in {"queued", "looked", "sent"}}
  BY <1>1, SameQueues
<1>3. grave # "none"
  BY <1>1, Buried
<1>4. TypeOK'
  <2>1. releases' \subseteq [by : Deleters \cup {None}, behind : SUBSET Runs]
    BY <1>1, Queues DEF DataInv, TypeOK
  <2> QED BY <1>1, <1>2, <1>3, <2>1 DEF DataInv, TypeOK
<1>5. DeletionFollows'
  <2>1. step'[d] = "released" /\ \A o \in Deleters \ {d} : step'[o] = step[o]
    BY <1>1 DEF DataInv, TypeOK
  <2>2. \A x \in releases' : x \in releases \/ x.behind = Ahead
    BY <1>1
  <2> QED BY <1>1, <1>2, <1>3, <2>1, <2>2 DEF DataInv, DeletionFollows
<1> QED BY <1>2, <1>4, <1>5 DEF DataInv

LEMMA ReleasesKeeps ==
  ASSUME DataInv, NEW x \in releases, Releases(x)
  PROVE  DataInv'
<1>1. /\ x.behind \cap Ahead = {} /\ releases' = releases \ {x} /\ ledger' = NoSchema
      /\ step' = [d \in Deleters |-> IF d = x.by THEN "purge" ELSE step[d]]
      /\ UNCHANGED <<stored, repo, app, grave, open, lost, cut, at, artifact, mode, late, chain, line, doing>>
  BY DEF Releases, projectVars, runVars
<1>2. /\ QueuesFollow' /\ ResetFollows' /\ Ahead' = Ahead
      /\ IsInjective(chain') /\ IsInjective(line')
      /\ {chain'[i] : i \in DOMAIN chain'} = {o \in Runs : at'[o] \in {"queued", "looked", "sent"}}
  BY <1>1, SameQueues
<1>3. grave # "none"
  BY DEF DataInv, DeletionFollows
<1>4. TypeOK'
  BY <1>1, <1>2, <1>3 DEF DataInv, TypeOK
<1>5. lost = {} => line = <<>>
  <2>1. lost = {} => Ahead = {}
    BY <1>1, <1>3 DEF DataInv, DeletionFollows
  <2> QED BY <2>1, Queues, Shortened
<1>6. DeletionFollows'
  <2>1. \A d \in Deleters : step'[d] = step[d] \/ step'[d] = "purge"
    BY <1>1
  <2> QED BY <1>1, <1>2, <1>3, <1>5, <2>1 DEF DataInv, DeletionFollows
<1> QED BY <1>2, <1>4, <1>6 DEF DataInv

LEMMA PurgesKeeps ==
  ASSUME DataInv, NEW d \in Deleters, Purges(d)
  PROVE  DataInv'
<1>1. grave # "none" /\ open = {} /\ step[d] = "purge"
  BY Buried DEF Purges
<1>2. /\ stored' = FALSE /\ app' = FALSE /\ grave' = (IF grave = "begun" THEN "purged" ELSE grave)
      /\ step' = [step EXCEPT ![d] = "repository"]
      /\ UNCHANGED <<repo, open, lost, cut, at, artifact, mode, late, chain, line, doing, ledger, releases>>
  BY <1>1 DEF Purges, runVars, runnerVars
<1>3. /\ QueuesFollow' /\ ResetFollows' /\ Ahead' = Ahead
      /\ IsInjective(chain') /\ IsInjective(line')
      /\ {chain'[i] : i \in DOMAIN chain'} = {o \in Runs : at'[o] \in {"queued", "looked", "sent"}}
  BY <1>2, SameQueues
<1>4. TypeOK'
  BY <1>1, <1>2, <1>3 DEF DataInv, TypeOK
<1>5. DeletionFollows'
  <2>1. step'[d] = "repository" /\ \A o \in Deleters \ {d} : step'[o] = step[o]
    BY <1>2 DEF DataInv, TypeOK
  <2>2. lost = {} => ledger = NoSchema /\ line = <<>>
    BY <1>1 DEF DataInv, DeletionFollows
  <2>3. \A o \in Deleters : step'[o] = "complete" => step[o] = "complete"
    BY <2>1
  <2>4. grave' # "none" /\ (grave' = "completed" => grave = "completed")
    BY <1>1, <1>2
  <2> QED BY <1>1, <1>2, <1>3, <2>2, <2>3, <2>4 DEF DataInv, DeletionFollows
<1> QED BY <1>3, <1>4, <1>5 DEF DataInv

LEMMA DeletesRepositoryKeeps ==
  ASSUME DataInv, NEW d \in Deleters, DeletesRepository(d)
  PROVE  DataInv'
<1>1. /\ step[d] = "repository" /\ repo' = FALSE /\ step' = [step EXCEPT ![d] = "complete"]
      /\ UNCHANGED <<stored, app, grave, open, lost, cut, at, artifact, mode, late, chain, line, doing, ledger, releases>>
  BY DEF DeletesRepository, runVars, runnerVars
<1>2. /\ QueuesFollow' /\ ResetFollows' /\ Ahead' = Ahead
      /\ IsInjective(chain') /\ IsInjective(line')
      /\ {chain'[i] : i \in DOMAIN chain'} = {o \in Runs : at'[o] \in {"queued", "looked", "sent"}}
  BY <1>1, SameQueues
<1>3. grave # "none"
  BY <1>1, Buried
<1>4. TypeOK'
  BY <1>1, <1>2, <1>3 DEF DataInv, TypeOK
<1>5. DeletionFollows'
  <2>1. step'[d] = "complete" /\ \A o \in Deleters \ {d} : step'[o] = step[o]
    BY <1>1 DEF DataInv, TypeOK
  <2> QED BY <1>1, <1>2, <1>3, <2>1 DEF DataInv, DeletionFollows
<1> QED BY <1>2, <1>4, <1>5 DEF DataInv

LEMMA CompletesKeeps ==
  ASSUME DataInv, NEW d \in Deleters, Completes(d)
  PROVE  DataInv'
<1>1. /\ step[d] = "complete" /\ grave' = "completed" /\ step' = [step EXCEPT ![d] = "idle"]
      /\ UNCHANGED <<stored, repo, app, open, lost, cut, at, artifact, mode, late, chain, line, doing, ledger, releases>>
  BY DEF Completes, runVars, runnerVars
<1>2. /\ QueuesFollow' /\ ResetFollows' /\ Ahead' = Ahead
      /\ IsInjective(chain') /\ IsInjective(line')
      /\ {chain'[i] : i \in DOMAIN chain'} = {o \in Runs : at'[o] \in {"queued", "looked", "sent"}}
  BY <1>1, SameQueues
<1>3. grave # "none" /\ open = {}
  BY <1>1, Buried
<1>4. TypeOK'
  BY <1>1, <1>2, <1>3 DEF DataInv, TypeOK
<1>5. DeletionFollows'
  <2>1. step'[d] = "idle" /\ \A o \in Deleters \ {d} : step'[o] = step[o]
    BY <1>1 DEF DataInv, TypeOK
  <2> QED BY <1>1, <1>2, <1>3, <2>1 DEF DataInv, DeletionFollows
<1> QED BY <1>2, <1>4, <1>5 DEF DataInv

\* A release whose caller is gone waits for what it waited for.
LEMMA UnheardFollows ==
  ASSUME DataInv, NEW D \in SUBSET Deleters, releases' = Unheard(D)
  PROVE  /\ releases' \subseteq [by : Deleters \cup {None}, behind : SUBSET Runs]
         /\ \A x \in releases' : \E y \in releases : x.behind = y.behind
         /\ releases = {} => releases' = {}
<1>1. releases \subseteq [by : Deleters \cup {None}, behind : SUBSET Runs]
  BY DEF DataInv, TypeOK
<1> QED BY <1>1 DEF Unheard

LEMMA FailsKeeps ==
  ASSUME DataInv, NEW d \in Deleters, Fails(d)
  PROVE  DataInv'
<1>1. /\ step[d] # "idle" /\ step' = [step EXCEPT ![d] = "idle"] /\ releases' = Unheard({d})
      /\ UNCHANGED <<stored, repo, app, grave, open, lost, cut, at, artifact, mode, late, chain, line, doing, ledger>>
  BY DEF Fails, projectVars, runVars, runnerVars
<1>2. /\ QueuesFollow' /\ ResetFollows' /\ Ahead' = Ahead
      /\ IsInjective(chain') /\ IsInjective(line')
      /\ {chain'[i] : i \in DOMAIN chain'} = {o \in Runs : at'[o] \in {"queued", "looked", "sent"}}
  BY <1>1, SameQueues
<1>3. grave # "none"
  BY <1>1, Buried
<1>4. /\ releases' \subseteq [by : Deleters \cup {None}, behind : SUBSET Runs]
      /\ \A x \in releases' : \E y \in releases : x.behind = y.behind
      /\ releases = {} => releases' = {}
  BY <1>1, UnheardFollows
<1>5. TypeOK'
  BY <1>1, <1>2, <1>3, <1>4 DEF DataInv, TypeOK
<1>6. DeletionFollows'
  <2>1. step'[d] = "idle" /\ \A o \in Deleters \ {d} : step'[o] = step[o]
    BY <1>1 DEF DataInv, TypeOK
  <2> QED BY <1>1, <1>2, <1>3, <1>4, <2>1 DEF DataInv, DeletionFollows
<1> QED BY <1>2, <1>5, <1>6 DEF DataInv

-----------------------------------------------------------------------------
(* Processes that stop *)

LEMMA HubStopsKeeps ==
  ASSUME DataInv, HubStops
  PROVE  DataInv'
<1>1. /\ cut' = cut \cup Holding /\ chain' = <<>> /\ releases' = Unheard(Deleters)
      /\ at' = [r \in Runs |-> IF at[r] \in {"turn", "queued", "looked", "sent"} THEN "told" ELSE at[r]]
      /\ step' = [d \in Deleters |-> "idle"]
      /\ UNCHANGED <<stored, repo, app, grave, open, lost, artifact, mode, late, line, doing, ledger>>
  BY DEF HubStops, projectVars, runnerVars
<1>2. /\ at' \in [Runs -> {"idle", "turn", "queued", "looked", "sent", "told", "over"}]
      /\ \A r \in Runs : at'[r] \in {"idle", "told", "over"} /\ (at[r] \in {"sent", "told", "over"} => at'[r] \in {"told", "over"})
  BY <1>1 DEF DataInv, TypeOK
<1>3. /\ releases' \subseteq [by : Deleters \cup {None}, behind : SUBSET Runs]
      /\ \A x \in releases' : \E y \in releases : x.behind = y.behind
      /\ releases = {} => releases' = {}
  BY <1>1, UnheardFollows
<1>4. Ahead' = Ahead /\ Holding' = {} /\ Holding \subseteq Runs
  BY <1>1, <1>2 DEF Ahead, Holding
<1>5. {chain'[i] : i \in DOMAIN chain'} = {o \in Runs : at'[o] \in {"queued", "looked", "sent"}}
  BY <1>1, <1>2, EmptyQueue DEF Elements
<1>6. TypeOK'
  BY <1>1, <1>2, <1>3, <1>4, <1>5, EmptyQueue DEF DataInv, TypeOK
<1>7. QueuesFollow'
  BY <1>1, <1>2, <1>4, EmptyQueue DEF DataInv, QueuesFollow, Waiting
<1>8. ResetFollows'
  <2>1. line # <<>> => Head(line) \in Ahead
    BY Queues, Shortened
  <2> QED BY <1>1, <1>4, <2>1, Queues DEF DataInv, ResetFollows, Holding
<1>9. DeletionFollows'
  BY <1>1, <1>3, <1>4 DEF DataInv, DeletionFollows
<1> QED BY <1>6, <1>7, <1>8, <1>9 DEF DataInv

LEMMA RunnerStopsKeeps ==
  ASSUME DataInv, RunnerStops
  PROVE  DataInv'
<1>1. /\ line' = <<>> /\ doing' = "none" /\ releases' = {} /\ Forgets(Ahead)
      /\ at' = [r \in Runs |-> IF at[r] = "sent" THEN "told" ELSE at[r]]
      /\ chain' = (IF \E r \in Runs : at[r] = "sent" THEN Tail(chain) ELSE chain)
      /\ step' = [d \in Deleters |-> IF step[d] = "released" THEN "idle" ELSE step[d]]
      /\ UNCHANGED <<stored, repo, app, grave, open, lost, ledger>>
  BY DEF RunnerStops, projectVars
<1>2. /\ at' \in [Runs -> {"idle", "turn", "queued", "looked", "sent", "told", "over"}]
      /\ \A r \in Runs : at'[r] = at[r] \/ (at[r] = "sent" /\ at'[r] = "told")
      /\ \A r \in Runs : at'[r] # "sent"
  BY <1>1 DEF DataInv, TypeOK
<1>3. Ahead' = {} /\ Holding' = {}
  <2>1. Holding' = {}
    BY <1>2 DEF Holding
  <2> QED BY <1>1, <2>1, AheadNow, EmptyQueue
<1>4. /\ artifact' \in [Runs -> Artifacts \cup {<<>>}] /\ mode' \in [Runs -> {"none", "REFUSE", "RESET"}]
      /\ late' \subseteq Runs /\ cut' \subseteq Runs
  BY <1>1 DEF Forgets, DataInv, TypeOK
<1>5. /\ chain' \in Seq(Runs) /\ IsInjective(chain') /\ Elements(chain') = {r \in Runs : at'[r] \in Waiting}
      /\ \A r \in Runs : at'[r] \in {"looked", "sent"} => First(r, chain')
  <2>1. CASE \E r \in Runs : at[r] = "sent"
    <3>1. PICK r \in Runs : at[r] = "sent"
      BY <2>1
    <3>2. First(r, chain) /\ chain # <<>> /\ Head(chain) = r /\ \A o \in Runs \ {r} : at[o] \notin {"looked", "sent"}
      BY <3>1 DEF DataInv, QueuesFollow, First
    <3>3. chain' = Tail(chain)
      BY <1>1, <2>1
    <3>4. chain' \in Seq(Runs) /\ IsInjective(chain') /\ Elements(chain') = Elements(chain) \ {r}
      BY <3>2, <3>3, Queues, Shortened
    <3>5. {o \in Runs : at'[o] \in Waiting} = {o \in Runs : at[o] \in Waiting} \ {r}
      BY <1>2, <3>1, <3>2 DEF Waiting
    <3>6. \A o \in Runs : at'[o] \notin {"looked", "sent"}
      BY <1>2, <3>1, <3>2
    <3> QED BY <3>4, <3>5, <3>6, Queues
  <2>2. CASE ~\E r \in Runs : at[r] = "sent"
    <3>1. chain' = chain /\ \A r \in Runs : at'[r] = at[r]
      BY <1>1, <1>2, <2>2
    <3>2. {r \in Runs : at'[r] \in Waiting} = {r \in Runs : at[r] \in Waiting}
      BY <3>1
    <3>3. \A r \in Runs : at'[r] \in {"looked", "sent"} => First(r, chain')
      BY <3>1 DEF DataInv, QueuesFollow
    <3> QED BY <3>1, <3>2, <3>3, Queues
  <2> QED BY <2>1, <2>2
<1>6. {chain'[i] : i \in DOMAIN chain'} = {o \in Runs : at'[o] \in {"queued", "looked", "sent"}}
  BY <1>5 DEF Elements, Waiting
<1>7. TypeOK'
  <2>1. {r \in Runs : at'[r] = "sent"} \subseteq Ahead'
    BY <1>2
  <2> QED BY <1>1, <1>2, <1>4, <1>5, <1>6, <2>1, EmptyQueue DEF DataInv, TypeOK
<1>8. QueuesFollow'
  BY <1>1, <1>2, <1>3, <1>5, EmptyQueue DEF DataInv, QueuesFollow, Waiting
<1>9. ResetFollows'
  BY <1>1, <1>3 DEF ResetFollows
<1>10. DeletionFollows'
  <2>1. \A d \in Deleters : step'[d] = step[d] \/ step'[d] = "idle"
    BY <1>1
  <2> QED BY <1>1, <2>1 DEF DataInv, DeletionFollows
<1> QED BY <1>7, <1>8, <1>9, <1>10 DEF DataInv

-----------------------------------------------------------------------------
(* The specification *)

LEMMA DataInvInit ==
  ASSUME Init
  PROVE  DataInv
<1>1. /\ stored = TRUE /\ repo = TRUE /\ app = FALSE /\ grave = "none" /\ open = {} /\ lost = {} /\ cut = {} /\ late = {}
      /\ at = [r \in Runs |-> "idle"] /\ artifact = [r \in Runs |-> <<>>] /\ mode = [r \in Runs |-> "none"]
      /\ chain = <<>> /\ line = <<>> /\ doing = "none" /\ ledger = <<0>> /\ releases = {}
      /\ step = [d \in Deleters |-> "idle"]
  BY DEF Init, NoSchema
<1>2. Ahead = {} /\ {chain[i] : i \in DOMAIN chain} = {}
  BY <1>1, EmptyQueue DEF Ahead, Elements
<1>3. Holding = {} /\ ledger \in Seq(Nat)
  BY <1>1 DEF Holding
<1>4. TypeOK
  BY <1>1, <1>2, EmptyQueue DEF TypeOK
<1>5. QueuesFollow
  BY <1>1, <1>2, <1>3, EmptyQueue DEF QueuesFollow, Waiting
<1>6. ResetFollows /\ DeletionFollows
  BY <1>1, <1>2, <1>3 DEF ResetFollows, DeletionFollows
<1> QED BY <1>4, <1>5, <1>6 DEF DataInv

LEMMA DataInvStutters ==
  ASSUME DataInv, UNCHANGED vars
  PROVE  DataInv'
<1>1. UNCHANGED <<stored, repo, app, grave, open, lost, cut, at, artifact, mode, late, chain, line, doing, ledger, releases, step>>
  BY DEF vars
<1>2. Ahead' = Ahead /\ Holding' = Holding
  BY <1>1 DEF Ahead, Holding
<1>3. TypeOK'
  BY <1>1, <1>2 DEF DataInv, TypeOK
<1>4. QueuesFollow'
  BY <1>1, <1>2 DEF DataInv, QueuesFollow, First
<1>5. ResetFollows' /\ DeletionFollows'
  BY <1>1, <1>2 DEF DataInv, ResetFollows, DeletionFollows
<1> QED BY <1>3, <1>4, <1>5 DEF DataInv

LEMMA DataInvStep ==
  ASSUME DataInv, [Next]_vars
  PROVE  DataInv'
<1>1. CASE Grant
  BY <1>1, GrantKeeps
<1>2. CASE HubStops
  BY <1>2, HubStopsKeeps
<1>3. CASE RunnerStops
  BY <1>3, RunnerStopsKeeps
<1>4. ASSUME NEW r \in Runs, Begin(r) PROVE DataInv'
  BY <1>4, BeginKeeps
<1>5. ASSUME NEW r \in Runs, Prepares(r) PROVE DataInv'
  BY <1>5, PreparesKeeps
<1>6. ASSUME NEW r \in Runs, Looks(r) PROVE DataInv'
  BY <1>6, LooksKeeps
<1>7. ASSUME NEW r \in Runs, Locks(r) PROVE DataInv'
  BY <1>7, LocksKeeps
<1>8. ASSUME NEW r \in Runs, TimesOut(r) PROVE DataInv'
  BY <1>8, TimesOutKeeps
<1>9. ASSUME NEW r \in Runs, LockLost(r) PROVE DataInv'
  BY <1>9, LockLostKeeps
<1>10. ASSUME NEW r \in Runs, Settles(r) PROVE DataInv'
  BY <1>10, SettlesKeeps
<1>11. ASSUME NEW r \in Runs, LeaseLost(r) PROVE DataInv'
  BY <1>11, LeaseLostKeeps
<1>12. ASSUME NEW r \in Runs, WindowCloses(r) PROVE DataInv'
  BY <1>12, WindowClosesKeeps
<1>13. ASSUME NEW r \in Runs, Plans(r) PROVE DataInv'
  BY <1>13, PlansKeeps
<1>14. ASSUME NEW r \in Runs, Resets(r) PROVE DataInv'
  BY <1>14, ResetsKeeps
<1>15. ASSUME NEW r \in Runs, Applies(r) PROVE DataInv'
  BY <1>15, AppliesKeeps
<1>16. ASSUME NEW d \in Deleters, Buries(d) PROVE DataInv'
  BY <1>16, BuriesKeeps
<1>17. ASSUME NEW d \in Deleters, AsksRelease(d) PROVE DataInv'
  BY <1>17, AsksReleaseKeeps
<1>18. ASSUME NEW d \in Deleters, Purges(d) PROVE DataInv'
  BY <1>18, PurgesKeeps
<1>19. ASSUME NEW d \in Deleters, DeletesRepository(d) PROVE DataInv'
  BY <1>19, DeletesRepositoryKeeps
<1>20. ASSUME NEW d \in Deleters, Completes(d) PROVE DataInv'
  BY <1>20, CompletesKeeps
<1>21. ASSUME NEW d \in Deleters, Fails(d) PROVE DataInv'
  BY <1>21, FailsKeeps
<1>22. ASSUME NEW x \in releases, Releases(x) PROVE DataInv'
  BY <1>22, ReleasesKeeps
<1>23. CASE UNCHANGED vars
  BY <1>23, DataInvStutters
<1> QED BY <1>1, <1>2, <1>3, <1>4, <1>5, <1>6, <1>7, <1>8, <1>9, <1>10, <1>11, <1>12, <1>13, <1>14, <1>15, <1>16,
           <1>17, <1>18, <1>19, <1>20, <1>21, <1>22, <1>23 DEF Next

\* The inductive invariant: one prepare of a Project at a time is past the Hub's queue, a prepare that may
\* reset is one the Hub holds a lock for, or one that was cut or is late, and a release leaves nothing behind.
THEOREM DataInvHolds == Spec => []DataInv
<1>1. Init => DataInv
  BY DataInvInit
<1>2. DataInv /\ [Next]_vars => DataInv'
  BY DataInvStep
<1> QED BY <1>1, <1>2, PTL DEF Spec

\* The Hub's line and the runner's hold each run once, in the places of the calls they stand for, and no
\* deletion goes on behind a Project without a tombstone (supervisor.ts, deletion.ts).
THEOREM TypeCorrect == Spec => []TypeOK
<1>1. DataInv => TypeOK
  BY DEF DataInv
<1> QED BY <1>1, DataInvHolds, PTL

\* However many administrators repeat it, and whatever fails or stops, a completed deletion left no row, no
\* application, no repository and no open run, and no schema unless a run lost its lease (deletion.ts).
THEOREM CompletedIsGone == Spec => []CompletedLeavesNothing
<1>1. DataInv => CompletedLeavesNothing
  BY DEF DataInv, DeletionFollows, CompletedLeavesNothing
<1> QED BY <1>1, DataInvHolds, PTL

\* The data of an application is only lost to a reset whose lock was lost (application-access.ts, hub.ts).
LEMMA DataStays ==
  ASSUME DataInv, [Next]_vars, app, grave = "none", ledger # NoSchema, ~IsPrefix(ledger, ledger')
  PROVE  \E r \in cut : First(r, line) /\ doing = "resetting"
<1>1. ledger \in Seq(Nat) /\ ledger' # ledger
  BY Queues, PrefixOfItself
<1>2. Holding = {} /\ releases = {}
  BY DEF DataInv, ResetFollows, DeletionFollows
<1>3. PICK r \in Runs : Plans(r) \/ Resets(r) \/ Applies(r)
  BY <1>1, <1>2 DEF Next, vars, Grant, HubStops, RunnerStops, Begin, Prepares, Looks, Locks, Sends, TimesOut, LockLost, Settles,
                    LeaseLost, WindowCloses, Buries, AsksRelease, Purges, DeletesRepository, Completes, Fails,
                    runnerVars, runVars, projectVars
<1>4. First(r, line)
  BY <1>3 DEF Plans, Resets, Applies
<1>5. ~Plans(r)
  BY <1>1 DEF Plans, Applied
<1>6. ~Applies(r)
  BY <1>1, <1>4 DEF Applies, DataInv, ResetFollows, First
<1>7. Resets(r) /\ doing = "resetting"
  BY <1>3, <1>5, <1>6 DEF Resets
<1>8. mode[r] = "RESET" /\ (at[r] = "sent" \/ r \in cut)
  BY <1>4, <1>7 DEF DataInv, ResetFollows, First
<1>9. r \in cut
  BY <1>2, <1>8 DEF Holding
<1> QED BY <1>4, <1>7, <1>9

\* A Project with an application keeps its Preview data, through prepares nobody waits for any more, runners
\* and Hubs that stop and grants in between, but for a reset whose lock was lost (hub.ts, module.ts).
THEOREM ApplicationKeeps == Spec => ApplicationKeepsItsData
<1>1. DataInv /\ [Next]_vars => [app /\ grave = "none" /\ ledger # NoSchema /\ ~IsPrefix(ledger, ledger')
                                   => \E r \in cut : First(r, line) /\ doing = "resetting"]_vars
  BY DataStays
<1> QED BY <1>1, DataInvHolds, PTL DEF Spec, ApplicationKeepsItsData

=============================================================================
