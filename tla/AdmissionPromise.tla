--------------------------- MODULE AdmissionPromise ---------------------------
(***************************************************************************)
(* What the Builder promises the people of a Project, with no Hub, database *)
(* row, lease or signal in it. A Project has one run at a time. A run works *)
(* from the `main` it was asked on and puts its change there at most once,  *)
(* only while `main` is still that base, and not after a stop that came     *)
(* before it offered the change. Its ending says whether the change is on   *)
(* `main`, and neither the ending nor `main` is taken back.                 *)
(***************************************************************************)
EXTENDS Naturals

CONSTANTS
  Runs, Projects, Writers,
  ProjectOfRun  \* the Project each run belongs to

VARIABLES
  status,   \* status[r]: "none", "open", "offered" (open, its change offered), "kept" or "dropped"
  stopped,  \* the runs somebody asked to stop
  base,     \* base[r]: the `main` the run was asked on
  main      \* main[p]: the changes on the Project's `main`
promiseVars == <<status, stopped, base, main>>

Unsettled(r) == status[r] \in {"open", "offered"}
IsOnMain(r)  == r \in main[ProjectOfRun[r]]

Ask(r) ==
  /\ status[r] = "none"
  /\ ~\E other \in Runs : Unsettled(other) /\ ProjectOfRun[other] = ProjectOfRun[r]
  /\ status' = [status EXCEPT ![r] = "open"]
  /\ base' = [base EXCEPT ![r] = main[ProjectOfRun[r]]]
  /\ UNCHANGED <<stopped, main>>

Stop(r) ==
  /\ Unsettled(r)
  /\ stopped' = stopped \cup {r}
  /\ UNCHANGED <<status, base, main>>

Offer(r) ==
  /\ status[r] = "open" /\ r \notin stopped
  /\ status' = [status EXCEPT ![r] = "offered"]
  /\ UNCHANGED <<stopped, base, main>>

Admit(r) ==
  /\ status[r] = "offered" /\ main[ProjectOfRun[r]] = base[r]
  /\ main' = [main EXCEPT ![ProjectOfRun[r]] = base[r] \cup {r}]
  /\ UNCHANGED <<status, stopped, base>>

\* An ending may be a stop of its own: a queued run's, or a Hub's that stops.
Keep(r) ==
  /\ status[r] = "offered" /\ IsOnMain(r)
  /\ status' = [status EXCEPT ![r] = "kept"]
  /\ UNCHANGED <<stopped, base, main>>

Drop(r) ==
  /\ Unsettled(r) /\ ~IsOnMain(r)
  /\ status' = [status EXCEPT ![r] = "dropped"]
  /\ stopped' \in {stopped, stopped \cup {r}}
  /\ UNCHANGED <<base, main>>

Write(w) ==
  /\ \A p \in Projects : w \notin main[p]
  /\ \E p \in Projects : main' = [main EXCEPT ![p] = @ \cup {w}]
  /\ UNCHANGED <<status, stopped, base>>

PromiseInit ==
  /\ status = [r \in Runs |-> "none"] /\ stopped = {}
  /\ base = [r \in Runs |-> {}]
  /\ main = [p \in Projects |-> {}]
PromiseNext ==
  \/ \E r \in Runs : Ask(r) \/ Stop(r) \/ Offer(r) \/ Admit(r) \/ Keep(r) \/ Drop(r)
  \/ \E w \in Writers : Write(w)
Promise == PromiseInit /\ [][PromiseNext]_promiseVars
=============================================================================
