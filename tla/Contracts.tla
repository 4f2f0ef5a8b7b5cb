------------------------------ MODULE Contracts ------------------------------
(***************************************************************************)
(* The status contracts of a run (state/contracts.ts), the guard every     *)
(* manifest save applies (state/stores/state-store.ts), and the two gates  *)
(* through which a task's status reaches tasks.json: a worker's own        *)
(* persist (task-runner/state-helpers.ts) and the runner's merge of a      *)
(* settled unit (runtime/merge-gate.ts).                                   *)
(***************************************************************************)
EXTENDS Integers, FiniteSets

RunStatus == {"queued", "planning", "running", "blocked", "completed", "failed", "cancelled"}

TaskStatus == {"queued", "running", "waiting", "completed", "failed", "cancelled",
               "skipped", "needs_attention"}

TerminalTask == {"completed", "failed", "cancelled", "skipped", "needs_attention"}

\* Statuses after which the runner stops; only the second set survives a save.
TerminalRun == {"blocked", "completed", "failed", "cancelled"}
PreservedRun == {"completed", "failed", "cancelled"}

RunTransitions ==
  [queued    |-> {"planning", "running", "cancelled", "failed"},
   planning  |-> {"running", "blocked", "cancelled", "failed"},
   running   |-> {"blocked", "completed", "failed", "cancelled"},
   blocked   |-> {"running", "cancelled", "failed"},
   completed |-> {"running", "cancelled"},
   failed    |-> {"running", "cancelled"},
   cancelled |-> {"running"}]

CanTransitionRun(from, to) == from = to \/ to \in RunTransitions[from]

\* A manifest save with status s over the status disk: a non-terminal save
\* never replaces a terminal one, a terminal save always goes through.
Preserve(disk, s) ==
  IF s \notin PreservedRun /\ disk \in PreservedRun THEN disk ELSE s

\* A worker persists its own task: of two different terminal verdicts the one
\* on disk stays; anything else replaces what is there, but for a parked task.
PersistOwn(disk, s) ==
  IF s \in TerminalTask /\ disk \in TerminalTask THEN disk
  ELSE IF s \notin TerminalTask /\ disk = "waiting" THEN disk
  ELSE s

CompletedFlips ==
  {<<"completed", "failed">>, <<"completed", "needs_attention">>,
   <<"failed", "completed">>, <<"cancelled", "completed">>,
   <<"needs_attention", "completed">>}

RejectedMerge ==
  (TerminalTask \X (TaskStatus \ TerminalTask))
    \cup {<<"waiting", "running">>} \cup CompletedFlips

\* A merge that takes whatever the later result says.
MergeTaskUnguarded(cur, upd, own) == upd

\* shouldMergeTaskUpdate.  Of two terminal verdicts the one that finished
\* earlier loses: a unit's verdict about its own task is the latest there is,
\* its copy of a sibling's task is older than the one on disk.
MergeTask(cur, upd, own) ==
  IF <<cur, upd>> \in RejectedMerge THEN cur
  ELSE IF cur \in TerminalTask /\ upd \in TerminalTask /\ ~own THEN cur
  ELSE upd
=============================================================================
