----------------------------- MODULE MCGoalLoop -----------------------------
(* Instances of GoalLoop for TLC. *)
EXTENDS GoalLoop

MCGoalOf == [p \in Procs |-> CASE p \in {"p1", "p2"} -> "g1" [] p = "p3" -> "g2" [] OTHER -> "g3"]

Quiet     == [suspends |-> {}, mortal |-> {}]
Dies      == [suspends |-> {}, mortal |-> {"p1"}]
Suspended == [suspends |-> {"p1"}, mortal |-> {}]
MCFates == {Quiet, Dies, Suspended}

Base == [procs |-> {"p1", "p2"}, fate |-> Quiet, ops |-> {}, overlap |-> FALSE,
         slow |-> FALSE, verdicts |-> {"more"}, aborts |-> FALSE]

\* The session at work, with one goal and a runner to resume it; writes that
\* overlap; every verdict, with a spawn that takes long; a goal cleared; a
\* resumed runner that is aborted in the queue; a death with one heir, with
\* two, with turns that hang; a suspended owner.
SResume    == [Base EXCEPT !.ops = {"pause", "resume", "stop"}, !.verdicts = {"more", "stuck"}]
SOverlap   == [Base EXCEPT !.ops = {"pause", "resume"}, !.overlap = TRUE, !.verdicts = {"achieved"}]
SVerdicts  == [Base EXCEPT !.procs = {"p1"}, !.ops = {"stop", "pause"}, !.aborts = TRUE, !.slow = TRUE,
                           !.verdicts = {"fail", "achieved", "blocked", "more", "stuck"}]
SCleared   == [Base EXCEPT !.procs = {"p1"}, !.ops = {"stop", "clear"}, !.verdicts = {"achieved"}]
SQueued    == [Base EXCEPT !.ops = {"pause", "resume"}, !.aborts = TRUE, !.verdicts = {"achieved"}]
SHeir      == [Base EXCEPT !.procs = {"p1", "p3"}, !.fate = Dies]
SHeirs     == [SHeir EXCEPT !.procs = {"p1", "p3", "p4"}, !.verdicts = {"achieved"}]
SHung      == [SHeirs EXCEPT !.verdicts = {}]
SSuspended == [Base EXCEPT !.procs = {"p1", "p3"}, !.fate = Suspended, !.ops = {"stop"}, !.verdicts = {"achieved"}]
MCSettings == {SResume, SOverlap, SVerdicts, SCleared, SQueued, SHeir, SHeirs, SHung, SSuspended}
=============================================================================
