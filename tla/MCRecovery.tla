----------------------------- MODULE MCRecovery -----------------------------
(* Instances of Recovery for TLC. *)
EXTENDS Recovery

CONSTANTS s1, s2, s3, t1, t2

Setting(runner, sessions, todo, parks, slow) ==
  [runner |-> runner, starter |-> s1, survivor |-> s2,
   sessions |-> sessions, todo |-> todo, parks |-> parks, slow |-> slow]

\* A background run with its owner and one more session; a run in the
\* foreground of a session that may die, and two that find it.
MCSettings == {
  Setting(Detached, {s1, s2}, {t1}, TRUE, TRUE),
  Setting(s1, {s1, s2}, {t1}, TRUE, TRUE),
  Setting(Detached, {s1, s2}, {t1, t2}, FALSE, FALSE),
  Setting(s1, {s1, s2}, {t1, t2}, FALSE, FALSE),
  Setting(s1, {s1, s2, s3}, {t1}, FALSE, FALSE),
  Setting(Detached, {s1, s2, s3}, {t1}, FALSE, FALSE)}
=============================================================================
