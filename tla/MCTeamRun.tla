------------------------------ MODULE MCTeamRun ------------------------------
(* Instances of TeamRun for TLC. *)
EXTENDS TeamRun

CONSTANTS t1, t2, t3

Flat == [t \in Tasks |-> {}]
Chain == [t \in Tasks |-> IF t = t1 THEN {} ELSE {t1}]
\* t3 is in the first wave: t2 waits for it although it does not depend on it.
Mixed == [t \in Tasks |-> IF t = t2 THEN {t1} ELSE {}]

Setting(deps, repeated, attempts, verdicts, may) ==
  [deps |-> deps, repeated |-> repeated, attempts |-> attempts,
   verdicts |-> verdicts, may |-> may]

Two == {"completed", "failed"}
Three == Two \cup {"needs_attention"}

AllSettings ==
  { Setting(Chain, {}, 2, Two, {"heartbeat", "cancel", "signal"}),
    Setting(Mixed, {}, 2, Three, {"signal"}),
    Setting(Chain, {t2}, 1, Three, {"heartbeat", "veto", "cancel"}),
    Setting(Flat, {}, 2, Two, {"heartbeat", "signal"}),
    Setting(Flat, {}, 2, Two, {"heartbeat", "veto", "cancel"}),
    Setting(Flat, {}, 1, Three, {"heartbeat", "veto"}),
    Setting(Flat, {}, 1, Two, {"veto", "cancel", "signal"}) }
Undisturbed == { Setting(Flat, {}, 2, Two, {}) }
ForeignCancel == { Setting(Flat, {}, 1, Two, {"cancel"}) }
VetoChain == { Setting(Chain, {}, 1, Two, {"veto"}) }
=============================================================================
