----------------------------- MODULE MCEventLog -----------------------------
(* Instances of EventLog for TLC. *)
EXTENDS EventLog

MCHome == [w \in Writer |-> IF w = "b" THEN "p2" ELSE IF w = "c" THEN "p3" ELSE "p1"]

\* a and d share a process, b and c have one each.
Base == [writers |-> {"a", "b"}, sync |-> {}, buffered |-> {}, batch |-> 2,
         terminal |-> {FALSE}, appends |-> 1, keep |-> 9, rotateAt |-> 9, maxSize |-> 9,
         mortal |-> {}, reclaimers |-> {}, slow |-> FALSE, reads |-> 0]

\* One family: compaction after an append; batches that make room; a writer killed.
SAsync   == [Base EXCEPT !.appends = 2, !.keep = 1, !.rotateAt = 1, !.reads = 1]
SBatch   == [SAsync EXCEPT !.buffered = {"b"}, !.maxSize = 2]
SKilled  == [SAsync EXCEPT !.mortal = {"p1"}, !.reclaimers = {"b"}, !.maxSize = 2, !.keep = 2]
SSync    == [Base EXCEPT !.sync = {"a", "b"}, !.appends = 2, !.keep = 1, !.maxSize = 1,
                         !.terminal = BOOLEAN, !.reads = 2]
\* Both families: rotations only; compactions and a death; stolen locks; one process.
SRotate  == [Base EXCEPT !.sync = {"a"}, !.buffered = {"a"}, !.appends = 2, !.maxSize = 1]
SMixed   == [Base EXCEPT !.sync = {"a"}, !.appends = 2, !.keep = 1, !.rotateAt = 1, !.maxSize = 2,
                         !.mortal = {"p2"}, !.reclaimers = {"a"}]
SSlow    == [SMixed EXCEPT !.appends = 1, !.slow = TRUE, !.mortal = {}]
STaken   == [SSlow EXCEPT !.writers = {"b", "c"}, !.sync = {}]
SThree   == [SSlow EXCEPT !.writers = {"a", "b", "c"}, !.slow = FALSE, !.maxSize = 1, !.keep = 9]
SShared  == [SMixed EXCEPT !.writers = {"a", "d"}, !.mortal = {}, !.reads = 1]
MCSettings == {SAsync, SBatch, SKilled, SSync, SRotate, SMixed, SSlow, STaken, SThree, SShared}

\* Terminal events of two synchronous writers, in a log that one event fills.
MCTerminal == {SSync}
=============================================================================
