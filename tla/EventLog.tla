------------------------------ MODULE EventLog ------------------------------
(***************************************************************************)
(* The event log of one run (state/event-log/): events.jsonl, its .seq     *)
(* sidecar and its archives, written by several processes.                 *)
(*                                                                         *)
(* Two families of writers exclude each other only among themselves: the   *)
(* synchronous one (appendEvent, the flush at exit) holds .mkdirlock, the  *)
(* asynchronous one (appendEventAsync, the buffer's flush) holds .alock.   *)
(* Both reserve sequence numbers under .seqlock.  Compaction replaces the  *)
(* file by a new inode with its last events; rotation renames it to an     *)
(* archive.  A reader follows by sequence number and takes no lock.        *)
(*                                                                         *)
(* Grain.  One step per access to the shared files.  A synchronous stretch *)
(* of a process lets no other writer of the same process move; other       *)
(* processes move between any two steps.  The size of a file is its number *)
(* of events.                                                              *)
(***************************************************************************)
EXTENDS Integers, Sequences, SequencesExt, FiniteSetsExt

CONSTANTS
  Writer, Process,
  Home,       \* the process each writer runs in
  Free, Dead, \* a lock directory that is absent, that a dead process left
  Settings    \* what an instance does: [writers, sync, buffered, batch, terminal,
              \* appends, keep, rotateAt, maxSize, mortal, reclaimers, slow, reads]

Lock == {"mkdirlock", "alock", "seqlock"}
None == "none"

ASSUME EventLogAssumption ==
  /\ Home \in [Writer -> Process]
  /\ Free \notin Writer /\ Dead \notin Writer /\ Free # Dead
  /\ \A s \in Settings :
       /\ {s.writers, s.sync, s.buffered, s.reclaimers} \subseteq SUBSET Writer
       /\ s.mortal \subseteq Process
       /\ s.terminal \subseteq BOOLEAN /\ s.slow \in BOOLEAN
       /\ {s.batch, s.maxSize} \subseteq Nat \ {0}
       /\ {s.appends, s.keep, s.rotateAt, s.reads} \subseteq Nat
       \* at most one waiter comes upon the lock of a dead process
       /\ \A v, w \in s.reclaimers : v = w

Event == [by : Writer \cup {None}, nth : Nat, seq : Nat]

\* run.created, which createRunManifest appends with the explicit seq 1.
Birth == [by |-> None, nth |-> 0, seq |-> 1]

VARIABLES
  setting,
  pc, mine,  \* where each writer stands, and its local variables
  lock,      \* who made each lock directory
  stored,    \* the .seq sidecar; 0 if there is none
  counter,   \* seqCounters of each process
  files,     \* the content of every inode
  live,      \* the inode events.jsonl names; 0 between a rename and a create
  archives,  \* the inodes with an archive name
  accepted,  \* events whose append has returned them as persisted (history)
  pruned,    \* events a compaction has read and left out (history)
  made,      \* the appends each writer has begun
  cursor     \* the reader: its sinceSeq, what it got, a read under way

logVars == <<files, live, archives, pruned>>
vars == <<setting, pc, mine, lock, stored, counter, files, live, archives, accepted,
          pruned, made, cursor>>

Local == [terminal : BOOLEAN, over : BOOLEAN, stale : Lock \cup {None}, base : Nat,
          events : Seq(Event), wrote : BOOLEAN, fd : Nat, stage : {"full", "done"},
          size : Nat, seen : SUBSET Event, kept : Seq(Event), tail : Seq(Event)]
Blank == [terminal |-> FALSE, over |-> FALSE, stale |-> None, base |-> 0,
          events |-> <<>>, wrote |-> FALSE, fd |-> 0, stage |-> "done",
          size |-> 0, seen |-> {}, kept |-> <<>>, tail |-> <<>>]

Resting == {"idle", "dead"}
Pc == Resting \cup {"wait", "reserve", "persist", "check", "nested", "tail", "rename",
                    "recheck", "full", "create", "size", "open", "write", "tick", "done"}

LogTypeOK ==
  /\ setting \in Settings
  /\ pc \in [Writer -> Pc]
  /\ mine \in [Writer -> Local]
  /\ lock \in [Lock -> Writer \cup {Free, Dead}]
  /\ stored \in Nat
  /\ counter \in [Process -> Nat]
  /\ files \in Seq(Seq(Event))
  /\ live \in 0 .. Len(files)
  /\ archives \in SUBSET (1 .. Len(files))
  /\ \A w \in Writer : mine[w].fd \in 0 .. Len(files)
  /\ accepted \in SUBSET Event /\ pruned \in SUBSET Event
  /\ made \in [Writer -> Nat]

TypeOK ==
  /\ LogTypeOK
  /\ cursor \in [since : Nat, got : SUBSET Event, reading : BOOLEAN, seen : SUBSET Event]

-----------------------------------------------------------------------------
(* Files and locks. *)

Content(i) == IF i = 0 THEN <<>> ELSE files[i]
Size == Len(Content(live))

\* What scanSequence finds in the live file, where line order need not be seq order.
Top == Max({e.seq : e \in ToSet(Content(live))} \cup {0})

Sync(w) == w \in setting.sync
Buffered(w) == w \in setting.buffered
Family(w) == IF Sync(w) THEN "mkdirlock" ELSE "alock"

\* The writer is on its process's stack.  sleepSync keeps a waiting one there.
OnStack(w) ==
  IF Sync(w) THEN pc[w] \notin Resting
             ELSE \/ pc[w] \in {"persist", "tail", "rename", "recheck", "create"}
                  \/ Buffered(w) /\ pc[w] \notin Resting \cup {"wait"}

MayRun(w) ==
  /\ w \in setting.writers /\ pc[w] # "dead"
  /\ \A v \in Writer \ {w} : Home[v] = Home[w] => ~OnStack(v)

\* asyncLocks chains the asynchronous writers of one process.
Chained(w) ==
  /\ ~Sync(w)
  /\ \E v \in Writer \ {w} :
       Home[v] = Home[w] /\ ~Sync(v) /\ pc[v] \notin Resting \cup {"wait"}

\* The release looks at the pid in the directory, so at the process.
Without(l, w) ==
  IF lock[l] \in Writer /\ Home[lock[l]] = Home[w] THEN [lock EXCEPT ![l] = Free] ELSE lock

\* The lock a writer is waiting for.
Wants(w) == CASE pc[w] = "wait" -> Family(w)
              [] pc[w] = "reserve" -> "seqlock"
              [] pc[w] = "nested" -> "alock"
              [] OTHER -> None

Busy(w) == Wants(w) \in Lock /\ lock[Wants(w)] # Free /\ mine[w].stale = None
Vacant(w) == Wants(w) \in Lock /\ lock[Wants(w)] = Free /\ mine[w].stale = None

\* statSync finds the directory over age: its process is dead, or (slow) its
\* holder has been inside for ten seconds.
SeeStale(w) ==
  /\ Busy(w) /\ ~Chained(w)
  /\ \/ lock[Wants(w)] = Dead /\ w \in setting.reclaimers
     \/ setting.slow /\ Wants(w) # "seqlock" /\ lock[Wants(w)] \in Writer
  /\ mine' = [mine EXCEPT ![w].stale = Wants(w)]
  /\ UNCHANGED <<setting, pc, lock, stored, counter, logVars, accepted, made, cursor>>

\* rmSync removes the directory by its name, whosever it has become.
RemoveStale(w) ==
  /\ mine[w].stale # None
  /\ lock' = [lock EXCEPT ![mine[w].stale] = Free]
  /\ mine' = [mine EXCEPT ![w].stale = None]
  /\ UNCHANGED <<setting, pc, stored, counter, logVars, accepted, made, cursor>>

-----------------------------------------------------------------------------
(* An append: enter, take the family's lock, reserve. *)

Begin(w) ==
  /\ pc[w] = "idle" /\ made[w] < setting.appends
  /\ \E t \in IF Buffered(w) THEN {FALSE} ELSE setting.terminal :
       mine' = [mine EXCEPT ![w] = [Blank EXCEPT !.terminal = t]]
  /\ pc' = [pc EXCEPT ![w] = "wait"]
  /\ made' = [made EXCEPT ![w] = @ + 1]
  /\ UNCHANGED <<setting, lock, stored, counter, logVars, accepted, cursor>>

\* appendEventInsideLock stats the file first; a batch makes room first.
TakeFamily(w) ==
  /\ pc[w] = "wait" /\ Vacant(w) /\ ~Chained(w)
  /\ lock' = [lock EXCEPT ![Family(w)] = w]
  /\ mine' = [mine EXCEPT ![w].over = Size > setting.maxSize]
  /\ pc' = [pc EXCEPT ![w] = IF Buffered(w) THEN "check" ELSE "reserve"]
  /\ UNCHANGED <<setting, stored, counter, logVars, accepted, made, cursor>>

\* The wait is bounded, and ends in an exception.
GiveUp(w) ==
  /\ pc[w] \in {"wait", "reserve"} /\ Busy(w) /\ ~Chained(w)
  /\ lock' = IF pc[w] = "wait" THEN lock ELSE Without(Family(w), w)
  /\ pc' = [pc EXCEPT ![w] = "idle"]
  /\ mine' = [mine EXCEPT ![w] = Blank]
  /\ UNCHANGED <<setting, stored, counter, logVars, accepted, made, cursor>>

\* Mutant of ReadTop: the sidecar is read once, then the process counts alone.
ReadTopOnce(w) ==
  /\ pc[w] = "reserve" /\ Vacant(w)
  /\ lock' = [lock EXCEPT !["seqlock"] = w]
  /\ mine' = [mine EXCEPT ![w].base =
                IF counter[Home[w]] > 0 THEN counter[Home[w]] ELSE Max({stored, Top})]
  /\ pc' = [pc EXCEPT ![w] = "persist"]
  /\ UNCHANGED <<setting, stored, counter, logVars, accepted, made, cursor>>

\* reserveSequenceLocked, up to the write of the sidecar.
ReadTop(w) ==
  /\ pc[w] = "reserve" /\ Vacant(w)
  /\ lock' = [lock EXCEPT !["seqlock"] = w]
  /\ mine' = [mine EXCEPT ![w].base =
                Max({IF stored = 0 THEN Top ELSE stored, counter[Home[w]]})]
  /\ pc' = [pc EXCEPT ![w] = "persist"]
  /\ UNCHANGED <<setting, stored, counter, logVars, accepted, made, cursor>>

Count(w) == IF Buffered(w) THEN setting.batch ELSE 1

\* The sidecar is advanced before anything is appended: a gap, never a duplicate.
Reserve(w) ==
  /\ pc[w] = "persist"
  /\ LET first == mine[w].base + 1
         last == mine[w].base + Count(w)
     IN /\ mine' = [mine EXCEPT ![w].events =
                      [k \in 1 .. Count(w) |-> [by |-> w, nth |-> made[w], seq |-> first + k - 1]]]
        /\ stored' = last
        /\ counter' = [counter EXCEPT ![Home[w]] = last]
  /\ lock' = Without("seqlock", w)
  /\ pc' = [pc EXCEPT ![w] = IF Buffered(w) THEN "size" ELSE "check"]
  /\ UNCHANGED <<setting, logVars, accepted, made, cursor>>

-----------------------------------------------------------------------------
(* Compaction.  It is entered by an append that finds the file over the     *)
(* hard limit (and then goes on to rotation), or after one (tick).          *)

\* prepareCompaction: the last events, and the size they were read at.
Prepare(w, stage) ==
  IF Size > setting.keep
    THEN /\ mine' = [mine EXCEPT
                       ![w].stage = stage, ![w].size = Size,
                       ![w].seen = ToSet(Content(live)),
                       ![w].kept = SubSeq(Content(live), Size - setting.keep + 1, Size)]
         /\ pc' = [pc EXCEPT ![w] = IF Sync(w) THEN "nested" ELSE "tail"]
    ELSE /\ pc' = [pc EXCEPT ![w] = stage]
         /\ UNCHANGED mine

\* A synchronous writer takes .alock inside .mkdirlock, or skips this cycle.
TakeNested(w) ==
  /\ pc[w] = "nested" /\ Vacant(w)
  /\ lock' = [lock EXCEPT !["alock"] = w]
  /\ pc' = [pc EXCEPT ![w] = "tail"]
  /\ UNCHANGED <<setting, mine, stored, counter, logVars, accepted, made, cursor>>

\* Mutant of GiveUpNested: the wait for .alock ends only with its holder.
GiveUpNestedOnDeath(w) ==
  /\ pc[w] = "nested" /\ Busy(w) /\ lock["alock"] = Dead
  /\ pc' = [pc EXCEPT ![w] = mine[w].stage]
  /\ UNCHANGED <<setting, mine, lock, stored, counter, logVars, accepted, made, cursor>>

GiveUpNested(w) ==
  /\ pc[w] = "nested" /\ Busy(w)
  /\ pc' = [pc EXCEPT ![w] = mine[w].stage]
  /\ UNCHANGED <<setting, mine, lock, stored, counter, logVars, accepted, made, cursor>>

EndCompaction(w) ==
  /\ pc' = [pc EXCEPT ![w] = mine[w].stage]
  /\ lock' = IF Sync(w) THEN Without("alock", w) ELSE lock

\* readTailSince: a shorter file means a foreign rotation, and aborts.
ReadTail(w) ==
  /\ pc[w] = "tail"
  /\ IF live # 0 /\ Size < mine[w].size
       THEN EndCompaction(w) /\ UNCHANGED mine
       ELSE /\ mine' = [mine EXCEPT ![w].tail = SubSeq(Content(live), mine[w].size + 1, Size)]
            /\ pc' = [pc EXCEPT ![w] = "rename"]
            /\ UNCHANGED lock
  /\ UNCHANGED <<setting, stored, counter, logVars, accepted, made, cursor>>

\* atomicWriteFile renames a new file over the log.
Replace(w) ==
  /\ pc[w] = "rename"
  /\ files' = Append(files, mine[w].kept \o mine[w].tail)
  /\ live' = Len(files) + 1
  /\ pruned' = pruned \cup (mine[w].seen \ ToSet(mine[w].kept))
  /\ pc' = [pc EXCEPT ![w] = "recheck"]
  /\ UNCHANGED <<setting, mine, lock, stored, counter, archives, accepted, made, cursor>>

\* The members of I in order.
InOrder(I) == {m \in [1 .. Cardinality(I) -> I] : \A j, k \in DOMAIN m : j < k => m[j] < m[k]}

\* The count after the write; kept events that are gone are appended again.
Recheck(w) ==
  /\ pc[w] = "recheck"
  /\ \E m \in InOrder({i \in DOMAIN mine[w].kept : mine[w].kept[i] \notin ToSet(Content(live))}) :
       LET missing == [k \in DOMAIN m |-> mine[w].kept[m[k]]]
       IN files' = IF live = 0 \/ Size >= Len(mine[w].kept) THEN files
                   ELSE [files EXCEPT ![live] = @ \o missing]
  /\ EndCompaction(w)
  /\ UNCHANGED <<setting, mine, stored, counter, live, archives, pruned, accepted, made, cursor>>

-----------------------------------------------------------------------------
(* The rest of an append. *)

\* What an append does when the file is over MAX_EVENTS_BYTES.
Check(w) ==
  /\ pc[w] = "check"
  /\ LET over == IF Sync(w) THEN mine[w].over ELSE Size > setting.maxSize
     IN IF over /\ ~mine[w].terminal
          THEN Prepare(w, "full")
          ELSE /\ pc' = [pc EXCEPT ![w] = IF Buffered(w) THEN "reserve"
                                          ELSE IF Sync(w) THEN "size"
                                          ELSE IF over THEN "tick" ELSE "open"]
               /\ UNCHANGED mine
  /\ UNCHANGED <<setting, lock, stored, counter, logVars, accepted, made, cursor>>

AfterFull(w) == IF Buffered(w) THEN "reserve" ELSE "size"

\* rotateEventLogUnlocked: the rename carries open descriptors along.
Rotate(w) ==
  /\ pc[w] = "full"
  /\ IF Size > setting.maxSize
       THEN /\ archives' = archives \cup {live} /\ live' = 0
            /\ pc' = [pc EXCEPT ![w] = "create"]
       ELSE /\ pc' = [pc EXCEPT ![w] = AfterFull(w)]
            /\ UNCHANGED <<archives, live>>
  /\ UNCHANGED <<setting, mine, lock, stored, counter, files, pruned, accepted, made, cursor>>

\* Opens the log; a missing file is created.
OpenLive == IF live = 0 THEN files' = Append(files, <<>>) /\ live' = Len(files) + 1
                        ELSE UNCHANGED <<files, live>>

\* Mutant of Create: a new empty file, whoever has created one in the meantime.
CreateOver(w) ==
  /\ pc[w] = "create"
  /\ files' = Append(files, <<>>) /\ live' = Len(files) + 1
  /\ pc' = [pc EXCEPT ![w] = AfterFull(w)]
  /\ UNCHANGED <<setting, mine, lock, stored, counter, archives, pruned, accepted, made, cursor>>

\* "wx": a file another writer has created in the meantime stays.
Create(w) ==
  /\ pc[w] = "create"
  /\ OpenLive
  /\ pc' = [pc EXCEPT ![w] = AfterFull(w)]
  /\ UNCHANGED <<setting, mine, lock, stored, counter, archives, pruned, accepted, made, cursor>>

\* The event is skipped, a batch rejected, if there is still no room.
SizeCheck(w) ==
  /\ pc[w] = "size"
  /\ pc' = [pc EXCEPT ![w] = IF Size <= setting.maxSize THEN "open"
                             ELSE IF Buffered(w) THEN "done" ELSE "tick"]
  /\ UNCHANGED <<setting, mine, lock, stored, counter, logVars, accepted, made, cursor>>

OpenFile(w) ==
  /\ pc[w] = "open"
  /\ OpenLive
  /\ mine' = [mine EXCEPT ![w].fd = live']
  /\ pc' = [pc EXCEPT ![w] = "write"]
  /\ UNCHANGED <<setting, lock, stored, counter, archives, pruned, accepted, made, cursor>>

\* O_APPEND to the inode that was opened, whatever its name is by now.
Write(w) ==
  /\ pc[w] = "write"
  /\ files' = [files EXCEPT ![mine[w].fd] = @ \o mine[w].events]
  /\ mine' = [mine EXCEPT ![w].wrote = TRUE]
  /\ pc' = [pc EXCEPT ![w] = IF Buffered(w) THEN "done" ELSE "tick"]
  /\ UNCHANGED <<setting, lock, stored, counter, live, archives, pruned, accepted, made, cursor>>

\* Every hundredth append of a process looks whether the file wants compaction.
Tick(w) ==
  /\ pc[w] = "tick"
  /\ \/ pc' = [pc EXCEPT ![w] = "done"] /\ UNCHANGED mine
     \/ Size > setting.rotateAt /\ Prepare(w, "done")
  /\ UNCHANGED <<setting, lock, stored, counter, logVars, accepted, made, cursor>>

Return(w) ==
  /\ pc[w] = "done"
  /\ accepted' = IF mine[w].wrote THEN accepted \cup ToSet(mine[w].events) ELSE accepted
  /\ lock' = Without(Family(w), w)
  /\ pc' = [pc EXCEPT ![w] = "idle"]
  /\ mine' = [mine EXCEPT ![w] = Blank]
  /\ UNCHANGED <<setting, stored, counter, logVars, made, cursor>>

-----------------------------------------------------------------------------
(* A process that is killed, the reader, the specification. *)

Kill(p) ==
  /\ p \in setting.mortal /\ \A w \in Writer : Home[w] = p => pc[w] # "dead"
  /\ pc' = [w \in Writer |-> IF Home[w] = p THEN "dead" ELSE pc[w]]
  /\ lock' = [l \in Lock |-> IF lock[l] \in Writer /\ Home[lock[l]] = p THEN Dead ELSE lock[l]]
  /\ UNCHANGED <<setting, mine, stored, counter, logVars, accepted, made, cursor>>

InArchives == UNION {ToSet(files[i]) : i \in archives}
Later(S) == {e \in S : e.seq > cursor.since}

\* Mutant of ReadArchives: nextSeq is the last seq found, not the last one delivered.
ReadArchivesPast ==
  /\ cursor.reading
  /\ LET found == cursor.seen \cup Later(InArchives)
         batch == {e \in found :
                     Cardinality({f \in found : f.seq < e.seq}) < setting.reads}
     IN cursor' = [since |-> Max({e.seq : e \in found} \cup {cursor.since}),
                   got |-> cursor.got \cup batch, reading |-> FALSE, seen |-> {}]

\* readEventsCursor: the live file first ...
ReadLive ==
  /\ setting.reads > 0 /\ ~cursor.reading
  /\ cursor' = [cursor EXCEPT !.reading = TRUE, !.seen = Later(ToSet(Content(live)))]

\* ... then the archives; of both, in order of seq, as many as the limit allows.
ReadArchives ==
  /\ cursor.reading
  /\ LET found == cursor.seen \cup Later(InArchives)
         batch == {e \in found :
                     Cardinality({f \in found : f.seq < e.seq}) < setting.reads}
     IN cursor' = [since |-> Max({e.seq : e \in batch} \cup {cursor.since}),
                   got |-> cursor.got \cup batch, reading |-> FALSE, seen |-> {}]

Read == /\ ReadLive \/ ReadArchives
        /\ UNCHANGED <<setting, pc, mine, lock, stored, counter, logVars, accepted, made>>

Append1(w) == Begin(w) \/ TakeFamily(w) \/ ReadTop(w) \/ Reserve(w) \/ Check(w)
              \/ SizeCheck(w) \/ OpenFile(w) \/ Write(w) \/ Tick(w) \/ Return(w)
Waiting(w) == GiveUp(w) \/ GiveUpNested(w) \/ SeeStale(w) \/ RemoveStale(w)
Rewrite(w) == TakeNested(w) \/ ReadTail(w) \/ Replace(w) \/ Recheck(w) \/ Rotate(w) \/ Create(w)
Step(w) == MayRun(w) /\ (Append1(w) \/ Waiting(w) \/ Rewrite(w))

Init ==
  /\ setting \in Settings
  /\ pc = [w \in Writer |-> "idle"] /\ mine = [w \in Writer |-> Blank]
  /\ lock = [l \in Lock |-> Free]
  /\ stored \in {0, 1}  \* the creator may die between its append and the sidecar
  /\ counter = [p \in Process |-> 0]
  /\ files = <<<<Birth>>>> /\ live = 1 /\ archives = {}
  /\ accepted = {Birth} /\ pruned = {}
  /\ made = [w \in Writer |-> 0]
  /\ cursor = [since |-> 0, got |-> {}, reading |-> FALSE, seen |-> {}]

\* The instance has made its appends.
Finished ==
  /\ \A w \in setting.writers : pc[w] = "dead" \/ (pc[w] = "idle" /\ made[w] = setting.appends)
  /\ UNCHANGED vars

Next == (\E w \in Writer : Step(w)) \/ (\E p \in Process : Kill(p)) \/ Read \/ Finished

Spec == Init /\ [][Next]_vars
FairSpec == Spec /\ \A w \in Writer : WF_vars(Step(w))

-----------------------------------------------------------------------------
(* What the log promises. *)

Visible == ToSet(Content(live)) \cup InArchives
Written == UNION {ToSet(files[i]) : i \in 1 .. Len(files)}
OneFamily == setting.writers \subseteq setting.sync \/ setting.writers \cap setting.sync = {}

\* No two events ever get the same sequence number, whichever the families and
\* processes they come from, stolen family locks and killed writers included
\* (reserveSequenceLocked under .seqlock, advance-on-reserve).
SeqUnique == \A e, f \in Written : e.seq = f.seq => e = f

\* An event that was reported as persisted stays readable, in the log or in an
\* archive, until a compaction that has seen it leaves it out.  Across the
\* families this needs that nothing has been compacted yet: rotation loses
\* nothing (rename keeps descriptors), compaction excludes only the family
\* whose lock is held.
AcceptedStays ==
  pruned = {} \/ (OneFamily /\ ~setting.slow) => accepted \subseteq Visible \cup pruned

\* A reader that resumes from nextSeq gets every event below it that is still
\* there (the continuation contract of readEventsCursor), if one family writes:
\* rotations, compactions, page limits and killed writers do not make it skip.
CursorSkipsNothing ==
  OneFamily /\ ~setting.slow =>
    \A e \in Visible : e.seq <= cursor.since => e \in cursor.got

\* Every append returns or throws: no wait for a lock is without end, nested
\* ones inside a process that cannot let its holder run included.
AppendsEnd == \A w \in Writer : pc[w] # "idle" ~> pc[w] \in Resting

\* A terminal event is persisted whatever the size of the file.
TerminalPersisted ==
  \A w \in Writer : pc[w] = "done" /\ mine[w].terminal => mine[w].wrote
=============================================================================
