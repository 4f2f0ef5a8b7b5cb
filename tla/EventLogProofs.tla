--------------------------- MODULE EventLogProofs ---------------------------
(***************************************************************************)
(* For every set of writers and processes and every setting: the type of   *)
(* the state, that no two events ever get the same sequence number, that   *)
(* what was reported as persisted stays, and that a reader skips nothing.  *)
(*                                                                         *)
(* The argument.  Whoever is between the two halves of a reservation holds *)
(* .seqlock (a dead holder's lock has one reclaimer at most), so the base  *)
(* it has read still is the largest number given away when it adds to it.  *)
(* Every other step only moves known events between buffers and files.     *)
(* Until a compaction leaves something out, every inode keeps a name, so   *)
(* all that was written is there, whatever the families.  With one family  *)
(* and no lock taken from a living holder, one writer is inside at a time: *)
(* a compaction replaces the file it has read, new events come after all   *)
(* written ones, and the archives before the live file; a reader that has  *)
(* delivered an event therefore has passed nothing it has not delivered.   *)
(***************************************************************************)
EXTENDS EventLog, FiniteSetTheorems, WellFoundedInduction, TLAPS

\* The largest number that may have been given away: without a sidecar, Birth's.
LastGiven == IF stored = 0 THEN 1 ELSE stored

\* Everything that is in a file or may still be written to one.
Buffers(w) == ToSet(mine[w].events) \cup ToSet(mine[w].kept) \cup ToSet(mine[w].tail)
Known == Written \cup UNION {Buffers(w) : w \in Writer}

\* A writer between reading and advancing the sidecar holds .seqlock, and
\* nobody is about to remove that lock but the reclaimer of a dead one.
SeqLockHeld ==
  \A w \in Writer :
    /\ pc[w] = "persist" => lock["seqlock"] = w /\ mine[w].base = LastGiven
    /\ mine[w].stale = "seqlock" => w \in setting.reclaimers /\ lock["seqlock"] = Dead

\* Until the first reservation the log is as it was created.
Early(w) == {"idle", "dead", "wait", "reserve", "persist"} \cup
            (IF Buffered(w) THEN {"check"} ELSE {})
Untouched ==
  stored = 0 => /\ files = <<<<Birth>>>> /\ live = 1
                /\ \A w \in Writer : ~mine[w].over /\ pc[w] \in Early(w)

\* The numbers given away: nobody counts ahead of the sidecar.
Numbered ==
  /\ \A p \in Process : counter[p] <= stored
  /\ \A e \in Known : e.seq \in 1 .. LastGiven
  /\ \A e, f \in Known : e.seq = f.seq => e = f

SeqInv == LogTypeOK /\ SeqLockHeld /\ Untouched /\ Numbered

-----------------------------------------------------------------------------
(* Sequences and their elements. *)

LEMMA ConcatIsUnion ==
  ASSUME NEW S, NEW s \in Seq(S), NEW t \in Seq(S)
  PROVE  s \o t \in Seq(S) /\ ToSet(s \o t) = ToSet(s) \cup ToSet(t)
<1>1. /\ s \o t \in Seq(S) /\ Len(s \o t) = Len(s) + Len(t)
      /\ \A i \in 1 .. Len(s) + Len(t) :
           (s \o t)[i] = IF i <= Len(s) THEN s[i] ELSE t[i - Len(s)]
  OBVIOUS
<1>2. ToSet(s) \cup ToSet(t) \subseteq ToSet(s \o t)
  <2>1. \A i \in 1 .. Len(s) : i \in 1 .. Len(s \o t) /\ (s \o t)[i] = s[i]
    BY <1>1
  <2>2. \A i \in 1 .. Len(t) : i + Len(s) \in 1 .. Len(s \o t) /\ (s \o t)[i + Len(s)] = t[i]
    BY <1>1
  <2>3. DOMAIN (s \o t) = 1 .. Len(s \o t) /\ DOMAIN s = 1 .. Len(s) /\ DOMAIN t = 1 .. Len(t)
    BY <1>1
  <2>4. ASSUME NEW x \in ToSet(s) PROVE x \in ToSet(s \o t)
    <3>1. PICK i \in 1 .. Len(s) : x = s[i]
      BY <2>3 DEF ToSet
    <3> QED
      BY <3>1, <2>1, <2>3 DEF ToSet
  <2>5. ASSUME NEW x \in ToSet(t) PROVE x \in ToSet(s \o t)
    <3>1. PICK i \in 1 .. Len(t) : x = t[i]
      BY <2>3 DEF ToSet
    <3> QED
      BY <3>1, <2>2, <2>3 DEF ToSet
  <2> QED
    BY <2>4, <2>5
<1>3. ToSet(s \o t) \subseteq ToSet(s) \cup ToSet(t)
  BY <1>1 DEF ToSet
<1> QED
  BY <1>1, <1>2, <1>3

LEMMA PartOfSequence ==
  ASSUME NEW S, NEW s \in Seq(S), NEW m \in Nat \ {0}, NEW n \in 0 .. Len(s)
  PROVE  SubSeq(s, m, n) \in Seq(S) /\ ToSet(SubSeq(s, m, n)) \subseteq ToSet(s)
<1>1. SubSeq(s, m, n) = [i \in 1 .. (n - m + 1) |-> s[i + m - 1]]
  OBVIOUS
<1>2. \A i \in 1 .. (n - m + 1) : i + m - 1 \in 1 .. Len(s)
  OBVIOUS
<1>3. SubSeq(s, m, n) \in Seq(S)
  <2>1. CASE n - m + 1 \in Nat
    BY <1>1, <1>2, <2>1
  <2>2. CASE n - m + 1 \notin Nat
    <3>1. SubSeq(s, m, n) = << >>
      BY <2>2
    <3> QED
      BY <3>1
  <2> QED
    BY <2>1, <2>2
<1> QED
  BY <1>1, <1>2, <1>3 DEF ToSet

\* The events of some files.
InFiles(fs) == UNION {ToSet(fs[i]) : i \in 1 .. Len(fs)}

\* Appending an inode, or to one, adds only what is appended.
LEMMA FileAdded ==
  ASSUME NEW S, NEW fs \in Seq(Seq(S)), NEW c \in Seq(S)
  PROVE  /\ Append(fs, c) \in Seq(Seq(S)) /\ Len(Append(fs, c)) = Len(fs) + 1
         /\ InFiles(Append(fs, c)) = InFiles(fs) \cup ToSet(c)
<1>1. /\ Append(fs, c) \in Seq(Seq(S)) /\ Len(Append(fs, c)) = Len(fs) + 1
      /\ \A i \in 1 .. Len(fs) : Append(fs, c)[i] = fs[i]
      /\ Append(fs, c)[Len(fs) + 1] = c
  OBVIOUS
<1>2. 1 .. Len(Append(fs, c)) = (1 .. Len(fs)) \cup {Len(fs) + 1}
  BY <1>1
<1> QED
  BY <1>1, <1>2 DEF InFiles

Extended(fs, i, c) == [fs EXCEPT ![i] = @ \o c]

LEMMA FileExtended ==
  ASSUME NEW S, NEW fs \in Seq(Seq(S)), NEW i \in 0 .. Len(fs), NEW c \in Seq(S)
  PROVE  /\ Extended(fs, i, c) \in Seq(Seq(S)) /\ Len(Extended(fs, i, c)) = Len(fs)
         /\ InFiles(Extended(fs, i, c)) \subseteq InFiles(fs) \cup ToSet(c)
<1>1. CASE i = 0
  <2>1. Extended(fs, i, c) = fs
    BY <1>1 DEF Extended
  <2> QED
    BY <2>1
<1>2. CASE i \in 1 .. Len(fs)
  <2>1. fs[i] \o c \in Seq(S) /\ ToSet(fs[i] \o c) = ToSet(fs[i]) \cup ToSet(c)
    BY <1>2, ConcatIsUnion
  <2>2. Extended(fs, i, c) \in Seq(Seq(S)) /\ Len(Extended(fs, i, c)) = Len(fs)
    BY <1>2, <2>1 DEF Extended
  <2>3. \A j \in 1 .. Len(fs) : Extended(fs, i, c)[j] = IF j = i THEN fs[i] \o c ELSE fs[j]
    BY <1>2 DEF Extended
  <2>4. \A j \in 1 .. Len(fs) : ToSet(Extended(fs, i, c)[j]) \subseteq ToSet(fs[j]) \cup ToSet(c)
    BY <2>1, <2>3
  <2> QED
    BY <2>2, <2>4 DEF InFiles
<1>3. i = 0 \/ i \in 1 .. Len(fs)
  OBVIOUS
<1> QED
  BY <1>1, <1>2, <1>3, Zenon

\* The greater of two numbers.
LEMMA MaxOfTwo ==
  ASSUME NEW a \in Nat, NEW b \in Nat
  PROVE  Max({a, b}) = IF a >= b THEN a ELSE b
<1>1. \E x \in {a, b} : \A y \in {a, b} : x >= y
  OBVIOUS
<1>2. Max({a, b}) \in {a, b} /\ \A y \in {a, b} : Max({a, b}) >= y
  BY <1>1 DEF Max
<1> QED
  BY <1>2

\* The positions of a sequence of length n are finitely many.
LEMMA PrefixFinite ==
  ASSUME NEW n \in Nat
  PROVE  IsFiniteSet(1 .. n)
BY FS_Interval

\* A bounded set of numbers has a greatest one.
LEMMA MaxOfBounded ==
  ASSUME NEW n \in Nat, NEW T, T \subseteq 0 .. n, T # {}
  PROVE  Max(T) \in T
<1> DEFINE Above(x) == {z \in T : z > x}
           G == {Above(x) : x \in T}
<1>1. G \subseteq FiniteSubsetsOf(T) /\ G # {}
  <2>1. \A x \in T : Above(x) \subseteq T /\ Above(x) \subseteq 0 .. n
    OBVIOUS
  <2>2. IsFiniteSet(0 .. n)
    BY FS_Interval
  <2>3. \A x \in T : IsFiniteSet(Above(x))
    BY <2>1, <2>2, FS_Subset
  <2> QED
    BY <2>1, <2>3 DEF FiniteSubsetsOf
<1>2. PICK g \in G : \A h \in G : ~(<<h, g>> \in StrictSubsetOrdering(T))
  <2>1. IsWellFoundedOn(StrictSubsetOrdering(T), FiniteSubsetsOf(T))
    BY FS_StrictSubsetOrderingWellFounded
  <2> HIDE DEF G
  <2> QED
    BY <1>1, <2>1, WFMin
<1>3. PICK x \in T : g = Above(x)
  OBVIOUS
<1>4. ASSUME NEW y \in T, ~(x >= y) PROVE FALSE
  <2>1. y > x /\ Above(y) \subseteq Above(x) /\ y \in Above(x) /\ y \notin Above(y)
    <3>1. x \in Nat /\ y \in Nat /\ \A z \in T : z \in Nat
      OBVIOUS
    <3>2. y > x /\ ~(y > y)
      BY <1>4, <3>1
    <3>3. ASSUME NEW z \in T, z > y PROVE z > x
      BY <3>1, <3>2, <3>3
    <3> QED
      BY <3>2, <3>3
  <2>2. Above(y) \in G /\ Above(y) \in SUBSET T /\ Above(x) \in SUBSET T
    OBVIOUS
  <2> QED
    BY <1>2, <1>3, <2>1, <2>2 DEF StrictSubsetOrdering
<1> QED
  BY <1>4 DEF Max

USE EventLogAssumption

-----------------------------------------------------------------------------
(* The type of the state, and what a step may add to what is known. *)

\* The live file is a sequence of known events.
LEMMA LiveContent ==
  ASSUME LogTypeOK
  PROVE  /\ Content(live) \in Seq(Event) /\ Size \in Nat
         /\ ToSet(Content(live)) \subseteq Written
         /\ live = 0 => Content(live) = << >> /\ Size = 0
<1>1. CASE live = 0
  <2>1. Content(live) = << >> /\ Size = 0
    BY <1>1 DEF Content, Size
  <2>2. ToSet(<< >>) = {}
    BY DEF ToSet
  <2> QED
    BY <2>1, <2>2
<1>2. CASE live # 0
  <2>1. live \in 1 .. Len(files) /\ Content(live) = files[live]
    BY <1>2 DEF LogTypeOK, Content
  <2>2. files[live] \in Seq(Event)
    BY <2>1 DEF LogTypeOK
  <2> QED
    BY <1>2, <2>1, <2>2 DEF Written, Size
<1> QED
  BY <1>1, <1>2

\* A step that leaves the other writers' buffers alone and puts nothing new
\* into a file or its own buffers adds nothing.
LEMMA NothingNew ==
  ASSUME NEW w \in Writer, Written' \subseteq Known,
         \A v \in Writer \ {w} : mine'[v] = mine[v], Buffers(w)' \subseteq Known
  PROVE  Known' \subseteq Known
<1>1. \A v \in Writer \ {w} : Buffers(v)' = Buffers(v)
  BY DEF Buffers
<1>2. \A v \in Writer : Buffers(v)' \subseteq Known
  BY <1>1 DEF Known
<1> QED
  BY <1>2 DEF Known

\* A writer's buffers are known, and so is what it keeps when it clears them.
LEMMA OwnBuffers ==
  ASSUME NEW w \in Writer
  PROVE  Buffers(w) \subseteq Known /\ Written \subseteq Known /\ ToSet(<< >>) = {}
BY DEF Known, ToSet

LEMMA BlankIsLocal == Blank \in Local
<1>1. << >> \in Seq(Event)
  OBVIOUS
<1> QED
  BY <1>1 DEF Blank, Local

\* The actions of a writer, by what they write.
Rest(w) == \/ Begin(w) \/ TakeFamily(w) \/ GiveUp(w) \/ ReadTop(w) \/ Check(w) \/ Tick(w)
           \/ SizeCheck(w) \/ Return(w) \/ GiveUpNested(w) \/ SeeStale(w) \/ RemoveStale(w)
           \/ TakeNested(w) \/ ReadTail(w) \/ Rotate(w)
Filing(w) == Replace(w) \/ Recheck(w) \/ Create(w) \/ OpenFile(w) \/ Write(w)

\* A call begins with a blank record, but for what kind of event it appends.
LEMMA BeginsBlank ==
  ASSUME setting \in Settings, NEW w \in Writer, Begin(w)
  PROVE  \E t \in BOOLEAN : mine' = [mine EXCEPT ![w] = [Blank EXCEPT !.terminal = t]]
<1>1. setting.terminal \subseteq BOOLEAN
  BY EventLogAssumption
<1>2. PICK t \in IF Buffered(w) THEN {FALSE} ELSE setting.terminal :
        mine' = [mine EXCEPT ![w] = [Blank EXCEPT !.terminal = t]]
  BY DEF Begin
<1>3. t \in BOOLEAN
  BY <1>1, <1>2
<1> QED
  BY <1>2, <1>3

LEMMA ByWhatTheyWrite ==
  ASSUME NEW w \in Writer, Step(w)
  PROVE  Rest(w) \/ Filing(w) \/ Reserve(w)
BY DEF Step, Append1, Waiting, Rewrite, Rest, Filing

\* Where a writer stands.
LEMMA PcTyped ==
  ASSUME pc \in [Writer -> Pc], mine \in [Writer -> Local], NEW w \in Writer, Step(w)
  PROVE  pc' \in [Writer -> Pc]
<1> USE DEF Pc, Resting
<1>1. mine[w].stage \in Pc
  BY DEF Local
<1>2. CASE Begin(w) \/ TakeFamily(w) \/ GiveUp(w)
  BY <1>2 DEF Begin, TakeFamily, GiveUp
<1>9. CASE ReadTop(w) \/ SizeCheck(w) \/ Return(w)
  BY <1>9 DEF ReadTop, SizeCheck, Return
<1>3. CASE Check(w)
  BY <1>3 DEF Check, Prepare
<1>4. CASE Tick(w)
  BY <1>4 DEF Tick, Prepare
<1>5. CASE GiveUpNested(w) \/ SeeStale(w) \/ RemoveStale(w) \/ TakeNested(w)
  BY <1>1, <1>5 DEF GiveUpNested, SeeStale, RemoveStale, TakeNested
<1>6. CASE ReadTail(w) \/ Rotate(w)
  BY <1>1, <1>6 DEF ReadTail, EndCompaction, Rotate, AfterFull
<1>7. CASE Filing(w)
  BY <1>1, <1>7 DEF Filing, Replace, Recheck, EndCompaction, Create, AfterFull, OpenFile, Write
<1>8. CASE Reserve(w)
  BY <1>8 DEF Reserve
<1> QED
  BY <1>2, <1>3, <1>4, <1>5, <1>6, <1>7, <1>8, <1>9, ByWhatTheyWrite DEF Rest

\* Who made the locks.
Locks == [Lock -> Writer \cup {Free, Dead}]

LEMMA LockTyped ==
  ASSUME lock \in Locks, mine \in [Writer -> Local], NEW w \in Writer, Step(w)
  PROVE  lock' \in Locks
<1> USE DEF Locks, Lock
<1>1. Family(w) \in Lock /\ \A l \in Lock : Without(l, w) \in Locks
  BY DEF Family, Without
<1>2. CASE TakeFamily(w) \/ TakeNested(w) \/ ReadTop(w)
  BY <1>1, <1>2 DEF TakeFamily, TakeNested, ReadTop
<1>3. CASE GiveUp(w) \/ Return(w) \/ Reserve(w)
  BY <1>1, <1>3 DEF GiveUp, Return, Reserve
<1>4. CASE RemoveStale(w)
  <2>1. mine[w].stale \in Lock \cup {None}
    BY DEF Local
  <2> QED
    BY <1>4, <2>1 DEF RemoveStale
<1>5. CASE ReadTail(w) \/ Recheck(w)
  BY <1>1, <1>5 DEF ReadTail, Recheck, EndCompaction
<1>6. CASE Begin(w) \/ Check(w) \/ Tick(w) \/ SizeCheck(w) \/ GiveUpNested(w) \/ SeeStale(w) \/ Rotate(w)
  BY <1>6 DEF Begin, Check, Tick, SizeCheck, GiveUpNested, SeeStale, Rotate
<1>7. CASE Replace(w) \/ Create(w) \/ OpenFile(w) \/ Write(w)
  BY <1>7 DEF Replace, Create, OpenFile, Write
<1> QED
  BY <1>2, <1>3, <1>4, <1>5, <1>6, <1>7, ByWhatTheyWrite DEF Rest, Filing

\* The files.  Only the writes add to them, and nothing that is not known.
FilesTyped ==
  /\ files \in Seq(Seq(Event)) /\ live \in 0 .. Len(files)
  /\ archives \subseteq 1 .. Len(files)

LEMMA WrittenIsInFiles == Written = InFiles(files) /\ Written' = InFiles(files')
BY DEF Written, InFiles

LEMMA OpenLiveKeeps ==
  ASSUME FilesTyped, OpenLive
  PROVE  /\ files' \in Seq(Seq(Event)) /\ live' \in 0 .. Len(files')
         /\ Len(files') >= Len(files) /\ Written' = Written
<1>1. CASE live = 0
  <2>1. files' = Append(files, <<>>) /\ live' = Len(files) + 1
    BY <1>1 DEF OpenLive
  <2>2. << >> \in Seq(Event) /\ ToSet(<< >>) = {}
    BY DEF ToSet
  <2>3. /\ files' \in Seq(Seq(Event)) /\ Len(files') = Len(files) + 1
        /\ InFiles(files') = InFiles(files) \cup ToSet(<< >>)
    BY <2>1, <2>2, FileAdded DEF FilesTyped
  <2> QED
    BY <2>1, <2>2, <2>3, WrittenIsInFiles DEF FilesTyped
<1>2. CASE live # 0
  BY <1>2 DEF OpenLive, FilesTyped, Written
<1> QED
  BY <1>1, <1>2

\* A function on 1 .. n is a sequence.
LEMMA FunctionIsSeq ==
  ASSUME NEW S, NEW n \in Nat, NEW f \in [1 .. n -> S]
  PROVE  f \in Seq(S)
OBVIOUS

\* A recheck appends to the live file some of what the compaction kept, if anything.
LEMMA RecheckAppends ==
  ASSUME LogTypeOK, NEW w \in Writer, Recheck(w)
  PROVE  /\ live' = live /\ archives' = archives /\ pruned' = pruned
         /\ \/ files' = files
            \/ /\ live # 0 /\ Size < Len(mine[w].kept)
               /\ \E c \in Seq(Event) :
                    ToSet(c) \subseteq ToSet(mine[w].kept) /\ files' = Extended(files, live, c)
<1> DEFINE I == {i \in DOMAIN mine[w].kept : mine[w].kept[i] \notin ToSet(Content(live))}
           missing(m) == [k \in DOMAIN m |-> mine[w].kept[m[k]]]
<1>1. PICK m \in InOrder(I) :
        files' = IF live = 0 \/ Size >= Len(mine[w].kept) THEN files
                 ELSE [files EXCEPT ![live] = @ \o missing(m)]
  BY DEF Recheck
<1>2. mine[w].kept \in Seq(Event)
  BY DEF LogTypeOK, Local
<1>3. I \subseteq 1 .. Len(mine[w].kept)
  BY <1>2
<1> HIDE DEF I
<1>4. Cardinality(I) \in Nat
  <2>1. Len(mine[w].kept) \in Nat
    BY <1>2
  <2> QED
    BY <1>3, <2>1, PrefixFinite, FS_Subset, FS_CardinalityType
<1>5. m \in [1 .. Cardinality(I) -> I]
  BY DEF InOrder
<1>6. missing(m) \in Seq(Event) /\ ToSet(missing(m)) \subseteq ToSet(mine[w].kept)
  <2>1. DOMAIN m = 1 .. Cardinality(I) /\ \A k \in DOMAIN m : m[k] \in 1 .. Len(mine[w].kept)
    BY <1>3, <1>5
  <2>2. \A k \in DOMAIN m : missing(m)[k] = mine[w].kept[m[k]] /\ missing(m)[k] \in Event
    BY <1>2, <2>1
  <2>3. missing(m) = [k \in 1 .. Cardinality(I) |-> missing(m)[k]] /\ DOMAIN missing(m) = DOMAIN m
    BY <2>1
  <2>4. missing(m) \in [1 .. Cardinality(I) -> Event]
    <3> HIDE DEF missing
    <3> QED
      BY <2>1, <2>2, <2>3
  <2>5. missing(m) \in Seq(Event)
    <3> HIDE DEF missing
    <3> QED
      BY <1>4, <2>4, FunctionIsSeq
  <2>6. DOMAIN mine[w].kept = 1 .. Len(mine[w].kept)
    BY <1>2
  <2> HIDE DEF missing
  <2> QED
    BY <2>1, <2>2, <2>3, <2>5, <2>6 DEF ToSet
<1>7. live' = live /\ archives' = archives /\ pruned' = pruned
  BY DEF Recheck
<1>8. ~(live = 0 \/ Size >= Len(mine[w].kept)) => live # 0 /\ Size < Len(mine[w].kept)
  BY <1>2, LiveContent
<1> HIDE DEF missing
<1>9. files' = files \/ files' = Extended(files, live, missing(m))
  BY <1>1 DEF Extended
<1> QED
  BY <1>1, <1>6, <1>7, <1>8, <1>9

LEMMA FilingKeeps ==
  ASSUME LogTypeOK, NEW w \in Writer, Filing(w)
  PROVE  FilesTyped' /\ Len(files') >= Len(files) /\ Written' \subseteq Known /\ pruned' \subseteq Event
<1>1. FilesTyped /\ pruned \subseteq Event /\ mine[w] \in Local
  BY DEF LogTypeOK, FilesTyped
<1>2. Buffers(w) \subseteq Known /\ Written \subseteq Known
  BY OwnBuffers
<1>3. CASE Replace(w)
  <2> DEFINE new == mine[w].kept \o mine[w].tail
  <2>1. new \in Seq(Event) /\ ToSet(new) = ToSet(mine[w].kept) \cup ToSet(mine[w].tail)
    BY <1>1, ConcatIsUnion DEF Local
  <2>2. ToSet(new) \subseteq Known
    BY <1>2, <2>1 DEF Buffers
  <2>3. files' = Append(files, new) /\ live' = Len(files) + 1 /\ archives' = archives
    BY <1>3 DEF Replace
  <2> HIDE DEF new
  <2>4. FilesTyped' /\ Len(files') >= Len(files)
    BY <1>1, <2>1, <2>3, FileAdded DEF FilesTyped
  <2>5. Written' \subseteq Known
    BY <1>1, <1>2, <2>1, <2>2, <2>3, FileAdded, WrittenIsInFiles DEF FilesTyped
  <2>6. pruned' \subseteq Event
    BY <1>1, <1>3 DEF Replace, Local
  <2> QED
    BY <2>4, <2>5, <2>6
<1>4. CASE Recheck(w)
  <2>1. live' = live /\ archives' = archives /\ pruned' = pruned
    BY <1>4, RecheckAppends
  <2>2. CASE files' = files
    BY <1>1, <1>2, <2>1, <2>2 DEF FilesTyped, Written
  <2>3. CASE files' # files
    <3>1. PICK c \in Seq(Event) : ToSet(c) \subseteq ToSet(mine[w].kept) /\ files' = Extended(files, live, c)
      BY <1>4, <2>3, RecheckAppends
    <3>2. /\ files' \in Seq(Seq(Event)) /\ Len(files') = Len(files)
          /\ Written' \subseteq Written \cup ToSet(c)
      BY <1>1, <3>1, FileExtended, WrittenIsInFiles DEF FilesTyped
    <3> QED
      BY <1>1, <1>2, <2>1, <3>1, <3>2 DEF FilesTyped, Buffers
  <2> QED
    BY <2>2, <2>3
<1>5. CASE Create(w) \/ OpenFile(w)
  <2>1. OpenLive /\ archives' = archives /\ pruned' = pruned
    BY <1>5 DEF Create, OpenFile
  <2> QED
    BY <1>1, <1>2, <2>1, OpenLiveKeeps DEF FilesTyped
<1>6. CASE Write(w)
  <2>1. /\ files' = [files EXCEPT ![mine[w].fd] = @ \o mine[w].events]
        /\ live' = live /\ archives' = archives /\ pruned' = pruned
    BY <1>6 DEF Write
  <2>2. mine[w].fd \in 0 .. Len(files) /\ mine[w].events \in Seq(Event)
    BY DEF LogTypeOK, Local
  <2>3. /\ files' \in Seq(Seq(Event)) /\ Len(files') = Len(files)
        /\ Written' \subseteq Written \cup ToSet(mine[w].events)
    <3>1. files' = Extended(files, mine[w].fd, mine[w].events)
      BY <2>1 DEF Extended
    <3>2. files \in Seq(Seq(Event))
      BY <1>1 DEF FilesTyped
    <3> QED
      BY <2>2, <3>1, <3>2, FileExtended, WrittenIsInFiles
  <2> QED
    BY <1>1, <1>2, <2>1, <2>3 DEF FilesTyped, Buffers
<1> QED
  BY <1>3, <1>4, <1>5, <1>6 DEF Filing

\* Without a sidecar the live file is Birth alone, and its largest number is 1.
LEMMA TopOfBirth ==
  ASSUME Untouched, stored = 0
  PROVE  Content(live) = <<Birth>> /\ Size = 1 /\ Top = 1 /\ Written = {Birth}
<1>1. files = <<<<Birth>>>> /\ live = 1
  BY DEF Untouched
<1>2. Content(live) = <<Birth>> /\ Size = 1
  BY <1>1 DEF Content, Size
<1>3. ToSet(<<Birth>>) = {Birth}
  BY DEF ToSet
<1>4. {e.seq : e \in ToSet(Content(live))} \cup {0} = {1, 0}
  BY <1>2, <1>3 DEF Birth
<1>5. Top = 1
  BY <1>4, MaxOfTwo DEF Top
<1>6. Written = {Birth}
  <2>1. 1 .. Len(files) = {1} /\ files[1] = <<Birth>>
    BY <1>1
  <2> QED
    BY <1>3, <2>1 DEF Written
<1> QED
  BY <1>2, <1>5, <1>6

\* The base of a reservation is the last number given away.
LEMMA BaseIsLast ==
  ASSUME LogTypeOK, Untouched, NEW w \in Writer, counter[Home[w]] <= stored
  PROVE  Max({IF stored = 0 THEN Top ELSE stored, counter[Home[w]]}) = LastGiven
<1>1. Home[w] \in Process /\ counter[Home[w]] \in Nat /\ stored \in Nat
  BY DEF EventLogAssumption, LogTypeOK
<1>2. (IF stored = 0 THEN Top ELSE stored) = LastGiven
  BY TopOfBirth DEF LastGiven
<1>3. LastGiven \in Nat /\ LastGiven >= counter[Home[w]]
  BY <1>1 DEF LastGiven
<1> QED
  BY <1>1, <1>2, <1>3, MaxOfTwo

\* What a compaction keeps are events of the live file.
LEMMA PrepareKeeps ==
  ASSUME LogTypeOK, NEW w \in Writer, NEW stage \in {"full", "done"}, Prepare(w, stage)
  PROVE  /\ mine' \in [Writer -> Local] /\ \A v \in Writer \ {w} : mine'[v] = mine[v]
         /\ mine'[w].fd = mine[w].fd /\ Buffers(w)' \subseteq Known
         /\ mine'[w].over = mine[w].over /\ mine'[w].stale = mine[w].stale
<1>1. mine \in [Writer -> Local] /\ mine[w] \in Local /\ setting.keep \in Nat
  BY DEF LogTypeOK, EventLogAssumption
<1>2. CASE Size > setting.keep
  <2> DEFINE kept == SubSeq(Content(live), Size - setting.keep + 1, Size)
  <2>1. kept \in Seq(Event) /\ ToSet(kept) \subseteq ToSet(Content(live))
    BY <1>1, <1>2, LiveContent, PartOfSequence DEF Size
  <2>2. ToSet(Content(live)) \subseteq Event /\ Size \in Nat /\ ToSet(Content(live)) \subseteq Known
    BY LiveContent, OwnBuffers DEF ToSet
  <2>3. mine' = [mine EXCEPT ![w].stage = stage, ![w].size = Size,
                             ![w].seen = ToSet(Content(live)), ![w].kept = kept]
    BY <1>2 DEF Prepare
  <2> HIDE DEF kept
  <2>4. mine' \in [Writer -> Local] /\ \A v \in Writer \ {w} : mine'[v] = mine[v]
    BY <1>1, <2>1, <2>2, <2>3 DEF Local
  <2>5. /\ mine'[w].kept = kept /\ mine'[w].events = mine[w].events /\ mine'[w].tail = mine[w].tail
        /\ mine'[w].fd = mine[w].fd /\ mine'[w].over = mine[w].over /\ mine'[w].stale = mine[w].stale
    BY <1>1, <2>3 DEF Local
  <2>6. Buffers(w)' \subseteq Known
    BY <2>1, <2>2, <2>5, OwnBuffers DEF Buffers
  <2> QED
    BY <2>4, <2>5, <2>6
<1>3. CASE ~(Size > setting.keep)
  BY <1>1, <1>3, OwnBuffers DEF Prepare, Buffers
<1> QED
  BY <1>2, <1>3

\* What a reservation writes.
LEMMA ReserveWrites ==
  ASSUME LogTypeOK, NEW w \in Writer, Reserve(w)
  PROVE  /\ mine' \in [Writer -> Local] /\ \A v \in Writer \ {w} : mine'[v] = mine[v]
         /\ mine'[w].fd = mine[w].fd /\ mine'[w].over = mine[w].over /\ mine'[w].stale = mine[w].stale
         /\ mine'[w].kept = mine[w].kept /\ mine'[w].tail = mine[w].tail
         /\ ToSet(mine'[w].events) =
              {[by |-> w, nth |-> made[w], seq |-> mine[w].base + k] : k \in 1 .. Count(w)}
         /\ Count(w) \in Nat \ {0} /\ stored' = mine[w].base + Count(w)
         /\ counter' = [counter EXCEPT ![Home[w]] = stored']
<1>1. mine \in [Writer -> Local] /\ mine[w] \in Local /\ mine[w].base \in Nat /\ made[w] \in Nat
  BY DEF LogTypeOK, Local
<1>2. Count(w) \in Nat \ {0}
  BY DEF LogTypeOK, EventLogAssumption, Count
<1> DEFINE new == [k \in 1 .. Count(w) |-> [by |-> w, nth |-> made[w], seq |-> (mine[w].base + 1) + k - 1]]
<1>3. /\ mine' = [mine EXCEPT ![w].events = new] /\ stored' = mine[w].base + Count(w)
      /\ counter' = [counter EXCEPT ![Home[w]] = stored']
  BY DEF Reserve
<1>4. \A k \in 1 .. Count(w) :
        /\ new[k] = [by |-> w, nth |-> made[w], seq |-> mine[w].base + k] /\ new[k] \in Event
  BY <1>1, <1>2 DEF Event
<1>5. new \in Seq(Event) /\ DOMAIN new = 1 .. Count(w)
  <2>1. DOMAIN new = 1 .. Count(w) /\ new = [k \in 1 .. Count(w) |-> new[k]]
    OBVIOUS
  <2> HIDE DEF new
  <2> QED
    BY <1>2, <1>4, <2>1
<1> HIDE DEF new
<1>6. /\ mine' \in [Writer -> Local] /\ mine'[w].events = new
      /\ mine'[w].fd = mine[w].fd /\ mine'[w].over = mine[w].over /\ mine'[w].stale = mine[w].stale
      /\ mine'[w].kept = mine[w].kept /\ mine'[w].tail = mine[w].tail
  BY <1>1, <1>3, <1>5 DEF Local
<1>7. ToSet(new) = {[by |-> w, nth |-> made[w], seq |-> mine[w].base + k] : k \in 1 .. Count(w)}
  BY <1>4, <1>5 DEF ToSet
<1> QED
  BY <1>1, <1>2, <1>3, <1>6, <1>7

\* The local variables.  Only a reservation puts something new into a buffer.
LEMMA MineKeeps ==
  ASSUME LogTypeOK, Untouched, NEW w \in Writer, Rest(w) \/ Filing(w),
         pc[w] = "reserve" => counter[Home[w]] <= stored
  PROVE  /\ mine' \in [Writer -> Local] /\ \A v \in Writer \ {w} : mine'[v] = mine[v]
         /\ mine'[w].fd \in {0, mine[w].fd, live'} /\ Buffers(w)' \subseteq Known
<1>1. mine \in [Writer -> Local] /\ mine[w] \in Local /\ Buffers(w) \subseteq Known
  BY OwnBuffers DEF LogTypeOK
<1>2. Blank \in Local /\ Blank.fd = 0 /\ Blank.events = << >> /\ Blank.kept = << >> /\ Blank.tail = << >>
  BY BlankIsLocal DEF Blank
<1>3. ToSet(<< >>) = {}
  BY DEF ToSet
<1>4. CASE mine' = mine
  BY <1>1, <1>4 DEF Buffers
<1>5. CASE GiveUp(w) \/ Return(w)
  <2>1. mine' = [mine EXCEPT ![w] = Blank]
    BY <1>5 DEF GiveUp, Return
  <2> QED
    BY <1>1, <1>2, <1>3, <2>1 DEF Buffers
<1>6. CASE Begin(w)
  <2>1. PICK t \in BOOLEAN : mine' = [mine EXCEPT ![w] = [Blank EXCEPT !.terminal = t]]
    BY <1>6, BeginsBlank DEF LogTypeOK
  <2>2. [Blank EXCEPT !.terminal = t] \in Local
    BY <1>2 DEF Local
  <2>3. /\ [Blank EXCEPT !.terminal = t].fd = 0 /\ [Blank EXCEPT !.terminal = t].events = << >>
        /\ [Blank EXCEPT !.terminal = t].kept = << >> /\ [Blank EXCEPT !.terminal = t].tail = << >>
    BY DEF Blank
  <2>4. /\ mine'[w] = [Blank EXCEPT !.terminal = t] /\ mine' \in [Writer -> Local]
        /\ \A v \in Writer \ {w} : mine'[v] = mine[v]
    BY <1>1, <2>1, <2>2
  <2>5. mine'[w].fd = 0 /\ Buffers(w)' = {}
    BY <1>3, <2>3, <2>4 DEF Buffers
  <2> QED
    BY <2>4, <2>5
<1>7. CASE TakeFamily(w) \/ SeeStale(w) \/ RemoveStale(w) \/ Write(w) \/ ReadTop(w) \/ OpenFile(w)
  <2>1. CASE TakeFamily(w)
    <3>1. PICK b \in BOOLEAN : mine' = [mine EXCEPT ![w].over = b]
      <4> DEFINE b == Size > setting.maxSize
      <4>1. b \in BOOLEAN
        OBVIOUS
      <4>2. mine' = [mine EXCEPT ![w].over = b]
        BY <2>1 DEF TakeFamily
      <4> HIDE DEF b
      <4> QED
        BY <4>1, <4>2
    <3> QED
      BY <1>1, <3>1 DEF Local, Buffers
  <2>2. CASE SeeStale(w)
    <3>1. Wants(w) \in Lock
      BY <2>2 DEF SeeStale, Busy
    <3> QED
      BY <1>1, <2>2, <3>1 DEF SeeStale, Local, Buffers
  <2>3. CASE RemoveStale(w)
    BY <1>1, <2>3 DEF RemoveStale, Local, Buffers
  <2>4. CASE Write(w)
    BY <1>1, <2>4 DEF Write, Local, Buffers
  <2>5. CASE ReadTop(w)
    <3>1. mine' = [mine EXCEPT ![w].base = LastGiven] /\ LastGiven \in Nat
      BY <2>5, BaseIsLast DEF ReadTop, LastGiven, LogTypeOK
    <3> QED
      BY <1>1, <3>1 DEF Local, Buffers
  <2>6. CASE OpenFile(w)
    <3>1. live' \in Nat
      BY <2>6, OpenLiveKeeps DEF OpenFile, FilesTyped, LogTypeOK
    <3> QED
      BY <1>1, <2>6, <3>1 DEF OpenFile, Local, Buffers
  <2> QED
    BY <1>7, <2>1, <2>2, <2>3, <2>4, <2>5, <2>6
<1>8. CASE Check(w) \/ Tick(w)
  <2>1. mine' = mine \/ Prepare(w, "full") \/ Prepare(w, "done")
    BY <1>8 DEF Check, Tick
  <2> QED
    BY <1>1, <1>4, <2>1, PrepareKeeps
<1>9. CASE ReadTail(w)
  <2> DEFINE tail == SubSeq(Content(live), mine[w].size + 1, Size)
  <2>1. mine' = mine \/ mine' = [mine EXCEPT ![w].tail = tail]
    BY <1>9 DEF ReadTail
  <2>2. tail \in Seq(Event) /\ ToSet(tail) \subseteq ToSet(Content(live))
    <3>1. mine[w].size + 1 \in Nat \ {0}
      BY <1>1 DEF Local
    <3> QED
      BY <3>1, LiveContent, PartOfSequence DEF Size
  <2>3. ToSet(tail) \subseteq Known
    BY <2>2, LiveContent, OwnBuffers
  <2> HIDE DEF tail
  <2>4. CASE mine' = [mine EXCEPT ![w].tail = tail]
    <3>1. mine' \in [Writer -> Local] /\ \A v \in Writer \ {w} : mine'[v] = mine[v]
      BY <1>1, <2>2, <2>4 DEF Local
    <3>2. /\ mine'[w].tail = tail /\ mine'[w].fd = mine[w].fd
          /\ mine'[w].events = mine[w].events /\ mine'[w].kept = mine[w].kept
      BY <1>1, <2>4 DEF Local
    <3> QED
      BY <1>1, <2>3, <3>1, <3>2 DEF Buffers
  <2> QED
    BY <1>4, <2>1, <2>4
<1>10. CASE GiveUpNested(w) \/ SizeCheck(w) \/ TakeNested(w) \/ Rotate(w) \/ Replace(w) \/ Recheck(w) \/ Create(w)
  <2>1. mine' = mine
    BY <1>10 DEF GiveUpNested, SizeCheck, TakeNested, Rotate, Replace, Recheck, Create
  <2> QED
    BY <1>4, <2>1
<1> QED
  BY <1>5, <1>6, <1>7, <1>8, <1>9, <1>10 DEF Rest, Filing

\* The other variables of a step.
LEMMA RestKeeps ==
  ASSUME NEW w \in Writer, Rest(w)
  PROVE  /\ files' = files /\ (live' = live \/ Rotate(w)) /\ UNCHANGED <<stored, counter, pruned>>
         /\ Written' = Written
<1>1. /\ files' = files /\ (live' = live \/ Rotate(w)) /\ UNCHANGED <<stored, counter, pruned>>
  BY DEF Rest, Begin, TakeFamily, GiveUp, ReadTop, Check, Tick, SizeCheck, Return, GiveUpNested, SeeStale,
         RemoveStale, TakeNested, ReadTail, Rotate, logVars
<1> QED
  BY <1>1 DEF Written

\* A step of a writer keeps the type of the state.
LEMMA TypeKept ==
  ASSUME LogTypeOK, Untouched, NEW w \in Writer, Step(w),
         pc[w] = "reserve" => counter[Home[w]] <= stored
  PROVE  LogTypeOK'
<1>1. pc' \in [Writer -> Pc] /\ lock' \in [Lock -> Writer \cup {Free, Dead}]
  BY PcTyped, LockTyped DEF LogTypeOK, Locks
<1>2. setting' \in Settings
  BY ByWhatTheyWrite DEF LogTypeOK, Rest, Filing, Reserve, Begin, TakeFamily, GiveUp, ReadTop, Check, Tick,
     SizeCheck, Return, GiveUpNested, SeeStale, RemoveStale, TakeNested, ReadTail, Rotate, Replace, Recheck,
     Create, OpenFile, Write
<1>3. FilesTyped' /\ Len(files') >= Len(files) /\ pruned' \subseteq Event
  <2>1. CASE Filing(w)
    BY <2>1, FilingKeeps
  <2>2. CASE Reserve(w)
    BY <2>2 DEF Reserve, logVars, LogTypeOK, FilesTyped
  <2>3. CASE Rest(w) /\ ~Rotate(w)
    <3>1. files' = files /\ live' = live /\ archives' = archives /\ pruned' = pruned
      BY <2>3 DEF Rest, Begin, TakeFamily, GiveUp, ReadTop, Check, Tick, SizeCheck, Return, GiveUpNested,
         SeeStale, RemoveStale, TakeNested, ReadTail, logVars
    <3> QED
      BY <3>1 DEF LogTypeOK, FilesTyped
  <2>4. CASE Rotate(w)
    <3>1. CASE Size > setting.maxSize
      <4>1. live # 0 /\ files' = files /\ live' = 0 /\ archives' = archives \cup {live} /\ pruned' = pruned
        BY <2>4, <3>1, LiveContent DEF Rotate, LogTypeOK, EventLogAssumption
      <4> QED
        BY <4>1 DEF LogTypeOK, FilesTyped
    <3>2. CASE ~(Size > setting.maxSize)
      BY <2>4, <3>2 DEF Rotate, LogTypeOK, FilesTyped
    <3> QED
      BY <3>1, <3>2
  <2> QED
    BY <2>1, <2>2, <2>3, <2>4, ByWhatTheyWrite
<1>4. mine' \in [Writer -> Local] /\ \A v \in Writer : mine'[v].fd \in 0 .. Len(files')
  <2>1. /\ mine' \in [Writer -> Local] /\ \A v \in Writer \ {w} : mine'[v] = mine[v]
        /\ mine'[w].fd \in {0, mine[w].fd, live'}
    <3>1. CASE Reserve(w)
      BY <3>1, ReserveWrites
    <3> QED
      BY <3>1, MineKeeps, ByWhatTheyWrite
  <2>2. Len(files) \in Nat /\ Len(files') \in Nat /\ live' \in 0 .. Len(files')
    BY <1>3 DEF FilesTyped, LogTypeOK
  <2>3. \A v \in Writer : mine[v].fd \in 0 .. Len(files)
    BY DEF LogTypeOK
  <2> QED
    BY <1>3, <2>1, <2>2, <2>3
<1>5. stored' \in Nat /\ counter' \in [Process -> Nat] /\ made' \in [Writer -> Nat]
  <2>1. CASE Reserve(w)
    <3>1. mine[w].base \in Nat
      BY DEF LogTypeOK, Local
    <3>2. stored' \in Nat /\ counter' = [counter EXCEPT ![Home[w]] = stored'] /\ made' = made
      <4>1. made' = made
        BY <2>1 DEF Reserve
      <4>2. /\ stored' = mine[w].base + Count(w) /\ Count(w) \in Nat
            /\ counter' = [counter EXCEPT ![Home[w]] = stored']
        BY <2>1, ReserveWrites
      <4> QED
        BY <3>1, <4>1, <4>2
    <3> QED
      BY <3>2 DEF LogTypeOK
  <2>2. CASE Filing(w)
    <3>1. UNCHANGED <<stored, counter, made>>
      BY <2>2 DEF Filing, Replace, Recheck, Create, OpenFile, Write
    <3> QED
      BY <3>1 DEF LogTypeOK
  <2>3. CASE Rest(w)
    <3>1. made' = made \/ made' = [made EXCEPT ![w] = @ + 1]
      BY <2>3 DEF Rest, Begin, TakeFamily, GiveUp, ReadTop, Check, Tick, SizeCheck, Return, GiveUpNested,
         SeeStale, RemoveStale, TakeNested, ReadTail, Rotate
    <3>2. stored' = stored /\ counter' = counter
      BY <2>3, RestKeeps
    <3> QED
      BY <3>1, <3>2 DEF LogTypeOK
  <2> QED
    BY <2>1, <2>2, <2>3, ByWhatTheyWrite
<1>6. accepted' \subseteq Event
  <2>1. ToSet(mine[w].events) \subseteq Event
    BY DEF LogTypeOK, Local, ToSet
  <2>2. accepted' = accepted \/ accepted' = accepted \cup ToSet(mine[w].events)
    BY ByWhatTheyWrite DEF Rest, Filing, Reserve, Begin, TakeFamily, GiveUp, ReadTop, Check, Tick,
       SizeCheck, Return, GiveUpNested, SeeStale, RemoveStale, TakeNested, ReadTail, Rotate, Replace, Recheck,
       Create, OpenFile, Write
  <2> QED
    BY <2>1, <2>2 DEF LogTypeOK
<1> QED
  BY <1>1, <1>2, <1>3, <1>4, <1>5, <1>6 DEF LogTypeOK, FilesTyped

-----------------------------------------------------------------------------
(* The sequence lock. *)

\* A step of one writer leaves where the others stand, and the setting.
LEMMA OthersStay ==
  ASSUME LogTypeOK, NEW w \in Writer, Step(w)
  PROVE  setting' = setting /\ \A v \in Writer \ {w} : pc'[v] = pc[v]
<1>1. pc \in [Writer -> Pc]
  BY DEF LogTypeOK
<1>2. CASE Filing(w)
  <2>1. CASE Recheck(w)
    <3>1. pc' = [pc EXCEPT ![w] = mine[w].stage] /\ setting' = setting
      BY <2>1 DEF Recheck, EndCompaction
    <3> QED
      BY <1>1, <3>1
  <2>2. CASE Replace(w) \/ Create(w) \/ OpenFile(w) \/ Write(w)
    <3>1. setting' = setting /\ \E c \in Pc : pc' = [pc EXCEPT ![w] = c]
      BY <2>2 DEF Replace, Create, AfterFull, OpenFile, Write, Pc
    <3> QED
      BY <1>1, <3>1
  <2> QED
    BY <1>2, <2>1, <2>2 DEF Filing
<1>3. CASE Check(w) \/ Tick(w)
  BY <1>1, <1>3 DEF Check, Tick, Prepare
<1>4. CASE GiveUpNested(w) \/ TakeNested(w) \/ ReadTail(w) \/ Rotate(w) \/ SeeStale(w) \/ RemoveStale(w)
  BY <1>1, <1>4 DEF GiveUpNested, TakeNested, ReadTail, EndCompaction, Rotate, SeeStale, RemoveStale
<1>5. CASE Begin(w) \/ TakeFamily(w) \/ GiveUp(w)
  BY <1>1, <1>5 DEF Begin, TakeFamily, GiveUp
<1>6. CASE ReadTop(w) \/ SizeCheck(w) \/ Return(w) \/ Reserve(w)
  BY <1>1, <1>6 DEF ReadTop, SizeCheck, Return, Reserve
<1> QED
  BY <1>2, <1>3, <1>4, <1>5, <1>6, ByWhatTheyWrite DEF Rest

\* Only ReadTop leads to the second half of a reservation.
LEMMA OnlyReadTopPersists ==
  ASSUME LogTypeOK, NEW w \in Writer, Step(w), ~ReadTop(w), pc'[w] = "persist"
  PROVE  pc[w] = "persist" /\ (SeeStale(w) \/ RemoveStale(w))
<1>1. mine[w].stage \in {"full", "done"} /\ pc \in [Writer -> Pc]
  BY DEF LogTypeOK, Local
<1>2. CASE Begin(w) \/ TakeFamily(w) \/ GiveUp(w) \/ SizeCheck(w) \/ Return(w) \/ Reserve(w)
  BY <1>1, <1>2 DEF Begin, TakeFamily, GiveUp, SizeCheck, Return, Reserve
<1>3. CASE Check(w) \/ Tick(w)
  BY <1>1, <1>3 DEF Check, Tick, Prepare
<1>4. CASE GiveUpNested(w) \/ TakeNested(w) \/ ReadTail(w) \/ Rotate(w)
  BY <1>1, <1>4 DEF GiveUpNested, TakeNested, ReadTail, EndCompaction, Rotate, AfterFull
<1>5. CASE Filing(w)
  BY <1>1, <1>5 DEF Filing, Replace, Recheck, EndCompaction, Create, AfterFull, OpenFile, Write
<1>6. CASE SeeStale(w) \/ RemoveStale(w)
  BY <1>6 DEF SeeStale, RemoveStale
<1> QED
  BY <1>2, <1>3, <1>4, <1>5, <1>6, ByWhatTheyWrite DEF Rest

\* Who changes the sequence lock.
LEMMA SeqLockChanges ==
  ASSUME LogTypeOK, NEW w \in Writer, Step(w)
  PROVE  \/ ReadTop(w) \/ Reserve(w)
         \/ RemoveStale(w) /\ mine[w].stale = "seqlock"
         \/ lock'["seqlock"] = lock["seqlock"]
<1>1. lock \in [Lock -> Writer \cup {Free, Dead}] /\ "seqlock" \in Lock
  BY DEF LogTypeOK, Lock
<1>2. \A l \in {"mkdirlock", "alock"} : Without(l, w)["seqlock"] = lock["seqlock"]
  BY <1>1 DEF Without
<1>3. Family(w) \in {"mkdirlock", "alock"}
  BY DEF Family
<1>4. CASE TakeFamily(w) \/ TakeNested(w)
  BY <1>1, <1>3, <1>4 DEF TakeFamily, TakeNested
<1>5. CASE GiveUp(w) \/ Return(w)
  BY <1>2, <1>3, <1>5 DEF GiveUp, Return
<1>6. CASE RemoveStale(w)
  BY <1>1, <1>6 DEF RemoveStale
<1>7. CASE ReadTail(w) \/ Recheck(w)
  BY <1>2, <1>7 DEF ReadTail, Recheck, EndCompaction
<1>8. CASE Begin(w) \/ Check(w) \/ Tick(w) \/ SizeCheck(w) \/ GiveUpNested(w) \/ SeeStale(w) \/ Rotate(w)
  BY <1>8 DEF Begin, Check, Tick, SizeCheck, GiveUpNested, SeeStale, Rotate
<1>9. CASE Replace(w) \/ Create(w) \/ OpenFile(w) \/ Write(w)
  BY <1>9 DEF Replace, Create, OpenFile, Write
<1> QED
  BY <1>4, <1>5, <1>6, <1>7, <1>8, <1>9, ByWhatTheyWrite DEF Rest, Filing

\* Which removal a writer is about to do, and from which base it reserves.
LEMMA StaleAndBase ==
  ASSUME LogTypeOK, NEW w \in Writer, Step(w)
  PROVE  /\ mine'[w].stale \in {None, mine[w].stale} \/ SeeStale(w)
         /\ SeeStale(w) \/ RemoveStale(w) => mine'[w].base = mine[w].base
<1>1. mine \in [Writer -> Local] /\ mine[w] \in Local /\ Blank.stale = None
  BY DEF LogTypeOK, Blank
<1>2. CASE SeeStale(w)
  BY <1>1, <1>2 DEF SeeStale, RemoveStale, Local
<1>3. CASE RemoveStale(w)
  BY <1>1, <1>3 DEF RemoveStale, Local
<1>4. CASE GiveUp(w) \/ Return(w)
  <2>1. mine' = [mine EXCEPT ![w] = Blank]
    BY <1>4 DEF GiveUp, Return
  <2>2. mine'[w].stale = None
    BY <1>1, <2>1
  <2> QED
    BY <1>2, <1>3, <2>2
<1>5. CASE Begin(w)
  <2>1. PICK t \in BOOLEAN : mine' = [mine EXCEPT ![w] = [Blank EXCEPT !.terminal = t]]
    BY <1>5, BeginsBlank DEF LogTypeOK
  <2>2. mine'[w].stale = None
    BY <1>1, <2>1 DEF Blank
  <2> QED
    BY <1>2, <1>3, <2>2
<1>6. CASE Check(w) \/ Tick(w)
  <2>1. mine' = mine \/ Prepare(w, "full") \/ Prepare(w, "done")
    BY <1>6 DEF Check, Tick
  <2>2. mine'[w].stale = mine[w].stale
    BY <2>1, PrepareKeeps
  <2> QED
    BY <1>2, <1>3, <2>2
<1>7. CASE Reserve(w)
  BY <1>2, <1>3, <1>7, ReserveWrites
<1>8. CASE TakeFamily(w) \/ ReadTop(w) \/ ReadTail(w)
  <2>1. mine'[w].stale = mine[w].stale
    BY <1>1, <1>8 DEF TakeFamily, ReadTop, ReadTail, Local
  <2> QED
    BY <1>2, <1>3, <2>1
<1>9. CASE \/ GiveUpNested(w) \/ SizeCheck(w) \/ TakeNested(w) \/ Rotate(w) \/ Replace(w) \/ Recheck(w)
           \/ Create(w)
  <2>1. mine' = mine
    BY <1>9 DEF GiveUpNested, SizeCheck, TakeNested, Rotate, Replace, Recheck, Create
  <2> QED
    BY <1>2, <1>3, <2>1
<1>10. CASE OpenFile(w) \/ Write(w)
  <2>1. mine'[w].stale = mine[w].stale
    BY <1>1, <1>10 DEF OpenFile, Write, Local
  <2> QED
    BY <1>2, <1>3, <2>1
<1> QED
  BY <1>2, <1>3, <1>4, <1>5, <1>6, <1>7, <1>8, <1>9, <1>10, ByWhatTheyWrite DEF Rest, Filing

\* The other local variables: nobody's but the writer's own.
LEMMA OthersKeep ==
  ASSUME LogTypeOK, Untouched, Numbered, NEW w \in Writer, Step(w)
  PROVE  \A v \in Writer \ {w} : mine'[v] = mine[v]
<1>1. counter[Home[w]] <= stored
  BY DEF Numbered, EventLogAssumption
<1> QED
  BY <1>1, MineKeeps, ReserveWrites, ByWhatTheyWrite

\* Only a reservation advances the sidecar.
LEMMA StoredChanges ==
  ASSUME NEW w \in Writer, Step(w), ~Reserve(w)
  PROVE  stored' = stored /\ counter' = counter
<1>1. CASE Filing(w)
  BY <1>1 DEF Filing, Replace, Recheck, Create, OpenFile, Write
<1> QED
  BY <1>1, RestKeeps, ByWhatTheyWrite

\* A step keeps SeqLockHeld: taken when free, kept until the sidecar is
\* advanced, removed under its holder's feet only if that one is dead.
LEMMA SeqLockKept ==
  ASSUME SeqInv, NEW w \in Writer, Step(w)
  PROVE  SeqLockHeld'
<1> USE DEF SeqInv
<1>1. /\ setting' = setting /\ \A v \in Writer \ {w} : pc'[v] = pc[v]
      /\ \A v \in Writer \ {w} : mine'[v] = mine[v]
  BY OthersStay, OthersKeep
<1>2. Free \notin Writer /\ Dead \notin Writer /\ Free # Dead /\ None # "seqlock"
  BY DEF EventLogAssumption, None
<1>3. lock \in [Lock -> Writer \cup {Free, Dead}] /\ "seqlock" \in Lock /\ mine \in [Writer -> Local]
  BY DEF LogTypeOK, Lock
<1>4. \A u, v \in setting.reclaimers : u = v
  BY DEF LogTypeOK, EventLogAssumption
<1>5. CASE ReadTop(w)
  <2>1. lock["seqlock"] = Free /\ mine[w].stale = None
    BY <1>5 DEF ReadTop, Vacant, Wants
  <2>2. \A v \in Writer : pc[v] # "persist" /\ mine[v].stale # "seqlock"
    BY <1>2, <2>1 DEF SeqLockHeld
  <2>3. lock'["seqlock"] = w /\ stored' = stored
    BY <1>3, <1>5 DEF ReadTop
  <2>4. mine'[w].stale = None /\ mine'[w].base = LastGiven
    <3>1. counter[Home[w]] <= stored
      BY DEF Numbered, EventLogAssumption
    <3>2. mine' = [mine EXCEPT ![w].base = LastGiven]
      BY <1>5, <3>1, BaseIsLast DEF ReadTop
    <3> QED
      BY <1>3, <2>1, <3>2 DEF Local
  <2>5. LastGiven' = LastGiven
    BY <2>3 DEF LastGiven
  <2> QED
    BY <1>1, <1>2, <2>2, <2>3, <2>4, <2>5 DEF SeqLockHeld
<1>6. CASE Reserve(w)
  <2>1. lock["seqlock"] = w
    BY <1>6 DEF Reserve, SeqLockHeld
  <2>2. \A v \in Writer : mine[v].stale # "seqlock" /\ (pc[v] = "persist" => v = w)
    BY <1>2, <2>1 DEF SeqLockHeld
  <2>3. pc'[w] # "persist" /\ mine'[w].stale = mine[w].stale
    BY <1>6, ReserveWrites DEF Reserve, LogTypeOK
  <2> QED
    BY <1>1, <2>2, <2>3 DEF SeqLockHeld
<1>7. CASE RemoveStale(w) /\ mine[w].stale = "seqlock"
  <2>1. lock["seqlock"] = Dead /\ w \in setting.reclaimers
    BY <1>7 DEF SeqLockHeld
  <2>2. \A v \in Writer : pc[v] # "persist" /\ (mine[v].stale = "seqlock" => v = w)
    BY <1>2, <1>4, <2>1 DEF SeqLockHeld
  <2>3. mine'[w].stale = None /\ pc' = pc
    BY <1>3, <1>7 DEF RemoveStale, Local
  <2> QED
    BY <1>1, <1>2, <2>2, <2>3 DEF SeqLockHeld
<1>8. CASE ~ReadTop(w) /\ ~Reserve(w) /\ lock'["seqlock"] = lock["seqlock"]
  <2>1. stored' = stored /\ LastGiven' = LastGiven
    BY <1>8, StoredChanges DEF LastGiven
  <2>2. pc'[w] = "persist" => lock'["seqlock"] = w /\ mine'[w].base = LastGiven'
    BY <1>8, <2>1, OnlyReadTopPersists, StaleAndBase DEF SeqLockHeld
  <2>3. mine'[w].stale = "seqlock" => w \in setting'.reclaimers /\ lock'["seqlock"] = Dead
    <3>1. CASE SeeStale(w)
      <4>1. mine'[w].stale = Wants(w)
        BY <1>3, <3>1 DEF SeeStale, Local
      <4> QED
        BY <1>1, <1>8, <3>1, <4>1 DEF SeeStale
    <3>2. CASE mine'[w].stale \in {None, mine[w].stale}
      BY <1>1, <1>2, <1>8, <3>2 DEF SeqLockHeld
    <3> QED
      BY <3>1, <3>2, StaleAndBase
  <2>4. \A v \in Writer \ {w} :
          /\ pc'[v] = "persist" => lock'["seqlock"] = v /\ mine'[v].base = LastGiven'
          /\ mine'[v].stale = "seqlock" => v \in setting'.reclaimers /\ lock'["seqlock"] = Dead
    BY <1>1, <1>8, <2>1 DEF SeqLockHeld
  <2> QED
    BY <2>2, <2>3, <2>4 DEF SeqLockHeld
<1> QED
  BY <1>5, <1>6, <1>7, <1>8, SeqLockChanges

-----------------------------------------------------------------------------
(* The numbers. *)

\* Until the first reservation nothing is written, rotated or compacted.
LEMMA UntouchedKept ==
  ASSUME SeqInv, NEW w \in Writer, Step(w)
  PROVE  Untouched'
<1> USE DEF SeqInv
<1>1. /\ setting' = setting /\ \A v \in Writer \ {w} : pc'[v] = pc[v]
      /\ \A v \in Writer \ {w} : mine'[v] = mine[v]
  BY OthersStay, OthersKeep
<1>2. mine \in [Writer -> Local] /\ pc \in [Writer -> Pc] /\ stored \in Nat /\ setting.maxSize \in Nat \ {0}
  BY DEF LogTypeOK, EventLogAssumption
<1>3. CASE Reserve(w)
  <2>1. mine[w].base \in Nat /\ stored' = mine[w].base + Count(w) /\ Count(w) \in Nat \ {0}
    BY <1>3, ReserveWrites DEF LogTypeOK, Local
  <2> QED
    BY <2>1 DEF Untouched
<1>4. CASE ~Reserve(w) /\ stored = 0
  <2>1. /\ files = <<<<Birth>>>> /\ live = 1 /\ ~mine[w].over /\ pc[w] \in Early(w)
        /\ \A v \in Writer : ~mine[v].over /\ pc[v] \in Early(v)
    BY <1>4 DEF Untouched
  <2>2. Size = 1
    BY <1>4, TopOfBirth
  <2>3. /\ files' = files /\ live' = live /\ ~mine'[w].over /\ pc'[w] \in Early(w)
    <3>1. CASE Begin(w)
      <4>1. PICK t \in BOOLEAN : mine' = [mine EXCEPT ![w] = [Blank EXCEPT !.terminal = t]]
        BY <3>1, BeginsBlank DEF LogTypeOK
      <4>2. ~mine'[w].over
        BY <1>2, <4>1 DEF Blank
      <4> QED
        BY <1>2, <3>1, <4>2 DEF Begin, logVars, Early
    <3>2. CASE TakeFamily(w)
      <4> DEFINE over == Size > setting.maxSize
      <4>0. over = FALSE
        BY <1>2, <2>2
      <4>1. mine' = [mine EXCEPT ![w].over = FALSE]
        <5>1. mine' = [mine EXCEPT ![w].over = over]
          BY <3>2 DEF TakeFamily
        <5> HIDE DEF over
        <5> QED
          BY <4>0, <5>1
      <4>2. ~mine'[w].over
        BY <1>2, <4>1 DEF Local
      <4> QED
        BY <1>2, <3>2, <4>2 DEF TakeFamily, logVars, Early
    <3>3. CASE GiveUp(w)
      <4>1. mine' = [mine EXCEPT ![w] = Blank]
        BY <3>3 DEF GiveUp
      <4>2. ~mine'[w].over
        BY <1>2, <4>1 DEF Blank
      <4> QED
        BY <1>2, <3>3, <4>2 DEF GiveUp, logVars, Early
    <3>4. CASE ReadTop(w)
      <4>1. /\ files' = files /\ live' = live /\ pc' = [pc EXCEPT ![w] = "persist"]
            /\ \E b : mine' = [mine EXCEPT ![w].base = b]
        BY <3>4 DEF ReadTop, logVars
      <4>2. mine'[w].over = mine[w].over
        BY <1>2, <4>1 DEF Local
      <4> QED
        BY <1>2, <2>1, <4>1, <4>2 DEF Early
    <3>5. CASE SeeStale(w) \/ RemoveStale(w)
      <4>1. /\ files' = files /\ live' = live /\ pc' = pc
            /\ \E s : mine' = [mine EXCEPT ![w].stale = s]
        BY <3>5 DEF SeeStale, RemoveStale, logVars
      <4>2. mine'[w].over = mine[w].over
        BY <1>2, <4>1 DEF Local
      <4> QED
        BY <2>1, <4>1, <4>2
    <3>6. CASE Check(w)
      <4>1. Buffered(w)
        BY <2>1, <3>6 DEF Check, Early
      <4> DEFINE over == IF Sync(w) THEN mine[w].over ELSE Size > setting.maxSize
      <4>2. ~over
        BY <1>2, <2>1, <2>2
      <4>3. /\ files' = files /\ live' = live
            /\ IF over /\ ~mine[w].terminal
                 THEN Prepare(w, "full")
                 ELSE /\ pc' = [pc EXCEPT ![w] = IF Buffered(w) THEN "reserve"
                                                 ELSE IF Sync(w) THEN "size"
                                                 ELSE IF over THEN "tick" ELSE "open"]
                      /\ UNCHANGED mine
        BY <3>6 DEF Check, logVars
      <4> HIDE DEF over
      <4>4. pc' = [pc EXCEPT ![w] = "reserve"] /\ mine' = mine
        BY <4>1, <4>2, <4>3
      <4> QED
        BY <1>2, <2>1, <4>1, <4>3, <4>4 DEF Early
    <3>7. CASE Filing(w) \/ Tick(w) \/ SizeCheck(w) \/ Return(w)
      BY <2>1, <3>7 DEF Filing, Replace, Recheck, Create, OpenFile, Write, Tick, SizeCheck, Return, Early
    <3>8. CASE GiveUpNested(w) \/ TakeNested(w) \/ ReadTail(w) \/ Rotate(w)
      BY <2>1, <3>8 DEF GiveUpNested, TakeNested, ReadTail, Rotate, Early
    <3> QED
      BY <1>4, <3>1, <3>2, <3>3, <3>4, <3>5, <3>6, <3>7, <3>8, ByWhatTheyWrite DEF Rest
  <2>4. \A v \in Writer : Early(v)' = Early(v)
    BY <1>1 DEF Early, Buffered
  <2> QED
    BY <1>1, <2>1, <2>3, <2>4 DEF Untouched
<1>5. CASE ~Reserve(w) /\ stored # 0
  BY <1>5, StoredChanges DEF Untouched
<1> QED
  BY <1>3, <1>4, <1>5

\* A reservation gives away numbers above all known ones; no other step gives any.
LEMMA NumberedKept ==
  ASSUME SeqInv, NEW w \in Writer, Step(w)
  PROVE  Numbered'
<1> USE DEF SeqInv
<1>1. counter[Home[w]] <= stored
  BY DEF Numbered, EventLogAssumption
<1>2. CASE Rest(w) \/ Filing(w)
  <2>1. Written' \subseteq Known
    BY <1>2, RestKeeps, FilingKeeps, OwnBuffers
  <2>2. Known' \subseteq Known
    BY <1>1, <1>2, <2>1, MineKeeps, NothingNew
  <2>3. counter' = counter /\ stored' = stored
    BY <1>2, RestKeeps DEF Filing, Replace, Recheck, Create, OpenFile, Write
  <2>4. LastGiven' = LastGiven
    BY <2>3 DEF LastGiven
  <2> QED
    BY <2>2, <2>3, <2>4 DEF Numbered
<1>3. CASE Reserve(w)
  <2> DEFINE n == Count(w)
             new == {[by |-> w, nth |-> made[w], seq |-> mine[w].base + k] : k \in 1 .. n}
  <2>1. mine[w].base = LastGiven /\ LastGiven \in Nat \ {0} /\ stored \in Nat /\ stored <= LastGiven
    BY <1>3 DEF Reserve, SeqLockHeld, LastGiven, LogTypeOK
  <2>2. /\ \A v \in Writer \ {w} : mine'[v] = mine[v]
        /\ mine'[w].kept = mine[w].kept /\ mine'[w].tail = mine[w].tail
        /\ ToSet(mine'[w].events) = new /\ n \in Nat \ {0}
        /\ stored' = LastGiven + n /\ counter' = [counter EXCEPT ![Home[w]] = stored']
    BY <1>3, <2>1, ReserveWrites
  <2>3. Known' \subseteq Known \cup new
    <3>1. Written' = Written
      BY <1>3 DEF Reserve, logVars, Written
    <3>2. \A v \in Writer : Buffers(v)' \subseteq Buffers(v) \cup new
      <4> HIDE DEF new
      <4> QED
        BY <2>2 DEF Buffers
    <3> HIDE DEF new
    <3> QED
      BY <3>1, <3>2 DEF Known
  <2>4. LastGiven' = LastGiven + n
    BY <2>1, <2>2 DEF LastGiven
  <2>5. \A e \in new : e.seq \in LastGiven + 1 .. LastGiven + n
    BY <2>1, <2>2
  <2>6. \A e, f \in new : e.seq = f.seq => e = f
    BY <2>1, <2>2
  <2>7. \A e \in Known : e.seq \in 1 .. LastGiven
    BY DEF Numbered
  <2>8. \A e \in Known : \A f \in new : e.seq # f.seq
    BY <2>1, <2>2, <2>5, <2>7
  <2> HIDE DEF n, new
  <2>9. \A e \in Known' : e.seq \in 1 .. LastGiven'
    BY <2>1, <2>2, <2>3, <2>4, <2>5, <2>7
  <2>10. \A e, f \in Known' : e.seq = f.seq => e = f
    BY <2>3, <2>6, <2>8 DEF Numbered
  <2>11. \A p \in Process : counter'[p] <= stored'
    <3>1. counter \in [Process -> Nat] /\ \A p \in Process : counter[p] <= stored
      BY DEF LogTypeOK, Numbered
    <3> QED
      BY <2>1, <2>2, <3>1
  <2> QED
    BY <2>9, <2>10, <2>11 DEF Numbered
<1> QED
  BY <1>2, <1>3, ByWhatTheyWrite

-----------------------------------------------------------------------------
(* The whole. *)

LEMMA SeqInvInit == Init => SeqInv
<1> SUFFICES ASSUME Init PROVE SeqInv
  OBVIOUS
<1> USE DEF Init
<1>1. Blank \in Local /\ Blank.fd = 0 /\ Blank.stale = None /\ ~Blank.over
  BY BlankIsLocal DEF Blank
<1>2. Birth \in Event /\ Birth.seq = 1
  BY DEF Birth, Event
<1>3. files \in Seq(Seq(Event)) /\ Len(files) = 1 /\ files[1] = <<Birth>>
  BY <1>2
<1>4. ToSet(<<Birth>>) = {Birth} /\ ToSet(<< >>) = {}
  BY DEF ToSet
<1>5. LogTypeOK
  BY <1>1, <1>2, <1>3 DEF LogTypeOK, Pc, Resting
<1>6. SeqLockHeld
  BY <1>1 DEF SeqLockHeld, None
<1>7. Untouched
  BY <1>1 DEF Untouched, Early
<1>8. Known = {Birth}
  <2>1. Written = {Birth}
    BY <1>3, <1>4 DEF Written
  <2>2. \A w \in Writer : Buffers(w) = {}
    BY <1>4 DEF Buffers, Blank
  <2> QED
    BY <2>1, <2>2 DEF Known
<1>9. Numbered
  <2>1. \A p \in Process : counter[p] <= stored
    OBVIOUS
  <2>2. LastGiven = 1
    BY DEF LastGiven
  <2> QED
    BY <1>2, <1>8, <2>1, <2>2 DEF Numbered
<1> QED
  BY <1>5, <1>6, <1>7, <1>9 DEF SeqInv

\* A process that is killed leaves its locks, and nothing else changes.
LEMMA KillKeeps ==
  ASSUME SeqInv, NEW p \in Process, Kill(p)
  PROVE  SeqInv'
<1> USE DEF SeqInv, Kill, logVars
<1>1. LogTypeOK'
  BY DEF LogTypeOK, Pc, Resting
<1>2. SeqLockHeld'
  <2>1. \A w \in Writer : pc'[w] = "persist" => pc[w] = "persist" /\ Home[w] # p
    OBVIOUS
  <2>2. "seqlock" \in Lock /\ Dead \notin Writer /\ LastGiven' = LastGiven
    BY DEF Lock, EventLogAssumption, LastGiven
  <2> QED
    BY <2>1, <2>2 DEF SeqLockHeld
<1>3. Untouched'
  BY DEF Untouched, Early, Buffered
<1>4. Numbered'
  <2>1. Known' = Known /\ LastGiven' = LastGiven
    BY DEF Known, Written, Buffers, LastGiven
  <2> QED
    BY <2>1 DEF Numbered
<1> QED
  BY <1>1, <1>2, <1>3, <1>4

\* A step that touches at most the reader.
LEMMA CursorOnly ==
  ASSUME SeqInv, Read \/ Finished \/ UNCHANGED vars
  PROVE  SeqInv'
<1>1. UNCHANGED <<setting, pc, mine, lock, stored, counter, files, live, archives, pruned, accepted, made>>
  BY DEF Read, Finished, vars, logVars
<1>2. LogTypeOK'
  BY <1>1 DEF SeqInv, LogTypeOK
<1>3. SeqLockHeld' /\ Untouched'
  BY <1>1 DEF SeqInv, SeqLockHeld, Untouched, LastGiven, Early, Buffered
<1>4. Known' = Known /\ LastGiven' = LastGiven
  BY <1>1 DEF Known, Written, Buffers, LastGiven
<1> QED
  BY <1>1, <1>2, <1>3, <1>4 DEF SeqInv, Numbered

LEMMA SeqInvNext == SeqInv /\ [Next]_vars => SeqInv'
<1> SUFFICES ASSUME SeqInv, [Next]_vars PROVE SeqInv'
  OBVIOUS
<1>1. ASSUME NEW w \in Writer, Step(w) PROVE SeqInv'
  <2>1. counter[Home[w]] <= stored
    BY DEF SeqInv, Numbered, EventLogAssumption
  <2> QED
    BY <1>1, <2>1, TypeKept, SeqLockKept, UntouchedKept, NumberedKept DEF SeqInv
<1>2. ASSUME NEW p \in Process, Kill(p) PROVE SeqInv'
  BY <1>2, KillKeeps
<1>3. CASE Read \/ Finished \/ UNCHANGED vars
  BY <1>3, CursorOnly
<1> QED
  BY <1>1, <1>2, <1>3 DEF Next

\* Whatever the processes, families, stolen locks and kills: the state has its
\* type, and the reservation discipline holds.
THEOREM Reservations == Spec => []SeqInv
BY SeqInvInit, SeqInvNext, PTL DEF Spec

\* No two events in the files of the log, live, archived or replaced, have the
\* same sequence number.
THEOREM SeqNumbersUnique == Spec => []SeqUnique
<1>1. SeqInv => SeqUnique
  BY DEF SeqInv, Numbered, SeqUnique, Known
<1> QED
  BY <1>1, Reservations, PTL

-----------------------------------------------------------------------------
(* The reader's cursor. *)

CursorOK ==
  /\ cursor \in [since : Nat, got : SUBSET Event, reading : BOOLEAN, seen : SUBSET Event]
  /\ \E n \in Nat : \A e \in cursor.seen : e.seq <= n

LEMMA CursorKept ==
  ASSUME SeqInv, CursorOK, [Next]_vars
  PROVE  CursorOK'
<1>1. CASE cursor' = cursor
  BY <1>1 DEF CursorOK
<1>2. CASE ReadLive
  <2>1. cursor' = [cursor EXCEPT !.reading = TRUE, !.seen = Later(ToSet(Content(live)))]
    BY <1>2 DEF ReadLive
  <2>2. ToSet(Content(live)) \subseteq Known /\ ToSet(Content(live)) \subseteq Event
    <3>1. Content(live) \in Seq(Event) /\ ToSet(Content(live)) \subseteq Written
      BY LiveContent DEF SeqInv
    <3>2. Written \subseteq Known
      BY DEF Known
    <3> QED
      BY <3>1, <3>2 DEF ToSet
  <2>3. Later(ToSet(Content(live))) \subseteq ToSet(Content(live))
    BY DEF Later
  <2>4. LastGiven \in Nat /\ \A e \in ToSet(Content(live)) : e.seq <= LastGiven
    BY <2>2 DEF SeqInv, Numbered, LastGiven, LogTypeOK
  <2>5. cursor' \in [since : Nat, got : SUBSET Event, reading : BOOLEAN, seen : SUBSET Event]
    BY <2>1, <2>2, <2>3 DEF CursorOK
  <2>6. cursor'.seen = Later(ToSet(Content(live)))
    BY <2>1 DEF CursorOK
  <2> QED
    BY <2>3, <2>4, <2>5, <2>6 DEF CursorOK
<1>3. CASE ReadArchives
  <2> DEFINE found == cursor.seen \cup Later(InArchives)
             batch == {e \in found : Cardinality({f \in found : f.seq < e.seq}) < setting.reads}
             T == {e.seq : e \in batch} \cup {cursor.since}
  <2>1. cursor' = [since |-> Max(T), got |-> cursor.got \cup batch, reading |-> FALSE, seen |-> {}]
    BY <1>3 DEF ReadArchives
  <2>2. InArchives \subseteq Written /\ Written \subseteq Event
    <3>1. archives \subseteq 1 .. Len(files) /\ files \in Seq(Seq(Event))
      BY DEF SeqInv, LogTypeOK
    <3>2. \A i \in 1 .. Len(files) : ToSet(files[i]) \subseteq Event
      <4> TAKE i \in 1 .. Len(files)
      <4>1. files[i] \in Seq(Event)
        BY <3>1
      <4> QED
        BY <4>1 DEF ToSet
    <3> QED
      BY <3>1, <3>2 DEF InArchives, Written
  <2>3. found \subseteq Event /\ batch \subseteq found
    BY <2>2 DEF Later, CursorOK
  <2>4. PICK n \in Nat : \A e \in cursor.seen : e.seq <= n
    BY DEF CursorOK
  <2>5. LastGiven \in Nat /\ \A e \in Later(InArchives) : e.seq <= LastGiven
    <3>1. \A e \in Known : e.seq \in 1 .. LastGiven
      BY DEF SeqInv, Numbered
    <3>2. Later(InArchives) \subseteq Known
      BY <2>2 DEF Known, Later
    <3>3. LastGiven \in Nat
      BY DEF SeqInv, LastGiven, LogTypeOK
    <3> QED
      BY <3>1, <3>2, <3>3
  <2>6. cursor.since \in Nat
    BY DEF CursorOK
  <2>7. \A e \in found : e.seq \in 0 .. n + LastGiven + cursor.since
    <3>1. \A e \in found : e.seq \in Nat
      BY <2>3 DEF Event
    <3> QED
      BY <2>4, <2>5, <2>6, <3>1
  <2>8. T \subseteq 0 .. n + LastGiven + cursor.since /\ T # {}
    <3>1. \A e \in batch : e.seq \in 0 .. n + LastGiven + cursor.since
      BY <2>3, <2>7
    <3>2. cursor.since \in 0 .. n + LastGiven + cursor.since
      BY <2>4, <2>5, <2>6
    <3> HIDE DEF batch
    <3> QED
      BY <3>1, <3>2
  <2> HIDE DEF T
  <2>9. Max(T) \in Nat
    <3>1. n + LastGiven + cursor.since \in Nat
      BY <2>5, <2>6
    <3>2. PICK b \in Nat : T \subseteq 0 .. b
      BY <2>8, <3>1
    <3>3. Max(T) \in T
      BY <2>8, <3>2, MaxOfBounded
    <3>4. 0 .. b \subseteq Nat
      OBVIOUS
    <3> HIDE DEF T
    <3> QED
      BY <3>2, <3>3, <3>4
  <2> HIDE DEF batch, found
  <2> QED
    BY <2>1, <2>3, <2>9 DEF CursorOK
<1> QED
  <2>1. ASSUME NEW w \in Writer, Step(w) PROVE cursor' = cursor
    BY <2>1, ByWhatTheyWrite DEF Rest, Filing, Reserve, Begin, TakeFamily, GiveUp, ReadTop, Check, Tick,
       SizeCheck, Return, GiveUpNested, SeeStale, RemoveStale, TakeNested, ReadTail, Rotate, Replace,
       Recheck, Create, OpenFile, Write
  <2> QED
    BY <1>1, <1>2, <1>3, <2>1 DEF Next, Kill, Read, Finished, vars

\* Whatever the processes, families, stolen locks and kills: the state has its type.
THEOREM EventTypeOK == Spec => []TypeOK
<1>1. Init => CursorOK
  <2> SUFFICES ASSUME Init PROVE CursorOK
    OBVIOUS
  <2>1. cursor = [since |-> 0, got |-> {}, reading |-> FALSE, seen |-> {}]
    BY DEF Init
  <2>2. cursor.seen = {} /\ 0 \in Nat
    BY <2>1
  <2>3. \E n \in Nat : \A e \in cursor.seen : e.seq <= n
    BY <2>2
  <2> QED
    BY <2>1, <2>3 DEF CursorOK
<1>2. SeqInv /\ CursorOK /\ [Next]_vars => CursorOK'
  BY CursorKept
<1>3. SeqInv /\ CursorOK => TypeOK
  BY DEF SeqInv, CursorOK, TypeOK
<1> QED
  BY <1>1, <1>2, <1>3, Reservations, PTL DEF Spec

-----------------------------------------------------------------------------
(* Whose events the files hold. *)

Events(w) == ToSet(mine[w].events)
Copies(w) == ToSet(mine[w].kept) \cup ToSet(mine[w].tail)
Compacting(w) == pc[w] \in {"nested", "tail", "rename"}
NoRepeat(s) == \A i, j \in 1 .. Len(s) : s[i] = s[j] => i = j

\* Where a writer can stand that has written its events.
Late(w) == \/ pc[w] \in {"dead", "tick", "done"}
           \/ pc[w] \in {"nested", "tail", "rename", "recheck"} /\ mine[w].stage = "done"

\* An event is in no file before its writer writes it, and in one from then on.
OwnPart(w) ==
  /\ pc[w] = "wait" => mine[w].events = << >>
  /\ mine[w].wrote => Late(w)
  /\ \A e \in Events(w) : e.by = w
  /\ NoRepeat(mine[w].events)
  /\ Copies(w) \subseteq Written
  /\ IF mine[w].wrote THEN Events(w) \subseteq Written ELSE Events(w) \cap Written = {}
  /\ pc[w] = "write" => mine[w].fd # 0

OwnEvents == /\ \A w \in Writer : OwnPart(w)
             /\ accepted \subseteq Written
             /\ live \notin archives

\* Until a compaction leaves something out, every inode has a name, and a
\* compaction under way is about to leave something out.
Uncompacted ==
  pruned = {} =>
    /\ 1 .. Len(files) \subseteq archives \cup {live}
    /\ \A i \in 1 .. Len(files) : NoRepeat(files[i])
    /\ \A w \in Writer :
         /\ pc[w] # "recheck"
         /\ Compacting(w) => mine[w].seen \ ToSet(mine[w].kept) # {}

\* A step by what it does to the files and to its writer's own record.
Same(w) == /\ mine'[w].events = mine[w].events /\ mine'[w].wrote = mine[w].wrote
           /\ mine'[w].kept = mine[w].kept /\ mine'[w].tail = mine[w].tail
           /\ mine'[w].fd = mine[w].fd /\ mine'[w].seen = mine[w].seen
           /\ mine'[w].size = mine[w].size /\ mine'[w].stage = mine[w].stage
Clears(w) == /\ pc'[w] \in {"idle", "wait"} /\ UNCHANGED logVars
             /\ mine'[w].events = << >> /\ ~mine'[w].wrote
             /\ mine'[w].kept = << >> /\ mine'[w].tail = << >>
             /\ accepted' = IF pc[w] = "done" /\ mine[w].wrote THEN accepted \cup Events(w) ELSE accepted
Moves(w) == /\ Same(w) /\ UNCHANGED <<logVars, accepted>>
            /\ \/ pc' = pc
               \/ /\ pc'[w] \notin {"idle", "wait", "recheck", "rename", "dead"}
                  /\ Compacting(w)' => Compacting(w)
                  /\ pc'[w] # "write"
Prepares(w) ==
  /\ pc[w] \in {"check", "tick"} /\ pc'[w] \in {"nested", "tail"}
  /\ pc[w] = "tick" => mine'[w].stage = "done"
  /\ UNCHANGED <<logVars, accepted>> /\ Size > setting.keep
  /\ mine'[w].events = mine[w].events /\ mine'[w].wrote = mine[w].wrote /\ mine'[w].tail = mine[w].tail
  /\ mine'[w].size = Size /\ mine'[w].seen = ToSet(Content(live))
  /\ mine'[w].kept = SubSeq(Content(live), Size - setting.keep + 1, Size)
ReadsTail(w) ==
  /\ pc[w] = "tail" /\ pc'[w] = "rename" /\ UNCHANGED <<logVars, accepted>>
  /\ mine'[w].tail = SubSeq(Content(live), mine[w].size + 1, Size)
  /\ mine'[w].events = mine[w].events /\ mine'[w].wrote = mine[w].wrote
  /\ mine'[w].kept = mine[w].kept /\ mine'[w].fd = mine[w].fd /\ mine'[w].seen = mine[w].seen
  /\ mine'[w].size = mine[w].size /\ mine'[w].stage = mine[w].stage
Rotates(w) == /\ pc[w] = "full" /\ pc'[w] = "create" /\ Same(w)
              /\ live # 0 /\ live' = 0 /\ archives' = archives \cup {live}
              /\ UNCHANGED <<files, pruned, accepted>>
Opens(w) == /\ OpenLive /\ UNCHANGED <<archives, pruned, accepted>>
            /\ mine'[w].events = mine[w].events /\ mine'[w].wrote = mine[w].wrote
            /\ mine'[w].kept = mine[w].kept /\ mine'[w].tail = mine[w].tail
            /\ \/ pc[w] = "create" /\ pc'[w] \in {"reserve", "size"}
               \/ pc[w] = "open" /\ pc'[w] = "write" /\ mine'[w].fd = live'

\* A step is of one of these kinds, or one of the writes named in the code.
LEMMA Shapes ==
  ASSUME LogTypeOK, NEW w \in Writer, Step(w)
  PROVE  \/ Clears(w) \/ Moves(w) \/ Prepares(w) \/ ReadsTail(w) \/ Rotates(w) \/ Opens(w)
         \/ Reserve(w) \/ Replace(w) \/ Recheck(w) \/ Write(w)
<1>1. /\ mine \in [Writer -> Local] /\ mine[w] \in Local /\ pc \in [Writer -> Pc]
      /\ mine[w].stage \in {"full", "done"}
  BY DEF LogTypeOK, Local
<1>2. CASE GiveUp(w) \/ Return(w)
  <2>1. mine' = [mine EXCEPT ![w] = Blank] /\ pc' = [pc EXCEPT ![w] = "idle"] /\ UNCHANGED logVars
    BY <1>2 DEF GiveUp, Return
  <2>2. /\ mine'[w].events = << >> /\ ~mine'[w].wrote
        /\ mine'[w].kept = << >> /\ mine'[w].tail = << >>
    BY <1>1, <2>1 DEF Blank
  <2>3. accepted' = IF pc[w] = "done" /\ mine[w].wrote THEN accepted \cup Events(w) ELSE accepted
    BY <1>2 DEF GiveUp, Return, Events
  <2> QED
    BY <1>1, <2>1, <2>2, <2>3 DEF Clears
<1>3. CASE Begin(w)
  <2>1. PICK t \in BOOLEAN : mine' = [mine EXCEPT ![w] = [Blank EXCEPT !.terminal = t]]
    BY <1>3, BeginsBlank DEF LogTypeOK
  <2>2. /\ mine'[w].events = << >> /\ ~mine'[w].wrote
        /\ mine'[w].kept = << >> /\ mine'[w].tail = << >>
    BY <1>1, <2>1 DEF Blank
  <2> QED
    BY <1>1, <1>3, <2>2 DEF Begin, Clears
<1>4. CASE TakeFamily(w) \/ ReadTop(w)
  <2>1. (\E x : mine' = [mine EXCEPT ![w].over = x]) \/ (\E x : mine' = [mine EXCEPT ![w].base = x])
    BY <1>4 DEF TakeFamily, ReadTop
  <2>2. Same(w)
    BY <1>1, <2>1 DEF Same, Local
  <2>3. /\ pc'[w] \in {"check", "reserve", "persist"} /\ UNCHANGED <<logVars, accepted>>
    BY <1>1, <1>4 DEF TakeFamily, ReadTop
  <2> QED
    BY <2>2, <2>3 DEF Moves, Compacting
<1>5. CASE SeeStale(w) \/ RemoveStale(w)
  <2>1. PICK x : mine' = [mine EXCEPT ![w].stale = x]
    BY <1>5 DEF SeeStale, RemoveStale
  <2>2. Same(w)
    BY <1>1, <2>1 DEF Same, Local
  <2> QED
    BY <1>5, <2>2 DEF Moves, SeeStale, RemoveStale
<1>6. CASE Check(w) \/ Tick(w)
  <2>1. UNCHANGED <<logVars, accepted>> /\ pc[w] \in {"check", "tick"}
    BY <1>6 DEF Check, Tick
  <2>2. ASSUME NEW s \in {"full", "done"}, Prepare(w, s), pc[w] = "tick" => s = "done", Size > setting.keep
        PROVE  Prepares(w)
    <3>1. /\ pc'[w] \in {"nested", "tail"}
          /\ mine' = [mine EXCEPT
                         ![w].stage = s, ![w].size = Size,
                         ![w].seen = ToSet(Content(live)),
                         ![w].kept = SubSeq(Content(live), Size - setting.keep + 1, Size)]
      BY <1>1, <2>2 DEF Prepare
    <3>2. /\ mine'[w].events = mine[w].events /\ mine'[w].wrote = mine[w].wrote /\ mine'[w].tail = mine[w].tail
          /\ mine'[w].size = Size /\ mine'[w].seen = ToSet(Content(live)) /\ mine'[w].stage = s
          /\ mine'[w].kept = SubSeq(Content(live), Size - setting.keep + 1, Size)
      BY <1>1, <3>1 DEF Local
    <3> QED
      BY <2>1, <2>2, <3>1, <3>2 DEF Prepares
  <2>3. \/ \E s \in {"full", "done"} : Prepare(w, s) /\ (pc[w] = "tick" => s = "done") /\ Size > setting.keep
        \/ mine' = mine /\ pc'[w] \in {"full", "done", "reserve", "size", "tick", "open"}
    BY <1>1, <1>6 DEF Check, Tick, Prepare
  <2> QED
    BY <2>1, <2>2, <2>3 DEF Moves, Same, Compacting
<1>7. CASE GiveUpNested(w) \/ SizeCheck(w) \/ TakeNested(w)
  <2>1. mine' = mine /\ UNCHANGED <<logVars, accepted>>
    BY <1>7 DEF GiveUpNested, SizeCheck, TakeNested
  <2>2. /\ pc'[w] \in {"full", "done", "open", "tick", "tail"}
        /\ pc'[w] = "tail" => pc[w] = "nested"
    BY <1>1, <1>7 DEF GiveUpNested, SizeCheck, TakeNested
  <2> QED
    BY <2>1, <2>2 DEF Moves, Same, Compacting
<1>8. CASE ReadTail(w)
  <2>1. pc[w] = "tail" /\ UNCHANGED <<logVars, accepted>>
    BY <1>8 DEF ReadTail
  <2>2. CASE live # 0 /\ Size < mine[w].size
    <3>1. pc'[w] \in {"full", "done"} /\ mine' = mine
      BY <1>1, <1>8, <2>2 DEF ReadTail, EndCompaction
    <3> QED
      BY <2>1, <3>1 DEF Moves, Same, Compacting
  <2>3. CASE ~(live # 0 /\ Size < mine[w].size)
    <3>1. /\ mine' = [mine EXCEPT ![w].tail = SubSeq(Content(live), mine[w].size + 1, Size)]
          /\ pc'[w] = "rename"
      BY <1>1, <1>8, <2>3 DEF ReadTail
    <3>2. /\ mine'[w].tail = SubSeq(Content(live), mine[w].size + 1, Size)
          /\ mine'[w].events = mine[w].events /\ mine'[w].wrote = mine[w].wrote
          /\ mine'[w].kept = mine[w].kept /\ mine'[w].fd = mine[w].fd /\ mine'[w].seen = mine[w].seen
          /\ mine'[w].size = mine[w].size /\ mine'[w].stage = mine[w].stage
      BY <1>1, <3>1 DEF Local
    <3> QED
      BY <2>1, <3>1, <3>2 DEF ReadsTail
  <2> QED
    BY <2>2, <2>3
<1>9. CASE Rotate(w)
  <2>1. CASE Size > setting.maxSize
    <3>1. live # 0
      BY <2>1, LiveContent DEF LogTypeOK, EventLogAssumption
    <3> QED
      BY <1>1, <1>9, <2>1, <3>1 DEF Rotate, Rotates, Same
  <2>2. CASE ~(Size > setting.maxSize)
    <3>1. pc'[w] \in {"reserve", "size"} /\ mine' = mine /\ UNCHANGED <<logVars, accepted>>
      BY <1>1, <1>9, <2>2 DEF Rotate, AfterFull, logVars
    <3> QED
      BY <3>1 DEF Moves, Same, Compacting
  <2> QED
    BY <2>1, <2>2
<1>10. CASE Create(w)
  BY <1>1, <1>10 DEF Create, Opens, AfterFull
<1>11. CASE OpenFile(w)
  <2>1. mine' = [mine EXCEPT ![w].fd = live']
    BY <1>11 DEF OpenFile
  <2>2. /\ mine'[w].events = mine[w].events /\ mine'[w].wrote = mine[w].wrote
        /\ mine'[w].kept = mine[w].kept /\ mine'[w].tail = mine[w].tail /\ mine'[w].fd = live'
    BY <1>1, <2>1 DEF Local
  <2> QED
    BY <1>1, <1>11, <2>2 DEF OpenFile, Opens
<1> QED
  BY <1>2, <1>3, <1>4, <1>5, <1>6, <1>7, <1>8, <1>9, <1>10, <1>11, ByWhatTheyWrite DEF Rest, Filing

\* An inode that is appended to holds what it held and what is appended.
LEMMA ExtendedFile ==
  ASSUME NEW S, NEW fs \in Seq(Seq(S)), NEW i \in 1 .. Len(fs), NEW c \in Seq(S)
  PROVE  /\ Len(Extended(fs, i, c)) = Len(fs)
         /\ \A j \in 1 .. Len(fs) : Extended(fs, i, c)[j] = IF j = i THEN fs[i] \o c ELSE fs[j]
         /\ ToSet(fs[i] \o c) = ToSet(fs[i]) \cup ToSet(c)
         /\ InFiles(Extended(fs, i, c)) = InFiles(fs) \cup ToSet(c)
<1>1. fs[i] \o c \in Seq(S) /\ ToSet(fs[i] \o c) = ToSet(fs[i]) \cup ToSet(c)
  BY ConcatIsUnion
<1>2. Extended(fs, i, c) \in Seq(Seq(S)) /\ Len(Extended(fs, i, c)) = Len(fs)
  BY <1>1 DEF Extended
<1>3. \A j \in 1 .. Len(fs) : Extended(fs, i, c)[j] = IF j = i THEN fs[i] \o c ELSE fs[j]
  BY DEF Extended
<1> DEFINE ext == Extended(fs, i, c)
<1>4. InFiles(ext) \subseteq InFiles(fs) \cup ToSet(c)
  BY FileExtended
<1>5. \A j \in 1 .. Len(fs) : ToSet(fs[j]) \subseteq ToSet(ext[j])
  BY <1>1, <1>3
<1>6. ToSet(c) \subseteq ToSet(ext[i])
  BY <1>1, <1>3
<1>7. InFiles(ext) = InFiles(fs) \cup ToSet(c)
  <2>0. Len(ext) = Len(fs)
    BY <1>2
  <2> HIDE DEF ext
  <2>1. ToSet(c) \subseteq InFiles(ext)
    BY <2>0, <1>6 DEF InFiles
  <2>2. ASSUME NEW x \in InFiles(fs) PROVE x \in InFiles(ext)
    <3>1. PICK j \in 1 .. Len(fs) : x \in ToSet(fs[j])
      BY DEF InFiles
    <3>2. x \in ToSet(ext[j])
      BY <1>5, <3>1
    <3> QED
      BY <2>0, <3>2 DEF InFiles
  <2> QED
    BY <1>4, <2>1, <2>2
<1> QED
  BY <1>1, <1>2, <1>3, <1>7

\* Once written, always written; and only a write brings new events in.
LEMMA WrittenGrows ==
  ASSUME LogTypeOK, OwnEvents, NEW w \in Writer, Step(w)
  PROVE  /\ Written \subseteq Written'
         /\ IF Write(w) THEN Written' = Written \cup Events(w) ELSE Written' \subseteq Written
<1>1. /\ FilesTyped /\ mine[w] \in Local /\ Copies(w) \subseteq Written
      /\ pc[w] = "write" => mine[w].fd \in 1 .. Len(files)
  BY DEF LogTypeOK, FilesTyped, OwnEvents, OwnPart
<1>2. CASE UNCHANGED files /\ ~Write(w)
  BY <1>2 DEF Written
<1>3. CASE Replace(w)
  <2> DEFINE new == mine[w].kept \o mine[w].tail
  <2>1. new \in Seq(Event) /\ ToSet(new) \subseteq Written
    BY <1>1, ConcatIsUnion DEF Local, Copies
  <2>2. files' = Append(files, new) /\ ~Write(w)
    BY <1>3 DEF Replace, Write
  <2> HIDE DEF new
  <2> QED
    BY <1>1, <2>1, <2>2, FileAdded, WrittenIsInFiles DEF FilesTyped
<1>4. CASE Recheck(w) /\ files' # files
  <2>1. PICK c \in Seq(Event) :
          live # 0 /\ ToSet(c) \subseteq ToSet(mine[w].kept) /\ files' = Extended(files, live, c)
    BY <1>4, RecheckAppends
  <2>2. live \in 1 .. Len(files) /\ ~Write(w)
    BY <1>1, <1>4, <2>1 DEF FilesTyped, Recheck, Write
  <2> QED
    BY <1>1, <2>1, <2>2, ExtendedFile, WrittenIsInFiles DEF FilesTyped, Copies
<1>5. CASE Write(w)
  <2>1. mine[w].events \in Seq(Event) /\ files' = Extended(files, mine[w].fd, mine[w].events)
    BY <1>1, <1>5 DEF Write, Extended, Local
  <2>2. mine[w].fd \in 1 .. Len(files)
    BY <1>1, <1>5 DEF Write
  <2> QED
    BY <1>1, <1>5, <2>1, <2>2, ExtendedFile, WrittenIsInFiles DEF FilesTyped, Events
<1>6. CASE Opens(w)
  BY <1>1, <1>6, OpenLiveKeeps DEF Opens, Write
<1>7. Clears(w) \/ Moves(w) \/ Prepares(w) \/ ReadsTail(w) \/ Rotates(w) \/ Reserve(w) => UNCHANGED files
  BY DEF Clears, Moves, Prepares, ReadsTail, Rotates, Reserve, logVars
<1> QED
  BY <1>2, <1>3, <1>4, <1>5, <1>6, <1>7, Shapes

\* What a reservation leaves alone, and that its events are new.
LEMMA ReserveIsNew ==
  ASSUME SeqInv, NEW w \in Writer, Reserve(w)
  PROVE  /\ UNCHANGED <<logVars, accepted>> /\ pc[w] = "persist" /\ pc'[w] \in {"size", "check"}
         /\ mine'[w].wrote = mine[w].wrote /\ mine'[w].kept = mine[w].kept /\ mine'[w].tail = mine[w].tail
         /\ \A e \in Events(w)' : e.by = w /\ \A f \in Written : f.seq < e.seq
         /\ NoRepeat(mine'[w].events)
<1>1. mine \in [Writer -> Local] /\ mine[w] \in Local /\ pc \in [Writer -> Pc] /\ Count(w) \in Nat \ {0}
  BY ReserveWrites DEF SeqInv, LogTypeOK
<1>2. UNCHANGED <<logVars, accepted>> /\ pc[w] = "persist" /\ pc'[w] \in {"size", "check"}
  BY <1>1 DEF Reserve
<1> DEFINE new == [k \in 1 .. Count(w) |-> [by |-> w, nth |-> made[w], seq |-> (mine[w].base + 1) + k - 1]]
<1>3. mine' = [mine EXCEPT ![w].events = new]
  BY DEF Reserve
<1>4. mine[w].base = LastGiven /\ LastGiven \in Nat
  BY <1>2 DEF SeqInv, SeqLockHeld, LastGiven, LogTypeOK
<1>5. NoRepeat(new)
  <2>1. \A k \in 1 .. Count(w) : new[k].seq = LastGiven + k
    BY <1>1, <1>4
  <2>2. Len(new) = Count(w)
    BY <1>1
  <2> HIDE DEF new
  <2>3. ASSUME NEW i \in 1 .. Count(w), NEW j \in 1 .. Count(w), new[i] = new[j] PROVE i = j
    BY <1>1, <1>4, <2>1, <2>3
  <2> QED
    BY <2>2, <2>3 DEF NoRepeat
<1>6. ASSUME NEW e \in ToSet(new) PROVE e.by = w /\ \A f \in Written : f.seq < e.seq
  <2>1. PICK k \in 1 .. Count(w) : e = new[k]
    BY <1>1 DEF ToSet
  <2>2. e.by = w /\ e.seq = LastGiven + k
    BY <1>1, <1>4, <2>1
  <2>3. \A f \in Written : f.seq \in 1 .. LastGiven
    BY DEF SeqInv, Numbered, Known
  <2> HIDE DEF new
  <2> QED
    BY <1>1, <1>4, <2>2, <2>3
<1> HIDE DEF new
<1>7. /\ mine'[w].events = new /\ mine'[w].wrote = mine[w].wrote
      /\ mine'[w].kept = mine[w].kept /\ mine'[w].tail = mine[w].tail
  BY <1>1, <1>3 DEF Local
<1> QED
  BY <1>2, <1>5, <1>6, <1>7 DEF Events

\* A writer that has written moves on to the end of its call.
LEMMA StaysLate ==
  ASSUME LogTypeOK, NEW w \in Writer, Step(w), Late(w) \/ Write(w), ~Clears(w)
  PROVE  Late(w)'
<1>1. pc \in [Writer -> Pc] /\ mine[w] \in Local /\ mine[w].stage \in {"full", "done"}
  BY DEF LogTypeOK, Local
<1>2. CASE Write(w)
  BY <1>1, <1>2 DEF Write, Late
<1> SUFFICES ASSUME Late(w) PROVE Late(w)'
  BY <1>2
<1>3. CASE Replace(w) \/ Recheck(w)
  BY <1>1, <1>3 DEF Replace, Recheck, EndCompaction, Late
<1>4. CASE Prepares(w) \/ ReadsTail(w)
  BY <1>4 DEF Prepares, ReadsTail, Late
<1>5. CASE Rotates(w) \/ Opens(w) \/ Reserve(w)
  BY <1>5 DEF Rotates, Opens, Reserve, Late
<1>6. CASE Moves(w)
  <2>1. CASE pc' = pc
    BY <1>6, <2>1 DEF Moves, Same, Late
  <2>2. pc[w] \in {"tick", "done", "nested", "tail", "rename", "recheck"}
    BY <1>6 DEF Late, Step, MayRun
  <2>3. CASE Tick(w)
    BY <1>1, <1>6, <2>3 DEF Tick, Prepare, Moves, Compacting, Late
  <2>4. CASE SeeStale(w) \/ RemoveStale(w)
    BY <1>6, <2>1, <2>4 DEF SeeStale, RemoveStale
  <2>5. CASE TakeNested(w) \/ GiveUpNested(w) \/ ReadTail(w)
    BY <1>1, <1>6, <2>5 DEF TakeNested, GiveUpNested, ReadTail, EndCompaction, Moves, Same, Late
  <2>6. CASE Return(w)
    BY <1>1, <1>6, <2>6 DEF Return, Moves
  <2> QED
    BY <1>2, <1>3, <2>2, <2>3, <2>4, <2>5, <2>6 DEF Step, Append1, Waiting, Rewrite, Begin, TakeFamily, ReadTop,
       Reserve, Check, SizeCheck, OpenFile, GiveUp, Rotate, Create
<1> QED
  BY <1>2, <1>3, <1>4, <1>5, <1>6, Shapes

\* The part of a sequence is within it.
LEMMA LivePart ==
  ASSUME LogTypeOK, NEW m \in Nat \ {0}
  PROVE  ToSet(SubSeq(Content(live), m, Size)) \subseteq ToSet(Content(live))
BY LiveContent, PartOfSequence DEF Size

\* A step keeps whose events the files hold: a writer writes its own, once.
LEMMA OwnEventsKept ==
  ASSUME SeqInv, OwnEvents, NEW w \in Writer, Step(w)
  PROVE  OwnEvents'
<1>1. /\ LogTypeOK /\ mine \in [Writer -> Local] /\ mine[w] \in Local /\ pc \in [Writer -> Pc]
      /\ ToSet(<< >>) = {} /\ NoRepeat(<< >>) /\ OwnPart(w)
  BY DEF SeqInv, LogTypeOK, ToSet, NoRepeat, OwnEvents
<1>2. /\ Written \subseteq Written'
      /\ IF Write(w) THEN Written' = Written \cup Events(w) ELSE Written' \subseteq Written
  BY <1>1, WrittenGrows
<1>3. \A v \in Writer \ {w} : mine'[v] = mine[v] /\ pc'[v] = pc[v]
  BY OthersKeep, OthersStay DEF SeqInv
<1>4. ASSUME NEW v \in Writer \ {w} PROVE OwnPart(v)'
  <2>1. /\ Events(v)' = Events(v) /\ Copies(v)' = Copies(v) /\ Late(v)' = Late(v)
        /\ mine'[v] = mine[v] /\ pc'[v] = pc[v] /\ OwnPart(v)
    BY <1>3 DEF Events, Copies, Late, OwnEvents
  <2>2. Events(v) \cap Events(w) = {}
    BY <1>1, <2>1 DEF OwnPart
  <2>3. IF mine[v].wrote THEN Events(v) \subseteq Written' ELSE Events(v) \cap Written' = {}
    BY <1>2, <2>1, <2>2 DEF OwnPart
  <2> QED
    BY <1>2, <2>1, <2>3 DEF OwnPart
<1>5. OwnPart(w)'
  <2>1. ~Clears(w) /\ mine[w].wrote /\ mine'[w].wrote => Late(w)'
    BY <1>1, StaysLate DEF OwnPart
  <2>2. CASE Clears(w)
    BY <1>1, <2>2 DEF Clears, OwnPart, Events, Copies
  <2>3. CASE Moves(w)
    <3>1. Events(w)' = Events(w) /\ Copies(w)' = Copies(w) /\ Written' = Written
      BY <2>3 DEF Moves, Same, Events, Copies, Written, logVars
    <3>2. pc' = pc \/ pc'[w] \notin {"wait", "write"}
      BY <2>3 DEF Moves
    <3> QED
      BY <1>1, <2>1, <2>2, <2>3, <3>1, <3>2 DEF Moves, Same, OwnPart
  <2>4. CASE Prepares(w)
    <3>1. Size - setting.keep + 1 \in Nat \ {0}
      <4>1. Size \in Nat /\ setting.keep \in Nat
        BY <1>1, LiveContent DEF LogTypeOK, EventLogAssumption
      <4> QED
        BY <2>4, <4>1 DEF Prepares
    <3>2. ToSet(mine'[w].kept) \subseteq Written /\ Written' = Written
      BY <1>1, <2>4, <3>1, LivePart, LiveContent DEF Prepares, Written, logVars
    <3> QED
      BY <1>1, <2>1, <2>2, <2>4, <3>2 DEF Prepares, OwnPart, Events, Copies
  <2>5. CASE ReadsTail(w)
    <3>1. mine[w].size + 1 \in Nat \ {0}
      BY <1>1 DEF Local
    <3>2. ToSet(mine'[w].tail) \subseteq Written /\ Written' = Written
      BY <1>1, <2>5, <3>1, LivePart, LiveContent DEF ReadsTail, Written, logVars
    <3> QED
      BY <1>1, <2>1, <2>2, <2>5, <3>2 DEF ReadsTail, OwnPart, Events, Copies
  <2>6. CASE Rotates(w)
    BY <1>1, <2>1, <2>2, <2>6 DEF Rotates, Same, OwnPart, Events, Copies, Written
  <2>7. CASE Opens(w)
    <3>1. Written' = Written /\ (pc'[w] = "write" => mine'[w].fd # 0)
      BY <1>1, <2>7, OpenLiveKeeps DEF Opens, OpenLive, FilesTyped, LogTypeOK
    <3> QED
      BY <1>1, <2>1, <2>2, <2>7, <3>1 DEF Opens, OwnPart, Events, Copies
  <2>8. CASE Reserve(w)
    <3>1. ~mine[w].wrote
      BY <1>1, <2>8 DEF Reserve, OwnPart, Late
    <3>2. Events(w)' \cap Written' = {} /\ Written' = Written
      <4>1. Written' = Written
        BY <2>8, ReserveIsNew DEF Written, logVars
      <4>2. \A e \in Written : ~(e.seq < e.seq)
        BY DEF SeqInv, Numbered, Known, LastGiven, LogTypeOK
      <4> QED
        BY <2>8, <4>1, <4>2, ReserveIsNew
    <3> QED
      BY <1>1, <2>8, <3>1, <3>2, ReserveIsNew DEF OwnPart, Copies
  <2>9. CASE Replace(w) \/ Recheck(w)
    <3>1. mine' = mine /\ pc'[w] \in {"recheck", "full", "done"} /\ ~Write(w)
      BY <1>1, <2>9 DEF Replace, Recheck, EndCompaction, Write, Local
    <3> QED
      BY <1>1, <1>2, <2>1, <2>2, <3>1 DEF OwnPart, Events, Copies
  <2>10. CASE Write(w)
    <3>1. mine' = [mine EXCEPT ![w].wrote = TRUE] /\ pc'[w] \in {"done", "tick"}
      BY <1>1, <2>10 DEF Write
    <3>2. /\ mine'[w].wrote /\ mine'[w].events = mine[w].events
          /\ mine'[w].kept = mine[w].kept /\ mine'[w].tail = mine[w].tail
      BY <1>1, <3>1 DEF Local
    <3> QED
      BY <1>1, <1>2, <2>10, <3>1, <3>2 DEF OwnPart, Events, Copies, Late
  <2> QED
    BY <1>1, <2>2, <2>3, <2>4, <2>5, <2>6, <2>7, <2>8, <2>9, <2>10, Shapes
<1>6. accepted' \subseteq Written'
  <2>1. accepted' = accepted \/ (mine[w].wrote /\ accepted' = accepted \cup Events(w))
    BY <1>1, Shapes DEF Clears, Moves, Prepares, ReadsTail, Rotates, Opens, Reserve, Replace, Recheck, Write
  <2> QED
    BY <1>1, <1>2, <2>1 DEF OwnEvents, OwnPart
<1>7. live' \notin archives'
  <2>1. archives \subseteq 1 .. Len(files) /\ Len(files) \in Nat /\ live \in 0 .. Len(files) /\ live \notin archives
    BY <1>1 DEF LogTypeOK, OwnEvents
  <2>2. CASE Rotates(w)
    BY <2>1, <2>2 DEF Rotates
  <2>3. CASE ~Rotates(w)
    <3>1. archives' = archives /\ live' \in {live, Len(files) + 1}
      BY <1>1, <2>3, Shapes DEF Clears, Moves, Prepares, ReadsTail, Opens, OpenLive, Reserve,
         Replace, Recheck, Write, logVars
    <3> QED
      BY <2>1, <3>1
  <2> QED
    BY <2>2, <2>3
<1> QED
  BY <1>4, <1>5, <1>6, <1>7 DEF OwnEvents

\* Two sequences without repetition and without a common element.
LEMMA ConcatNoRepeat ==
  ASSUME NEW S, NEW s \in Seq(S), NEW t \in Seq(S), NoRepeat(s), NoRepeat(t), ToSet(s) \cap ToSet(t) = {}
  PROVE  NoRepeat(s \o t)
<1>1. /\ Len(s \o t) = Len(s) + Len(t) /\ Len(s) \in Nat /\ Len(t) \in Nat
      /\ \A i \in 1 .. Len(s) + Len(t) :
           (s \o t)[i] = IF i <= Len(s) THEN s[i] ELSE t[i - Len(s)]
  OBVIOUS
<1>2. /\ \A i \in 1 .. Len(s) : s[i] \in ToSet(s)
      /\ \A i \in 1 .. Len(t) : t[i] \in ToSet(t)
  BY DEF ToSet
<1>3. ASSUME NEW i \in 1 .. Len(s) + Len(t), NEW j \in 1 .. Len(s) + Len(t), (s \o t)[i] = (s \o t)[j]
      PROVE  i = j
  <2>1. CASE i <= Len(s) /\ j <= Len(s)
    BY <1>1, <1>3, <2>1 DEF NoRepeat
  <2>2. CASE i > Len(s) /\ j > Len(s)
    <3>1. i - Len(s) \in 1 .. Len(t) /\ j - Len(s) \in 1 .. Len(t) /\ t[i - Len(s)] = t[j - Len(s)]
      BY <1>1, <1>3, <2>2
    <3>2. i - Len(s) = j - Len(s)
      BY <3>1 DEF NoRepeat
    <3> QED
      BY <1>1, <3>2
  <2>3. CASE i <= Len(s) /\ j > Len(s)
    <3>1. i \in 1 .. Len(s) /\ j - Len(s) \in 1 .. Len(t) /\ s[i] = t[j - Len(s)]
      BY <1>1, <1>3, <2>3
    <3> QED
      BY <1>2, <3>1
  <2>4. CASE i > Len(s) /\ j <= Len(s)
    <3>1. j \in 1 .. Len(s) /\ i - Len(s) \in 1 .. Len(t) /\ s[j] = t[i - Len(s)]
      BY <1>1, <1>3, <2>4
    <3> QED
      BY <1>2, <3>1
  <2> QED
    BY <1>1, <2>1, <2>2, <2>3, <2>4
<1> QED
  BY <1>1, <1>3 DEF NoRepeat

\* A proper tail lacks the head.
LEMMA TailLacksHead ==
  ASSUME NEW S, NEW s \in Seq(S), NoRepeat(s), NEW k \in Nat, Len(s) > k
  PROVE  ToSet(s) \ ToSet(SubSeq(s, Len(s) - k + 1, Len(s))) # {}
<1> DEFINE tail == SubSeq(s, Len(s) - k + 1, Len(s))
<1>1. tail = [i \in 1 .. k |-> s[Len(s) - k + i]]
  <2>1. Len(s) - (Len(s) - k + 1) + 1 = k /\ Len(s) \in Nat
    OBVIOUS
  <2>2. tail = [i \in 1 .. k |-> s[i + (Len(s) - k + 1) - 1]]
    BY <2>1
  <2> QED
    BY <2>1, <2>2
<1>2. 1 \in 1 .. Len(s) /\ \A i \in 1 .. k : Len(s) - k + i \in 2 .. Len(s)
  OBVIOUS
<1>3. s[1] \in ToSet(s)
  BY <1>2 DEF ToSet
<1>4. \A i \in 1 .. k : tail[i] # s[1]
  BY <1>1, <1>2 DEF NoRepeat
<1>5. DOMAIN tail = 1 .. k
  BY <1>1
<1> HIDE DEF tail
<1>6. s[1] \notin ToSet(tail)
  BY <1>4, <1>5 DEF ToSet
<1> QED
  BY <1>3, <1>6 DEF tail

\* A step keeps every inode named until something is left out: the first
\* replacement of a compaction is what leaves it out.
LEMMA UncompactedKept ==
  ASSUME SeqInv, OwnEvents, Uncompacted, NEW w \in Writer, Step(w)
  PROVE  Uncompacted'
<1>1. /\ LogTypeOK /\ FilesTyped /\ mine \in [Writer -> Local] /\ mine[w] \in Local /\ pc \in [Writer -> Pc]
      /\ OwnPart(w)
  BY DEF SeqInv, LogTypeOK, FilesTyped, OwnEvents
<1>2. \A v \in Writer \ {w} : mine'[v] = mine[v] /\ pc'[v] = pc[v]
  BY OthersKeep, OthersStay DEF SeqInv
<1>3. SUFFICES ASSUME pruned' = {}
               PROVE  /\ 1 .. Len(files') \subseteq archives' \cup {live'}
                      /\ \A i \in 1 .. Len(files') : NoRepeat(files'[i])
                      /\ pc'[w] # "recheck"
                      /\ Compacting(w)' => mine'[w].seen \ ToSet(mine'[w].kept) # {}
  <2>1. CASE Replace(w)
    BY <1>1, <1>2, <2>1 DEF Replace, Uncompacted, Compacting
  <2>2. CASE ~Replace(w)
    <3>1. pruned' = pruned
      BY <1>1, <2>2, Shapes DEF Clears, Moves, Prepares, ReadsTail, Rotates, Opens, Reserve, Recheck, Write, logVars
    <3> QED
      BY <1>2, <3>1 DEF Uncompacted, Compacting
  <2> QED
    BY <2>1, <2>2
<1>4. ~Replace(w)
  <2> SUFFICES ASSUME Replace(w) PROVE FALSE
    OBVIOUS
  <2>1. pc[w] = "rename" /\ pruned' = pruned \cup (mine[w].seen \ ToSet(mine[w].kept))
    BY DEF Replace
  <2> QED
    BY <1>3, <2>1 DEF Uncompacted, Compacting
<1>5. pruned = {}
  BY <1>1, <1>3, <1>4, Shapes DEF Clears, Moves, Prepares, ReadsTail, Rotates, Opens, Reserve, Recheck, Write, logVars
<1>6. /\ 1 .. Len(files) \subseteq archives \cup {live}
      /\ \A i \in 1 .. Len(files) : NoRepeat(files[i])
      /\ pc[w] # "recheck"
      /\ Compacting(w) => mine[w].seen \ ToSet(mine[w].kept) # {}
  BY <1>5 DEF Uncompacted
<1>7. CASE Clears(w) \/ Moves(w) \/ ReadsTail(w) \/ Reserve(w)
  <2>1. UNCHANGED <<files, live, archives>>
    BY <1>7 DEF Clears, Moves, ReadsTail, Reserve, logVars
  <2>2. CASE Clears(w) \/ Reserve(w)
    BY <1>1, <1>6, <2>1, <2>2 DEF Clears, Reserve, Compacting
  <2>3. CASE Moves(w)
    BY <1>6, <2>1, <2>3 DEF Moves, Same, Compacting
  <2>4. CASE ReadsTail(w)
    BY <1>6, <2>1, <2>4 DEF ReadsTail, Compacting
  <2> QED
    BY <1>7, <2>2, <2>3, <2>4
<1>8. CASE Prepares(w)
  <2>1. setting.keep \in Nat /\ Size > setting.keep
    BY <1>1, <1>8 DEF Prepares, LogTypeOK, EventLogAssumption
  <2>2. live \in 1 .. Len(files) /\ Content(live) = files[live]
    BY <1>1, <2>1, LiveContent DEF LogTypeOK, Content
  <2>3. mine'[w].seen \ ToSet(mine'[w].kept) # {}
    BY <1>1, <1>6, <1>8, <2>1, <2>2, LiveContent, TailLacksHead DEF Prepares, Size
  <2> QED
    BY <1>6, <1>8, <2>3 DEF Prepares, logVars
<1>9. CASE Rotates(w)
  BY <1>6, <1>9 DEF Rotates, Compacting
<1>10. CASE Opens(w)
  <2>1. pc'[w] # "recheck" /\ ~Compacting(w)' /\ archives' = archives
    BY <1>10 DEF Opens, Compacting
  <2>2. CASE live = 0
    <3>1. files' = Append(files, <<>>) /\ live' = Len(files) + 1
      BY <1>10, <2>2 DEF Opens, OpenLive
    <3>2. /\ Len(files') = Len(files) + 1 /\ Len(files) \in Nat /\ NoRepeat(<< >>)
          /\ \A i \in 1 .. Len(files) : files'[i] = files[i]
          /\ files'[Len(files) + 1] = << >>
      BY <1>1, <3>1 DEF FilesTyped, NoRepeat
    <3>3. 1 .. Len(files) + 1 = (1 .. Len(files)) \cup {Len(files) + 1} /\ 0 \notin 1 .. Len(files)
      BY <3>2
    <3> QED
      BY <1>6, <2>1, <2>2, <3>1, <3>2, <3>3
  <2>3. CASE live # 0
    BY <1>6, <1>10, <2>1, <2>3 DEF Opens, OpenLive
  <2> QED
    BY <2>2, <2>3
<1>11. CASE Write(w)
  <2>1. /\ mine[w].fd \in 1 .. Len(files) /\ mine[w].events \in Seq(Event) /\ pc[w] = "write"
        /\ files' = Extended(files, mine[w].fd, mine[w].events) /\ live' = live /\ archives' = archives
        /\ pc'[w] \in {"done", "tick"}
    BY <1>1, <1>11 DEF Write, Extended, Local, OwnPart, LogTypeOK
  <2>2. NoRepeat(mine[w].events) /\ Events(w) \cap Written = {}
    BY <1>1, <2>1 DEF OwnPart, Late
  <2>3. ToSet(files[mine[w].fd]) \subseteq Written /\ files[mine[w].fd] \in Seq(Event)
    BY <1>1, <2>1 DEF Written, FilesTyped
  <2>4. NoRepeat(files[mine[w].fd] \o mine[w].events)
    BY <1>6, <2>1, <2>2, <2>3, ConcatNoRepeat DEF Events
  <2>5. /\ Len(files') = Len(files)
        /\ \A j \in 1 .. Len(files) :
             files'[j] = IF j = mine[w].fd THEN files[j] \o mine[w].events ELSE files[j]
    BY <1>1, <2>1, ExtendedFile DEF FilesTyped
  <2> QED
    BY <1>6, <2>1, <2>4, <2>5 DEF Compacting
<1>12. CASE Recheck(w)
  BY <1>6, <1>12 DEF Recheck
<1> QED
  BY <1>1, <1>4, <1>7, <1>8, <1>9, <1>10, <1>11, <1>12, Shapes

-----------------------------------------------------------------------------
(* One family. *)

Calm == OneFamily /\ ~setting.slow
Ours == IF setting.writers \subseteq setting.sync THEN "mkdirlock" ELSE "alock"
Inside(w) == pc[w] \notin Resting \cup {"wait"}

\* The writer inside a call holds the family's lock, and that lock is removed
\* from under nobody but a dead writer.
Exclusive ==
  \A w \in Writer :
    /\ Inside(w) => w \in setting.writers /\ lock[Ours] = w
    /\ mine[w].stale = Ours => w \in setting.reclaimers /\ lock[Ours] = Dead
    /\ pc[w] = "nested" => Sync(w)

\* All writers of one family share its lock.
LEMMA OursIsFamily ==
  ASSUME Calm, NEW w \in setting.writers
  PROVE  Ours = Family(w) /\ (Sync(w) => Ours = "mkdirlock") /\ (~Sync(w) => Ours = "alock")
BY DEF Calm, OneFamily, Ours, Family, Sync

\* Who changes the family's lock, and who enters a call.
LEMMA OursChanges ==
  ASSUME LogTypeOK, Calm, Exclusive, NEW w \in Writer, Step(w)
  PROVE  \/ /\ pc[w] = "wait" /\ lock[Ours] = Free /\ lock'[Ours] = w /\ pc'[w] \in {"check", "reserve"}
            /\ w \in setting.writers /\ TakeFamily(w)
         \/ Inside(w) /\ ~Inside(w)'
         \/ RemoveStale(w) /\ mine[w].stale = Ours
         \/ /\ lock'[Ours] = lock[Ours] /\ (Inside(w)' => Inside(w))
            /\ pc'[w] = "nested" => Sync(w)
<1>1. /\ pc \in [Writer -> Pc] /\ lock \in [Lock -> Writer \cup {Free, Dead}] /\ Ours \in Lock
      /\ Ours \in {"mkdirlock", "alock"} /\ mine[w] \in Local /\ w \in setting.writers
      /\ mine[w].stage \in {"full", "done"}
  BY DEF LogTypeOK, Ours, Lock, Step, MayRun, Local
<1>2. Ours = Family(w) /\ (Sync(w) => Ours = "mkdirlock") /\ (pc[w] = "nested" => Sync(w))
  BY <1>1, OursIsFamily DEF Exclusive
<1>3. (Sync(w) => Without("alock", w)[Ours] = lock[Ours]) /\ Without("seqlock", w)[Ours] = lock[Ours]
  BY <1>1, <1>2 DEF Without
<1> USE DEF Inside, Resting
<1>4. CASE TakeFamily(w)
  BY <1>1, <1>2, <1>4 DEF TakeFamily, Vacant, Wants
<1>5. CASE GiveUp(w) \/ Return(w)
  BY <1>1, <1>5 DEF GiveUp, Return
<1>6. CASE RemoveStale(w)
  BY <1>1, <1>2, <1>6 DEF RemoveStale
<1>7. CASE TakeNested(w) \/ GiveUpNested(w)
  BY <1>1, <1>2, <1>7 DEF TakeNested, GiveUpNested
<1>8. CASE ReadTail(w) \/ Recheck(w)
  BY <1>1, <1>3, <1>8 DEF ReadTail, Recheck, EndCompaction
<1>9. CASE ReadTop(w) \/ Reserve(w)
  BY <1>1, <1>3, <1>9 DEF ReadTop, Reserve
<1>10. CASE Check(w) \/ Tick(w)
  BY <1>1, <1>10 DEF Check, Tick, Prepare
<1>11. CASE SizeCheck(w) \/ Rotate(w) \/ Replace(w) \/ Create(w) \/ OpenFile(w) \/ Write(w)
  BY <1>1, <1>11 DEF SizeCheck, Rotate, Replace, Create, OpenFile, Write, AfterFull
<1>12. CASE Begin(w) \/ SeeStale(w)
  BY <1>1, <1>2, <1>12 DEF Begin, SeeStale
<1> QED
  BY <1>4, <1>5, <1>6, <1>7, <1>8, <1>9, <1>10, <1>11, <1>12, ByWhatTheyWrite DEF Rest, Filing

\* What a step leaves alone of the setting and of the other writers.
LEMMA SettingStays ==
  ASSUME SeqInv, NEW w \in Writer, Step(w)
  PROVE  /\ setting' = setting /\ Calm' = Calm /\ Ours' = Ours
         /\ \A v \in Writer \ {w} : mine'[v] = mine[v] /\ pc'[v] = pc[v] /\ Inside(v)' = Inside(v)
BY OthersStay, OthersKeep DEF SeqInv, Calm, OneFamily, Ours, Inside

\* Nobody else is inside.
LEMMA InsideAlone ==
  ASSUME Exclusive, NEW w \in Writer, Inside(w)
  PROVE  \A v \in Writer \ {w} : ~Inside(v)
BY DEF Exclusive

\* A step keeps the family's lock with the writer inside.
LEMMA ExclusiveKept ==
  ASSUME SeqInv, Calm, Exclusive, NEW w \in Writer, Step(w)
  PROVE  Exclusive'
<1>1. /\ LogTypeOK /\ mine[w] \in Local /\ w \in setting.writers /\ Ours \in {"mkdirlock", "alock"}
      /\ Free \notin Writer /\ Dead \notin Writer /\ Free # Dead /\ None # Ours
      /\ mine \in [Writer -> Local] /\ lock \in [Lock -> Writer \cup {Free, Dead}] /\ Ours \in Lock
  BY DEF SeqInv, LogTypeOK, Step, MayRun, Ours, None, Lock
<1>2. /\ setting' = setting /\ Ours' = Ours
      /\ \A v \in Writer \ {w} : mine'[v] = mine[v] /\ pc'[v] = pc[v] /\ Inside(v)' = Inside(v)
  BY SettingStays
<1>3. \A u, v \in setting.reclaimers : u = v
  BY <1>1 DEF LogTypeOK, EventLogAssumption
<1>4. /\ mine'[w].stale \in {None, mine[w].stale} \/ SeeStale(w)
  BY <1>1, StaleAndBase
<1>5. SeeStale(w) => /\ pc' = pc /\ lock' = lock
                     /\ mine'[w].stale = Ours => w \in setting.reclaimers /\ lock[Ours] = Dead
  <2> SUFFICES ASSUME SeeStale(w)
               PROVE  /\ pc' = pc /\ lock' = lock
                      /\ mine'[w].stale = Ours => w \in setting.reclaimers /\ lock[Ours] = Dead
    OBVIOUS
  <2>1. mine'[w].stale = Wants(w) /\ pc' = pc /\ lock' = lock
    BY <1>1 DEF SeeStale, Local
  <2> QED
    BY <1>1, <2>1 DEF SeeStale, Calm
<1>6. ASSUME NEW v \in Writer \ {w}
      PROVE  /\ Inside(v) => lock'[Ours] = v
             /\ mine[v].stale = Ours => lock'[Ours] = Dead
  <2>1. Inside(v) => lock[Ours] = v
    BY DEF Exclusive
  <2>2. mine[v].stale = Ours => v \in setting.reclaimers /\ lock[Ours] = Dead
    BY DEF Exclusive
  <2>3. Inside(w) => lock[Ours] = w
    BY DEF Exclusive
  <2>4. mine[w].stale = Ours => w \in setting.reclaimers /\ lock[Ours] = Dead
    BY DEF Exclusive
  <2> QED
    BY <1>1, <1>3, <2>1, <2>2, <2>3, <2>4, OursChanges
<1>7. Inside(w)' => lock'[Ours] = w
  <2>1. Inside(w) => lock[Ours] = w
    BY DEF Exclusive
  <2>2. RemoveStale(w) /\ mine[w].stale = Ours => ~Inside(w)'
    BY <1>1, <2>1 DEF Exclusive, RemoveStale, Inside
  <2> QED
    BY <1>1, <2>1, <2>2, OursChanges
<1>8. mine'[w].stale = Ours => w \in setting.reclaimers /\ lock'[Ours] = Dead
  <2>1. CASE SeeStale(w)
    BY <1>5, <2>1
  <2>2. CASE mine'[w].stale = mine[w].stale /\ mine[w].stale = Ours
    <3>1. w \in setting.reclaimers /\ lock[Ours] = Dead
      BY <2>2 DEF Exclusive
    <3>2. ~RemoveStale(w)
      BY <1>1, <2>2 DEF RemoveStale, Local
    <3>3. ~Inside(w)
      BY <1>1, <3>1 DEF Exclusive
    <3> QED
      BY <1>1, <3>1, <3>2, <3>3, OursChanges
  <2> QED
    BY <1>1, <1>4, <2>1, <2>2
<1>9. pc'[w] = "nested" => Sync(w)
  <2>1. RemoveStale(w) => pc' = pc
    BY DEF RemoveStale
  <2>2. Inside(w) /\ ~Inside(w)' => pc'[w] # "nested"
    BY DEF Inside, Resting
  <2> QED
    BY <1>1, <2>1, <2>2, OursChanges DEF Exclusive
<1> QED
  BY <1>1, <1>2, <1>6, <1>7, <1>8, <1>9 DEF Exclusive, Sync

LiveSet == ToSet(Content(live))

\* A compaction under way has read the live file as it still is, and a writer
\* appends to the file that has the name.
CompactPart(w) ==
  /\ Compacting(w) => /\ mine[w].seen = LiveSet /\ mine[w].size = Size
                      /\ ToSet(mine[w].kept) \subseteq LiveSet
  /\ pc[w] = "rename" => mine[w].tail = << >>
  /\ pc[w] = "recheck" => Size >= Len(mine[w].kept)
  /\ pc[w] = "write" => mine[w].fd = live

\* A writer that is not inside a call touches no file.
LEMMA OutsideQuiet ==
  ASSUME LogTypeOK, NEW w \in Writer, Step(w), ~Inside(w)
  PROVE  UNCHANGED logVars /\ ~Write(w)
<1>1. pc[w] \in {"idle", "dead", "wait"}
  BY DEF Inside, Resting
<1>2. ~Prepares(w) /\ ~ReadsTail(w) /\ ~Rotates(w) /\ ~Opens(w) /\ ~Reserve(w)
  BY <1>1 DEF Prepares, ReadsTail, Rotates, Opens, Reserve
<1>3. ~Replace(w) /\ ~Recheck(w) /\ ~Write(w)
  BY <1>1 DEF Replace, Recheck, Write
<1> QED
  BY <1>2, <1>3, Shapes DEF Clears, Moves

\* What a replacement writes when nothing has been appended meanwhile.
LEMMA ReplaceKeeps ==
  ASSUME LogTypeOK, NEW w \in Writer, Replace(w), mine[w].tail = << >>
  PROVE  /\ files' = Append(files, mine[w].kept) /\ live' = Len(files) + 1
         /\ Content(live)' = mine[w].kept /\ Size' = Len(mine[w].kept)
<1>1. mine[w].kept \in Seq(Event) /\ files \in Seq(Seq(Event)) /\ Len(files) \in Nat
  BY DEF LogTypeOK, Local
<1>2. mine[w].kept \o mine[w].tail = mine[w].kept
  BY <1>1
<1>3. files' = Append(files, mine[w].kept) /\ live' = Len(files) + 1
  BY <1>2 DEF Replace
<1>4. files'[live'] = mine[w].kept /\ live' # 0
  BY <1>1, <1>3
<1> QED
  BY <1>3, <1>4 DEF Content, Size

\* A step keeps what a compaction has read: only the one writer inside
\* changes the live file.
LEMMA CompactKept ==
  ASSUME SeqInv, Exclusive, \A v \in Writer : CompactPart(v), NEW w \in Writer, Step(w)
  PROVE  \A v \in Writer : CompactPart(v)'
<1>1. /\ LogTypeOK /\ FilesTyped /\ mine[w] \in Local /\ pc \in [Writer -> Pc] /\ mine[w].stage \in {"full", "done"}
      /\ Size \in Nat /\ Content(live) \in Seq(Event)
  BY LiveContent DEF SeqInv, LogTypeOK, FilesTyped, Local
<1>2. \A v \in Writer \ {w} : mine'[v] = mine[v] /\ pc'[v] = pc[v]
  BY SettingStays
<1>3. UNCHANGED <<files, live>> => LiveSet' = LiveSet /\ Size' = Size
  BY DEF LiveSet, Size, Content
<1>4. ASSUME NEW v \in Writer \ {w} PROVE CompactPart(v)'
  <2>1. CASE Inside(w)
    <3>1. pc'[v] \in {"idle", "dead", "wait"}
      BY <1>2, <2>1, InsideAlone DEF Inside, Resting
    <3> QED
      BY <3>1 DEF CompactPart, Compacting
  <2>2. CASE ~Inside(w)
    BY <1>1, <1>2, <1>3, <2>2, OutsideQuiet DEF CompactPart, Compacting, logVars
  <2> QED
    BY <2>1, <2>2
<1>5. CompactPart(w)'
  <2>1. CompactPart(w)
    OBVIOUS
  <2>2. CASE Clears(w) \/ Reserve(w) \/ Rotates(w)
    <3>1. pc'[w] \in {"idle", "wait", "size", "check", "create"}
      BY <1>1, <2>2 DEF Clears, Reserve, Rotates
    <3> QED
      BY <3>1 DEF CompactPart, Compacting
  <2>3. CASE Moves(w)
    BY <1>3, <2>1, <2>3 DEF Moves, Same, CompactPart, Compacting, logVars
  <2>4. CASE Prepares(w)
    <3>1. Size - setting.keep + 1 \in Nat \ {0}
      <4>1. setting.keep \in Nat
        BY <1>1 DEF LogTypeOK, EventLogAssumption
      <4> QED
        BY <1>1, <2>4, <4>1 DEF Prepares
    <3>2. ToSet(mine'[w].kept) \subseteq LiveSet
      BY <1>1, <2>4, <3>1, LivePart DEF Prepares, LiveSet
    <3> QED
      BY <1>3, <2>4, <3>2 DEF Prepares, CompactPart, Compacting, LiveSet, logVars
  <2>5. CASE ReadsTail(w)
    <3>1. mine'[w].tail = << >>
      <4>1. mine'[w].tail = SubSeq(Content(live), Size + 1, Size)
        BY <2>1, <2>5 DEF ReadsTail, CompactPart, Compacting
      <4> QED
        BY <1>1, <4>1
    <3> QED
      BY <1>3, <2>1, <2>5, <3>1 DEF ReadsTail, CompactPart, Compacting, logVars
  <2>6. CASE Opens(w)
    BY <2>6 DEF Opens, CompactPart, Compacting
  <2>7. CASE Replace(w)
    <3>1. pc'[w] = "recheck" /\ mine' = mine /\ pc[w] = "rename"
      BY <1>1, <2>7 DEF Replace
    <3>2. Size' = Len(mine[w].kept)
      BY <1>1, <2>1, <2>7, <3>1, ReplaceKeeps DEF CompactPart
    <3>3. Len(mine[w].kept) \in Nat
      BY <1>1 DEF Local
    <3> QED
      BY <3>1, <3>2, <3>3 DEF CompactPart, Compacting
  <2>8. CASE Recheck(w) \/ Write(w)
    <3>1. pc'[w] \in {"full", "done", "tick"}
      BY <1>1, <2>8 DEF Recheck, Write, EndCompaction
    <3> QED
      BY <3>1 DEF CompactPart, Compacting
  <2> QED
    BY <1>1, <2>2, <2>3, <2>4, <2>5, <2>6, <2>7, <2>8, Shapes
<1> QED
  BY <1>4, <1>5

\* What a step does to the events a reader can see, if one family writes.
LEMMA CalmEffects ==
  ASSUME SeqInv, OwnEvents, NEW w \in Writer, CompactPart(w), Step(w)
  PROVE  /\ Visible \cup pruned \subseteq Visible' \cup pruned'
         /\ IF Write(w) THEN LiveSet' = LiveSet \cup Events(w) ELSE LiveSet' \subseteq LiveSet
         /\ InArchives' = InArchives \/ (LiveSet' = {} /\ InArchives' = InArchives \cup LiveSet)
<1>1. /\ LogTypeOK /\ FilesTyped /\ mine[w] \in Local /\ pc \in [Writer -> Pc] /\ live \notin archives
      /\ OwnPart(w) /\ Visible = LiveSet \cup InArchives /\ Visible' = LiveSet' \cup InArchives'
      /\ ToSet(<< >>) = {} /\ Len(files) \in Nat
  BY DEF SeqInv, LogTypeOK, FilesTyped, OwnEvents, Visible, LiveSet, ToSet
<1>2. UNCHANGED logVars => LiveSet' = LiveSet /\ InArchives' = InArchives /\ pruned' = pruned
  BY DEF LiveSet, Content, InArchives, logVars
<1>3. CASE Write(w)
  <2>1. mine[w].fd = live /\ live \in 1 .. Len(files) /\ mine[w].events \in Seq(Event)
    <3>1. mine[w].fd = live /\ live # 0
      BY <1>1, <1>3 DEF Write, CompactPart, OwnPart
    <3> QED
      BY <1>1, <3>1 DEF FilesTyped, Local
  <2>2. files' = Extended(files, live, mine[w].events) /\ UNCHANGED <<live, archives, pruned>>
    BY <1>3, <2>1 DEF Write, Extended
  <2>3. \A j \in 1 .. Len(files) : files'[j] = IF j = live THEN files[live] \o mine[w].events ELSE files[j]
    BY <1>1, <2>1, <2>2, ExtendedFile DEF FilesTyped
  <2>4. LiveSet' = LiveSet \cup Events(w)
    <3>1. files'[live] = files[live] \o mine[w].events
      BY <2>1, <2>3
    <3>2. Content(live)' = files[live] \o mine[w].events /\ Content(live) = files[live]
      <4>1. live' = live /\ live # 0
        BY <2>1, <2>2
      <4> QED
        BY <3>1, <4>1, Zenon DEF Content
    <3>3. files[live] \in Seq(Event)
      BY <1>1, <2>1 DEF FilesTyped
    <3> QED
      BY <2>1, <3>2, <3>3, ConcatIsUnion DEF LiveSet, Events
  <2>5. InArchives' = InArchives
    <3>1. \A i \in archives : i \in 1 .. Len(files) /\ i # live
      BY <1>1 DEF FilesTyped
    <3>2. \A i \in archives : files'[i] = files[i]
      BY <2>3, <3>1
    <3> QED
      BY <2>2, <3>2 DEF InArchives
  <2> QED
    BY <1>1, <1>3, <2>2, <2>4, <2>5
<1> SUFFICES ASSUME ~Write(w)
             PROVE  /\ Visible \cup pruned \subseteq Visible' \cup pruned'
                    /\ LiveSet' \subseteq LiveSet
                    /\ InArchives' = InArchives \/ (LiveSet' = {} /\ InArchives' = InArchives \cup LiveSet)
  BY <1>3
<1>4. CASE UNCHANGED logVars
  BY <1>1, <1>2, <1>4
<1>5. CASE Rotates(w)
  <2>1. /\ live' = 0 /\ archives' = archives \cup {live} /\ files' = files /\ pruned' = pruned
        /\ Content(live) = files[live]
    BY <1>5 DEF Rotates, Content
  <2>2. LiveSet' = {}
    BY <1>1, <2>1 DEF LiveSet, Content
  <2>3. InArchives' = InArchives \cup LiveSet
    BY <2>1 DEF InArchives, LiveSet
  <2> QED
    BY <1>1, <2>1, <2>2, <2>3
<1>6. CASE Opens(w) /\ live = 0
  <2>1. files' = Append(files, << >>) /\ live' = Len(files) + 1 /\ UNCHANGED <<archives, pruned>>
    BY <1>6 DEF Opens, OpenLive
  <2>2. files'[live'] = << >> /\ live' # 0 /\ \A i \in 1 .. Len(files) : files'[i] = files[i]
    BY <1>1, <2>1 DEF FilesTyped
  <2>3. LiveSet' = {} /\ LiveSet = {}
    BY <1>1, <1>6, <2>2 DEF LiveSet, Content
  <2>4. InArchives' = InArchives
    BY <1>1, <2>1, <2>2 DEF InArchives, FilesTyped
  <2> QED
    BY <1>1, <2>1, <2>3, <2>4
<1>7. CASE Replace(w)
  <2>1. /\ mine[w].tail = << >> /\ mine[w].seen = LiveSet /\ ToSet(mine[w].kept) \subseteq LiveSet
        /\ pruned' = pruned \cup (mine[w].seen \ ToSet(mine[w].kept)) /\ archives' = archives
    BY <1>7 DEF Replace, CompactPart, Compacting
  <2>2. files' = Append(files, mine[w].kept) /\ LiveSet' = ToSet(mine[w].kept)
    BY <1>1, <1>7, <2>1, ReplaceKeeps DEF LiveSet
  <2>3. \A i \in 1 .. Len(files) : files'[i] = files[i]
    BY <1>1, <2>2 DEF FilesTyped
  <2>4. InArchives' = InArchives
    BY <1>1, <2>1, <2>3 DEF InArchives, FilesTyped
  <2> QED
    BY <1>1, <2>1, <2>2, <2>4
<1>8. CASE Recheck(w)
  <2>1. Size >= Len(mine[w].kept) /\ Size \in Nat /\ Len(mine[w].kept) \in Nat
    BY <1>1, <1>8, LiveContent DEF Recheck, CompactPart, Local
  <2>2. UNCHANGED logVars
    BY <1>1, <1>8, <2>1, RecheckAppends DEF logVars
  <2> QED
    BY <1>4, <2>2
<1>9. Clears(w) \/ Moves(w) \/ Prepares(w) \/ ReadsTail(w) \/ Reserve(w) \/ (Opens(w) /\ live # 0) => UNCHANGED logVars
  BY DEF Clears, Moves, Prepares, ReadsTail, Reserve, Opens, OpenLive, logVars
<1> QED
  BY <1>1, <1>4, <1>5, <1>6, <1>7, <1>8, <1>9, Shapes

\* Events that are not yet written come after all that are.
Above(w) == Inside(w) /\ ~mine[w].wrote => \A e \in Events(w), f \in Written : f.seq < e.seq

\* What has been written is there, or was left out by a compaction.
Lasting ==
  /\ \A w \in Writer : Above(w) /\ (mine[w].wrote => Events(w) \subseteq Visible \cup pruned)
  /\ accepted \subseteq Visible \cup pruned

\* The archives hold what was written before the live file was begun.
Ordered == \A e \in LiveSet, f \in InArchives : f.seq < e.seq

\* The reader has what it has passed, and has not passed what was appended
\* to the live file after it looked at it.
Follows ==
  /\ cursor.seen \subseteq Written /\ cursor.since \in Nat
  /\ cursor.since = 0 \/ \E f \in Written : cursor.since <= f.seq
  /\ \A e \in Visible : e.seq <= cursor.since => e \in cursor.got
  /\ cursor.reading => \A e \in LiveSet \ cursor.seen, f \in cursor.seen :
                         e.seq > cursor.since => f.seq < e.seq

\* The events written are numbered from 1, and finitely many.
LEMMA WrittenNumbers ==
  ASSUME SeqInv
  PROVE  /\ \A e \in Written : e.seq \in Nat \ {0}
         /\ LiveSet \subseteq Written /\ InArchives \subseteq Written /\ Visible \subseteq Written
         /\ Visible = LiveSet \cup InArchives /\ IsFiniteSet(Written)
<1>1. \A e \in Written : e.seq \in 1 .. LastGiven
  BY DEF SeqInv, Numbered, Known
<1>2. LastGiven \in Nat
  BY DEF SeqInv, LastGiven, LogTypeOK
<1>3. LiveSet \subseteq Written /\ InArchives \subseteq Written /\ Visible = LiveSet \cup InArchives
  <2>1. archives \subseteq 1 .. Len(files)
    BY DEF SeqInv, LogTypeOK
  <2> QED
    BY <2>1, LiveContent DEF SeqInv, LiveSet, InArchives, Written, Visible
<1>4. IsFiniteSet(Written)
  <2> DEFINE f == [e \in Written |-> e.seq]
  <2>1. f \in [Written -> 1 .. LastGiven]
    BY <1>1
  <2>2. \A d, e \in Written : f[d] = f[e] => d = e
    BY DEF SeqInv, Numbered, Known
  <2>3. f \in Injection(Written, 1 .. LastGiven)
    <3> HIDE DEF f
    <3> QED
      BY <2>1, <2>2 DEF Injection, IsInjective
  <2> QED
    BY <1>2, <2>3, PrefixFinite, FS_Injection
<1> QED
  BY <1>1, <1>2, <1>3, <1>4

\* A step keeps what lasts: it only ever removes what it counts as left out.
LEMMA LastingKept ==
  ASSUME SeqInv, OwnEvents, Calm, Exclusive, Lasting, NEW w \in Writer, CompactPart(w), Step(w)
  PROVE  Lasting'
<1>1. /\ LogTypeOK /\ OwnPart(w) /\ mine[w] \in Local /\ mine \in [Writer -> Local]
      /\ Written \subseteq Written'
      /\ IF Write(w) THEN Written' = Written \cup Events(w) ELSE Written' \subseteq Written
  BY WrittenGrows DEF SeqInv, LogTypeOK, OwnEvents
<1>2. /\ Visible \cup pruned \subseteq Visible' \cup pruned'
      /\ Write(w) => Events(w) \subseteq Visible'
  BY CalmEffects DEF Visible, LiveSet
<1>3. ASSUME NEW v \in Writer \ {w}
      PROVE  Above(v)' /\ (mine'[v].wrote => Events(v)' \subseteq Visible' \cup pruned')
  <2>1. mine'[v] = mine[v] /\ Inside(v)' = Inside(v) /\ Events(v)' = Events(v)
    BY SettingStays DEF Events
  <2>2. mine[v].wrote => Events(v) \subseteq Visible \cup pruned
    BY DEF Lasting
  <2>3. Above(v)'
    <3>1. CASE Inside(v)
      <4>1. ~Inside(w)
        BY <3>1, InsideAlone
      <4>2. Written' \subseteq Written
        BY <1>1, <4>1, OutsideQuiet
      <4> QED
        BY <2>1, <4>2 DEF Above, Lasting
    <3>2. CASE ~Inside(v)
      BY <2>1, <3>2 DEF Above
    <3> QED
      BY <3>1, <3>2
  <2> QED
    BY <1>2, <2>1, <2>2, <2>3
<1>4. Above(w)' /\ (mine'[w].wrote => Events(w)' \subseteq Visible' \cup pruned')
  <2>1. Above(w) /\ (mine[w].wrote => Events(w) \subseteq Visible \cup pruned)
    BY DEF Lasting
  <2>2. CASE Clears(w)
    BY <2>2 DEF Clears, Above, Inside, Resting
  <2>3. CASE Reserve(w)
    <3>1. ~mine[w].wrote
      BY <1>1, <2>3 DEF OwnPart, Late, Reserve
    <3>2. Written' = Written
      BY <2>3, ReserveIsNew DEF Written, logVars
    <3>3. ~mine'[w].wrote /\ \A e \in Events(w)', f \in Written : f.seq < e.seq
      BY <2>3, <3>1, ReserveIsNew
    <3> QED
      BY <3>2, <3>3 DEF Above
  <2>4. CASE Write(w)
    <3>1. mine' = [mine EXCEPT ![w].wrote = TRUE]
      BY <2>4 DEF Write
    <3>2. mine'[w].wrote /\ mine'[w].events = mine[w].events
      BY <1>1, <3>1 DEF Local
    <3> QED
      BY <1>2, <2>4, <3>2 DEF Above, Events
  <2>5. CASE ~Clears(w) /\ ~Reserve(w) /\ ~Write(w)
    <3>1. mine'[w].events = mine[w].events /\ mine'[w].wrote = mine[w].wrote
      BY <1>1, <2>5, Shapes DEF Moves, Same, Prepares, ReadsTail, Rotates, Opens, Replace, Recheck
    <3>2. Events(w)' = Events(w) /\ Written' \subseteq Written
      BY <1>1, <2>5, <3>1 DEF Events
    <3>3. Above(w)'
      <4>1. CASE Inside(w)
        BY <2>1, <3>1, <3>2, <4>1 DEF Above
      <4>2. CASE ~Inside(w)
        <5>1. Inside(w)' => pc[w] = "wait"
          BY <1>1, <4>2, OursChanges DEF RemoveStale, Inside
        <5>2. CASE pc[w] = "wait"
          <6>1. Events(w) = {}
            BY <1>1, <5>2 DEF OwnPart, Events, ToSet
          <6> QED
            BY <3>2, <6>1 DEF Above
        <5> QED
          BY <5>1, <5>2 DEF Above
      <4> QED
        BY <4>1, <4>2
    <3> QED
      BY <1>2, <2>1, <3>1, <3>2, <3>3
  <2> QED
    BY <2>2, <2>3, <2>4, <2>5
<1>5. accepted' \subseteq Visible' \cup pruned'
  <2>1. accepted' = accepted \/ (mine[w].wrote /\ accepted' = accepted \cup Events(w))
    BY <1>1, Shapes DEF Clears, Moves, Prepares, ReadsTail, Rotates, Opens, Reserve, Replace, Recheck, Write
  <2> QED
    BY <1>2, <2>1 DEF Lasting
<1> QED
  BY <1>3, <1>4, <1>5 DEF Lasting

\* A writer that writes is inside, and its events come after all others.
LEMMA WritesAbove ==
  ASSUME OwnEvents, Lasting, NEW w \in Writer, Write(w)
  PROVE  \A e \in Events(w), f \in Written : f.seq < e.seq
<1>1. pc[w] = "write"
  BY DEF Write
<1>2. Inside(w) /\ ~mine[w].wrote
  BY <1>1 DEF Inside, Resting, OwnEvents, OwnPart, Late
<1> QED
  BY <1>2 DEF Lasting, Above

\* A step keeps the archives before the live file.
LEMMA OrderedKept ==
  ASSUME SeqInv, OwnEvents, Lasting, Ordered, NEW w \in Writer, CompactPart(w), Step(w)
  PROVE  Ordered'
<1>1. /\ IF Write(w) THEN LiveSet' = LiveSet \cup Events(w) ELSE LiveSet' \subseteq LiveSet
      /\ InArchives' = InArchives \/ (LiveSet' = {} /\ InArchives' = InArchives \cup LiveSet)
  BY CalmEffects
<1>2. CASE InArchives' = InArchives /\ Write(w)
  BY <1>1, <1>2, WritesAbove, WrittenNumbers DEF Ordered
<1>3. CASE InArchives' = InArchives /\ ~Write(w)
  BY <1>1, <1>3 DEF Ordered
<1>4. CASE LiveSet' = {}
  BY <1>4 DEF Ordered
<1> QED
  BY <1>1, <1>2, <1>3, <1>4

\* Steps of writers.
LEMMA FollowsKept ==
  ASSUME SeqInv, OwnEvents, Lasting, Follows, NEW w \in Writer, CompactPart(w), Step(w)
  PROVE  Follows'
<1>1. cursor' = cursor
  BY ByWhatTheyWrite DEF Rest, Filing, Reserve, Begin, TakeFamily, GiveUp, ReadTop, Check, Tick,
     SizeCheck, Return, GiveUpNested, SeeStale, RemoveStale, TakeNested, ReadTail, Rotate, Replace,
     Recheck, Create, OpenFile, Write
<1>2. /\ IF Write(w) THEN LiveSet' = LiveSet \cup Events(w) ELSE LiveSet' \subseteq LiveSet
      /\ InArchives' \subseteq InArchives \cup LiveSet /\ Visible' = LiveSet' \cup InArchives'
  BY CalmEffects DEF Visible, LiveSet
<1>3. Written \subseteq Written'
  BY WrittenGrows DEF SeqInv
<1>4. ASSUME Write(w), NEW e \in Events(w)
      PROVE  e.seq > cursor.since /\ e.seq \in Nat /\ \A f \in cursor.seen : f.seq < e.seq
  <2>1. \A f \in Written : f.seq < e.seq
    BY <1>4, WritesAbove
  <2>2. e.seq \in Nat \ {0}
    <3>1. \A d \in Known : d.seq \in 1 .. LastGiven
      BY DEF SeqInv, Numbered
    <3>2. e \in Known
      BY DEF Events, Known, Buffers
    <3>3. LastGiven \in Nat
      BY DEF SeqInv, LastGiven, LogTypeOK
    <3> QED
      BY <3>1, <3>2, <3>3
  <2>3. cursor.since < e.seq
    <3>1. cursor.since \in Nat /\ (cursor.since = 0 \/ \E f \in Written : cursor.since <= f.seq)
      BY DEF Follows
    <3>2. \A f \in Written : f.seq \in Nat
      BY WrittenNumbers
    <3> QED
      BY <2>1, <2>2, <3>1, <3>2
  <2> QED
    BY <2>1, <2>2, <2>3 DEF Follows
<1>5. \A e \in LiveSet' : e \in LiveSet \/ (Write(w) /\ e \in Events(w))
  BY <1>2
<1>6. \A e \in Visible' : e.seq <= cursor.since => e \in cursor.got
  <2> TAKE e \in Visible'
  <2>1. CASE e \in Visible
    BY <2>1 DEF Follows
  <2>2. CASE Write(w) /\ e \in Events(w)
    <3>1. e.seq > cursor.since /\ cursor.since \in Nat /\ e.seq \in Nat
      BY <1>4, <2>2 DEF Follows
    <3> QED
      BY <3>1
  <2> QED
    BY <1>2, <1>5, <2>1, <2>2, WrittenNumbers
<1>7. cursor.reading => \A e \in LiveSet' \ cursor.seen, f \in cursor.seen :
                          e.seq > cursor.since => f.seq < e.seq
  BY <1>4, <1>5 DEF Follows
<1> QED
  BY <1>1, <1>3, <1>6, <1>7 DEF Follows

\* A page of the reader: what it delivers is all there is up to the last event
\* of the page, for what it did not see in the live file comes after it.
LEMMA ReadKeepsFollows ==
  ASSUME SeqInv, CursorOK, Ordered, Follows, Read
  PROVE  Follows'
<1>1. UNCHANGED <<setting, pc, mine, lock, stored, counter, logVars, accepted, made>>
  BY DEF Read
<1>2. /\ Written' = Written /\ LiveSet' = LiveSet /\ InArchives' = InArchives /\ Visible' = Visible
      /\ LiveSet \subseteq Written /\ InArchives \subseteq Written /\ Visible = LiveSet \cup InArchives
      /\ \A e \in Written : e.seq \in Nat \ {0}
  <2>1. files' = files /\ live' = live /\ archives' = archives
    BY <1>1 DEF logVars
  <2>2. Written' = Written /\ LiveSet' = LiveSet /\ InArchives' = InArchives /\ Visible' = Visible
    BY <2>1 DEF Written, LiveSet, Content, InArchives, Visible
  <2> QED
    BY <2>2, WrittenNumbers
<1>3. CASE ReadLive
  <2>1. cursor' = [cursor EXCEPT !.reading = TRUE, !.seen = Later(LiveSet)]
    BY <1>3 DEF ReadLive, LiveSet
  <2>2. cursor'.seen = Later(LiveSet) /\ cursor'.since = cursor.since /\ cursor'.got = cursor.got
    BY <2>1 DEF CursorOK
  <2> QED
    BY <1>2, <2>2 DEF Follows, Later
<1>4. CASE ReadArchives
  <2> DEFINE found == cursor.seen \cup Later(InArchives)
             Below(e) == {f \in found : f.seq < e.seq}
             batch == {e \in found : Cardinality(Below(e)) < setting.reads}
             T == {e.seq : e \in batch} \cup {cursor.since}
  <2>1. /\ cursor'.since = Max(T) /\ cursor'.got = cursor.got \cup batch
        /\ ~cursor'.reading /\ cursor'.seen = {} /\ cursor.reading
    BY <1>4 DEF ReadArchives
  <2>2. found \subseteq Written /\ batch \subseteq found
    BY <1>2 DEF Later, Follows
  <2>3. cursor.since \in Nat
    BY DEF Follows
  <2>4. cursor'.since \in T
    <3>1. \A e \in Written : e.seq \in 1 .. LastGiven
      BY DEF SeqInv, Numbered, Known
    <3>2. LastGiven \in Nat
      BY DEF SeqInv, LastGiven, LogTypeOK
    <3>3. T \subseteq 0 .. LastGiven + cursor.since /\ T # {}
      <4>1. \A e \in batch : e.seq \in 0 .. LastGiven + cursor.since
        BY <2>2, <2>3, <3>1, <3>2
      <4>2. cursor.since \in 0 .. LastGiven + cursor.since
        BY <2>3, <3>2
      <4> HIDE DEF batch
      <4> QED
        BY <4>1, <4>2
    <3>4. LastGiven + cursor.since \in Nat
      BY <2>3, <3>2
    <3> HIDE DEF T
    <3> QED
      BY <2>1, <3>3, <3>4, MaxOfBounded
  <2>5. ASSUME NEW e \in found, NEW b \in batch, e.seq <= b.seq
        PROVE  e \in batch
    <3>1. b \in found /\ Cardinality(Below(b)) < setting.reads /\ e.seq \in Nat /\ b.seq \in Nat
      BY <1>2, <2>2
    <3>2. \A f \in found : f.seq \in Nat
      BY <1>2, <2>2
    <3>3. Below(e) \subseteq Below(b)
      BY <2>5, <3>1, <3>2
    <3>4. IsFiniteSet(Below(b))
      <4>1. Below(b) \subseteq Written
        BY <2>2
      <4> HIDE DEF Below
      <4> QED
        BY <4>1, WrittenNumbers, FS_Subset
    <3>5. /\ Cardinality(Below(e)) <= Cardinality(Below(b))
          /\ Cardinality(Below(e)) \in Nat /\ Cardinality(Below(b)) \in Nat
      <4> HIDE DEF Below
      <4> QED
        BY <3>3, <3>4, FS_Subset, FS_CardinalityType
    <3>6. setting.reads \in Nat
      BY DEF SeqInv, LogTypeOK, EventLogAssumption
    <3>7. Cardinality(Below(e)) < setting.reads
      <4> HIDE DEF Below
      <4> QED
        BY <3>1, <3>5, <3>6
    <3> QED
      BY <3>7
  <2>6. ASSUME NEW e \in Visible, NEW b \in batch, e.seq <= b.seq, e.seq > cursor.since
        PROVE  e \in found
    <3>1. b \in cursor.seen \/ b \in InArchives
      BY <2>2 DEF Later
    <3>2. e.seq \in Nat /\ b.seq \in Nat
      BY <1>2, <2>2
    <3>3. CASE e \in InArchives
      BY <2>6, <3>3 DEF Later
    <3>4. CASE e \in LiveSet /\ e \notin cursor.seen
      <4>1. b.seq < e.seq
        BY <2>1, <2>6, <3>1, <3>4 DEF Follows, Ordered
      <4> QED
        BY <2>6, <3>2, <4>1
    <3> QED
      BY <1>2, <3>3, <3>4
  <2>7. ASSUME NEW e \in Visible, e.seq <= cursor'.since PROVE e \in cursor'.got
    <3>1. CASE e.seq <= cursor.since
      BY <2>1, <3>1 DEF Follows
    <3>2. CASE e.seq > cursor.since /\ cursor'.since # cursor.since
      <4>1. PICK b \in batch : cursor'.since = b.seq
        <5> HIDE DEF batch
        <5> QED
          BY <2>4, <3>2
      <4>2. e \in batch
        <5> HIDE DEF batch, found
        <5> QED
          BY <2>5, <2>6, <2>7, <3>2, <4>1
      <4> HIDE DEF batch
      <4> QED
        BY <2>1, <4>2
    <3>3. e.seq \in Nat
      BY <1>2
    <3> QED
      BY <2>3, <2>7, <3>1, <3>2, <3>3
  <2>8. cursor'.since \in Nat /\ (cursor'.since = 0 \/ \E f \in Written : cursor'.since <= f.seq)
    <3>1. CASE cursor'.since = cursor.since
      BY <3>1 DEF Follows
    <3>2. CASE cursor'.since # cursor.since
      <4>1. PICK b \in batch : cursor'.since = b.seq
        <5> HIDE DEF batch
        <5> QED
          BY <2>4, <3>2
      <4>2. b \in Written /\ b.seq \in Nat
        BY <1>2, <2>2
      <4> QED
        BY <4>1, <4>2
    <3> QED
      BY <3>1, <3>2
  <2> HIDE DEF batch
  <2> QED
    BY <1>2, <2>1, <2>7, <2>8 DEF Follows
<1> QED
  BY <1>3, <1>4 DEF Read

-----------------------------------------------------------------------------
(* What stays. *)

\* With one family, and nobody held up for so long that its lock is taken.
CalmInv == Calm => /\ Exclusive /\ \A w \in Writer : CompactPart(w)
                   /\ Lasting /\ Ordered /\ Follows

KeepInv == SeqInv /\ CursorOK /\ OwnEvents /\ Uncompacted /\ CalmInv

\* The log as it is created.
LEMMA KeepInvInit == Init => KeepInv
<1> SUFFICES ASSUME Init PROVE KeepInv
  OBVIOUS
<1>1. SeqInv
  BY SeqInvInit
<1>2. /\ cursor = [since |-> 0, got |-> {}, reading |-> FALSE, seen |-> {}]
      /\ files = <<<<Birth>>>> /\ live = 1 /\ archives = {} /\ accepted = {Birth} /\ pruned = {}
      /\ ToSet(<<Birth>>) = {Birth} /\ ToSet(<< >>) = {} /\ Birth.seq = 1
  BY DEF Init, ToSet, Birth
<1>3. \A w \in Writer : /\ pc[w] = "idle" /\ mine[w].events = << >> /\ ~mine[w].wrote
                        /\ mine[w].kept = << >> /\ mine[w].tail = << >> /\ mine[w].stale = None
  BY DEF Init, Blank
<1>4. Written = {Birth} /\ LiveSet = {Birth} /\ InArchives = {} /\ Visible = {Birth}
  <2>1. Len(files) = 1 /\ files[1] = <<Birth>> /\ 1 .. 1 = {1}
    BY <1>2
  <2>2. Content(live) = <<Birth>>
    BY <1>2, <2>1 DEF Content
  <2>3. LiveSet = {Birth} /\ InArchives = {}
    BY <1>2, <2>2 DEF LiveSet, InArchives
  <2>4. Written = {Birth}
    BY <1>2, <2>1 DEF Written
  <2> QED
    BY <2>3, <2>4 DEF Visible, LiveSet
<1>5. CursorOK
  <2>1. cursor.seen = {} /\ 0 \in Nat
    BY <1>2
  <2>2. \E n \in Nat : \A e \in cursor.seen : e.seq <= n
    BY <2>1
  <2> QED
    BY <1>2, <2>2 DEF CursorOK
<1>6. OwnEvents
  <2>1. \A w \in Writer : OwnPart(w)
    BY <1>2, <1>3 DEF OwnPart, Events, Copies, NoRepeat
  <2> QED
    BY <1>2, <1>4, <2>1 DEF OwnEvents
<1>7. Uncompacted
  <2>1. Len(files) = 1 /\ 1 .. 1 = {1} /\ files[1] = <<Birth>> /\ Len(<<Birth>>) = 1
    BY <1>2
  <2>2. NoRepeat(files[1])
    BY <2>1 DEF NoRepeat
  <2> QED
    BY <1>2, <1>3, <2>1, <2>2 DEF Uncompacted, Compacting
<1>8. Exclusive
  BY <1>3 DEF Exclusive, Inside, Resting, Ours, None
<1>9. \A w \in Writer : CompactPart(w)
  BY <1>3 DEF CompactPart, Compacting
<1>10. Lasting
  BY <1>2, <1>3, <1>4 DEF Lasting, Above, Inside, Resting
<1>11. Ordered /\ Follows
  BY <1>2, <1>4 DEF Ordered, Follows
<1> QED
  BY <1>1, <1>5, <1>6, <1>7, <1>8, <1>9, <1>10, <1>11 DEF KeepInv, CalmInv

\* A step that leaves the files and the writers' records alone: a kill, a
\* reader's step, a pause.
LEMMA OthersKeepAll ==
  ASSUME KeepInv, UNCHANGED <<setting, mine, files, live, archives, pruned, accepted>>,
         \A w \in Writer : pc'[w] = pc[w] \/ pc'[w] = "dead"
  PROVE  /\ OwnEvents' /\ Uncompacted' /\ Calm' = Calm
         /\ Calm /\ lock' = lock => Exclusive'
         /\ Calm /\ cursor' = cursor => Follows'
         /\ Calm => Lasting' /\ Ordered' /\ \A w \in Writer : CompactPart(w)'
<1>1. /\ Written' = Written /\ Visible' = Visible /\ LiveSet' = LiveSet /\ InArchives' = InArchives
      /\ Size' = Size /\ Calm' = Calm /\ Ours' = Ours
  BY DEF Written, Visible, LiveSet, InArchives, Size, Content, Calm, OneFamily, Ours
<1>2. ASSUME NEW w \in Writer
      PROVE  /\ Events(w)' = Events(w) /\ Copies(w)' = Copies(w)
             /\ (Compacting(w)' => Compacting(w)) /\ (Inside(w)' => Inside(w)) /\ (Late(w) => Late(w)')
  BY DEF Events, Copies, Compacting, Inside, Resting, Late
<1>3. OwnEvents'
  BY <1>1, <1>2 DEF KeepInv, OwnEvents, OwnPart
<1>4. Uncompacted'
  BY <1>1, <1>2 DEF KeepInv, Uncompacted
<1>5. ASSUME Calm
      PROVE  /\ lock' = lock => Exclusive'
             /\ cursor' = cursor => Follows'
             /\ Lasting' /\ Ordered' /\ \A w \in Writer : CompactPart(w)'
  <2>1. Exclusive /\ (\A w \in Writer : CompactPart(w)) /\ Lasting /\ Ordered /\ Follows
    BY <1>5 DEF KeepInv, CalmInv
  <2>2. lock' = lock => Exclusive'
    BY <1>1, <1>2, <2>1 DEF Exclusive, Sync
  <2>3. ASSUME NEW w \in Writer PROVE CompactPart(w)'
    BY <1>1, <1>2, <2>1 DEF CompactPart
  <2>4. Lasting' /\ Ordered' /\ (cursor' = cursor => Follows')
    BY <1>1, <1>2, <2>1 DEF Lasting, Above, Ordered, Follows
  <2> QED
    BY <2>2, <2>3, <2>4
<1> QED
  BY <1>1, <1>3, <1>4, <1>5

\* A kill leaves the family's lock to those it does not hit.
LEMMA KillKeepsExclusive ==
  ASSUME KeepInv, Calm, NEW p \in Process, Kill(p)
  PROVE  Exclusive'
<1>1. /\ Exclusive /\ Ours \in Lock /\ Dead \notin Writer /\ Free \notin Writer
      /\ Ours' = Ours /\ setting' = setting /\ mine' = mine
  BY DEF KeepInv, CalmInv, Ours, Lock, Kill
<1>2. ASSUME NEW w \in Writer, Inside(w)' PROVE w \in setting.writers /\ lock'[Ours] = w
  <2>1. Inside(w) /\ Home[w] # p
    BY <1>2 DEF Kill, Inside, Resting
  <2>2. w \in setting.writers /\ lock[Ours] = w
    BY <1>1, <2>1 DEF Exclusive
  <2> QED
    BY <1>1, <2>1, <2>2 DEF Kill
<1>3. ASSUME NEW w \in Writer, mine[w].stale = Ours PROVE w \in setting.reclaimers /\ lock'[Ours] = Dead
  BY <1>1, <1>3 DEF Exclusive, Kill
<1>4. \A w \in Writer : pc'[w] = "nested" => Sync(w)'
  BY <1>1 DEF Exclusive, Sync, Kill
<1> QED
  BY <1>1, <1>2, <1>3, <1>4 DEF Exclusive

\* Every step keeps the whole invariant.
LEMMA KeepInvNext == KeepInv /\ [Next]_vars => KeepInv'
<1> SUFFICES ASSUME KeepInv, [Next]_vars PROVE KeepInv'
  OBVIOUS
<1>1. SeqInv' /\ CursorOK'
  BY SeqInvNext, CursorKept DEF KeepInv
<1>2. ASSUME NEW w \in Writer, Step(w) PROVE KeepInv'
  <2>1. OwnEvents' /\ Uncompacted' /\ Calm' = Calm
    BY <1>2, OwnEventsKept, UncompactedKept, SettingStays DEF KeepInv
  <2>2. ASSUME Calm
        PROVE  Exclusive' /\ (\A v \in Writer : CompactPart(v)') /\ Lasting' /\ Ordered' /\ Follows'
    <3>1. /\ SeqInv /\ OwnEvents /\ Exclusive /\ Lasting /\ Ordered /\ Follows
          /\ \A v \in Writer : CompactPart(v)
      BY <2>2 DEF KeepInv, CalmInv
    <3>2. Exclusive'
      BY <1>2, <2>2, <3>1, ExclusiveKept
    <3>3. \A v \in Writer : CompactPart(v)'
      BY <1>2, <3>1, CompactKept
    <3>4. Lasting' /\ Ordered' /\ Follows'
      BY <1>2, <2>2, <3>1, LastingKept, OrderedKept, FollowsKept
    <3> QED
      BY <3>2, <3>3, <3>4
  <2> QED
    BY <1>1, <2>1, <2>2 DEF KeepInv, CalmInv
<1>3. ASSUME NEW p \in Process, Kill(p) PROVE KeepInv'
  <2>1. /\ UNCHANGED <<setting, mine, files, live, archives, pruned, accepted>> /\ cursor' = cursor
        /\ \A w \in Writer : pc'[w] = pc[w] \/ pc'[w] = "dead"
    BY <1>3 DEF Kill, logVars
  <2> QED
    BY <1>1, <1>3, <2>1, OthersKeepAll, KillKeepsExclusive DEF KeepInv, CalmInv
<1>4. CASE Read \/ Finished \/ UNCHANGED vars
  <2>1. /\ UNCHANGED <<setting, pc, mine, lock, files, live, archives, pruned, accepted>>
        /\ Read \/ cursor' = cursor
    BY <1>4 DEF Read, Finished, vars, logVars
  <2>2. Calm => Follows'
    BY <2>1, OthersKeepAll, ReadKeepsFollows DEF KeepInv, CalmInv
  <2> QED
    BY <1>1, <2>1, <2>2, OthersKeepAll DEF KeepInv, CalmInv
<1> QED
  BY <1>2, <1>3, <1>4 DEF Next

\* The whole invariant holds throughout.
LEMMA KeptAlways == Spec => []KeepInv
BY KeepInvInit, KeepInvNext, PTL DEF Spec

\* An event whose append returned it as persisted stays readable, in the log or
\* in an archive, or was seen and left out by a compaction: with one family of
\* writers whose locks are not taken from living holders always, and with any
\* writers until the first compaction (rotateEventLogUnlocked loses nothing,
\* applyCompactionUnlocked only what it prunes).
THEOREM AcceptedAlwaysStays == Spec => []AcceptedStays
<1>1. KeepInv => AcceptedStays
  <2> SUFFICES ASSUME KeepInv PROVE AcceptedStays
    OBVIOUS
  <2>1. CASE pruned = {}
    <3>1. 1 .. Len(files) \subseteq archives \cup {live} /\ accepted \subseteq Written
      BY <2>1 DEF KeepInv, Uncompacted, OwnEvents
    <3>2. Written \subseteq Visible
      <4>1. ASSUME NEW i \in 1 .. Len(files) PROVE ToSet(files[i]) \subseteq Visible
        <5>1. i \in archives \/ (i = live /\ live # 0)
          BY <3>1
        <5> QED
          BY <5>1 DEF Visible, InArchives, Content
      <4> QED
        BY <4>1 DEF Written
    <3> QED
      BY <3>1, <3>2 DEF AcceptedStays
  <2>2. CASE Calm
    BY <2>2 DEF KeepInv, CalmInv, Lasting, AcceptedStays
  <2> QED
    BY <2>1, <2>2 DEF AcceptedStays, Calm
<1> QED
  BY <1>1, KeptAlways, PTL

\* A reader that resumes from nextSeq has got every visible event up to there,
\* if one family writes: whatever the rotations, compactions, page limits and
\* kills between its reads of the live file and of the archives
\* (readEventsCursor).
THEOREM CursorAlwaysFollows == Spec => []CursorSkipsNothing
<1>1. KeepInv => CursorSkipsNothing
  BY DEF KeepInv, CalmInv, Calm, Follows, CursorSkipsNothing
<1> QED
  BY <1>1, KeptAlways, PTL
=============================================================================
