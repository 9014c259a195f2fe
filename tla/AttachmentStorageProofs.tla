----------------------- MODULE AttachmentStorageProofs ------------------------
(***************************************************************************)
(* Proofs about AttachmentStorage and AttachmentRestore, for every set of  *)
(* attachments and of requests, every bound and with or without failures   *)
(* of the host.  The inductive invariant StorageIInv says, of each row by  *)
(* its state and of each job by its next statement, what the directory     *)
(* holds.  It does not outlive a restore: RestoreIInv is what does.        *)
(***************************************************************************)
EXTENDS AttachmentRestore, TLAPS

Entries == [Names -> {"none", "own", "other"}]
Empty(l) == l.temp = "none" /\ l.final = "none" /\ l.quarantine = "none"
OnlyFinal(l) == l.temp = "none" /\ l.final = "own" /\ l.quarantine = "none"

\* The row of an attachment, its entries, those on the disk and in a former shard, and
\* whether its content is whole.
RowFacts(r, l, d, f, h) ==
  /\ r.state = "ABSENT" => r = NoRow /\ Empty(l) /\ Empty(d) /\ Empty(f)
  /\ r.state = "PENDING" =>
       /\ ~r.removed
       /\ l.quarantine = "none" /\ d.quarantine = "none" /\ f.quarantine = "none"
       /\ d.final \in {"none", l.final} /\ f.final = "none"
       /\ l.final # "none" => l.final = "own" /\ r.identified /\ h
       /\ r.published =>
            /\ r.identified /\ h /\ Empty(f)
            /\ (l.final = "own" /\ d.final = "own") \/ (Empty(l) /\ Empty(d))
  /\ r.state = "ACTIVE" =>
       /\ r.published /\ r.identified /\ ~r.removed /\ h /\ Empty(f)
       /\ (OnlyFinal(l) /\ OnlyFinal(d)) \/ (Empty(l) /\ Empty(d))
  /\ r.state = "ARCHIVED" => l.temp = "none" /\ d.temp = "none" /\ f.temp = "none"
  /\ r.state = "DELETED" =>
       /\ ~r.published /\ ~r.removed
       /\ l.final = "none" /\ d.final = "none" /\ f.final = "none"

\* What a job relies on at its next statement.
JobFacts(pc, r, l, d, f, h) ==
  /\ pc \in Unpublished \cup {"up.link", "undo.temp", "undo.row"} => ~r.published
  /\ pc \in Unpublished \cup {"undo.temp", "undo.row"} => l.final = "none"
  /\ pc \in Unpublished \cup Publishing \cup Recovering
              \cup {"up.activate", "undo.temp", "undo.row"}
       => r.state = "PENDING"
  /\ pc \in {"up.anchor", "up.temp", "up.stale"} => Empty(l) /\ Empty(d)
  /\ pc \in Unpublished \cup Publishing => Empty(f)
  /\ pc \in {"up.write", "up.identify", "up.link"} => l.temp = "own"
  /\ pc \in {"up.identify", "up.link"} => h
  /\ pc = "up.link" => r.identified
  /\ pc \in {"up.sync", "up.mark"} => l.final = "own"
  /\ pc = "up.mark" => d.final = "own"
  /\ pc \in {"up.untemp", "up.settle", "up.activate"} \cup (Recovering \ {"rec.check"})
       => r.published /\ l.final = "own" /\ d.final = "own"
  /\ pc \in {"up.settle", "up.activate", "undo.row", "rec.settle", "rec.activate"}
       => l.temp = "none"
  /\ pc \in {"up.activate", "rec.activate"} => d.temp = "none"
  /\ pc \in Cleaning => r.state = "ARCHIVED" /\ ~r.removed
  /\ pc = "cln.move" => l.quarantine = "none"
  /\ pc = "cln.drop" => l.final = "none"
  /\ pc \in {"cln.rmdir", "cln.mark"} => Empty(l)

RowsSound == \A a \in Attachments : RowFacts(row[a], live[a], disk[a], former[a], whole[a])

JobsFit ==
  \A w \in Workers : job[w] # Idle =>
    LET a == job[w].on IN JobFacts(job[w].pc, row[a], live[a], disk[a], former[a], whole[a])

\* Apart from requests that are about to archive it, no other worker is busy with a.
Alone(w, a) ==
  \A v \in Workers \ {w} : job[v] # Idle /\ job[v].on = a => At(v, "arc.update")

OneBusy == \A w \in Workers : job[w] # Idle /\ ~At(w, "arc.update") => Alone(w, job[w].on)

ShardHolds ==
  /\ \A a \in Attachments : ~Empty(live[a]) => shard
  /\ \A w \in Workers : At(w, "up.temp") => shard

QueueFits ==
  /\ phase = "up" => queue = {}
  /\ phase = "pending" => \A a \in queue : row[a].state = "PENDING"
  /\ phase = "archived" => \A a \in queue : row[a].state = "ARCHIVED" /\ ~row[a].removed
  /\ \A w \in Workers : job[w] # Idle => job[w].on \notin queue

StorageIInv == TypeOK /\ RowsSound /\ JobsFit /\ OneBusy /\ ShardHolds /\ QueueFits

-----------------------------------------------------------------------------
(***************************************************************************)
(* Operators.                                                              *)
(***************************************************************************)

\* The three names of a directory entry say everything of it.
LEMMA EntriesEqual ==
  ASSUME NEW l \in Entries
  PROVE  /\ Empty(l) <=> l = NoEntries
         /\ OnlyFinal(l) <=> l = [NoEntries EXCEPT !.final = "own"]
         /\ l.temp \in {"none", "own", "other"} /\ l.final \in {"none", "own", "other"}
         /\ l.quarantine \in {"none", "own", "other"}
BY DEF Entries, Empty, OnlyFinal, NoEntries, Names

\* An attachment starts with no entry.
LEMMA NoEntriesEmpty == NoEntries \in Entries /\ Empty(NoEntries)
BY DEF Entries, Empty, NoEntries, Names

\* An attachment starts without a row.
LEMMA NoRowTyped == NoRow \in AttachmentRow
<1>1. 0 \in 0..CleanupAttempts
  BY StorageAssumption
<1> QED
  BY <1>1 DEF NoRow, AttachmentRow

\* A request that is about to archive relies on nothing.
LEMMA NothingAssumed ==
  ASSUME NEW r, NEW l, NEW d, NEW f, NEW h
  PROVE  JobFacts("arc.update", r, l, d, f, h)
BY DEF JobFacts, Unpublished, Publishing, Recovering, Cleaning

\* An fsync of the directory disturbs nothing that is said of a row or of a job.
LEMMA SyncKeepsFacts ==
  ASSUME NEW r, NEW l, NEW d, NEW f, NEW h, RowFacts(r, l, d, f, h)
  PROVE  /\ RowFacts(r, l, l, f, h)
         /\ \A pc : JobFacts(pc, r, l, d, f, h) => JobFacts(pc, r, l, l, f, h)
<1>1. RowFacts(r, l, l, f, h)
  BY DEF RowFacts, Empty, OnlyFinal
<1>2. ASSUME NEW pc, JobFacts(pc, r, l, d, f, h)
      PROVE  JobFacts(pc, r, l, l, f, h)
  BY <1>2 DEF JobFacts
<1> QED
  BY <1>1, <1>2

\* Nor does the removal of the shard when it is empty, whether or not its parent on the disk
\* still leads to it.
LEMMA RemovalKeepsFacts ==
  ASSUME NEW r, NEW l, NEW d, NEW f, NEW h, RowFacts(r, l, d, f, h), Empty(l)
  PROVE  /\ RowFacts(r, l, l, d, h)
         /\ \A pc : JobFacts(pc, r, l, d, f, h) => JobFacts(pc, r, l, l, d, h)
<1>1. RowFacts(r, l, l, d, h)
  BY DEF RowFacts, Empty, OnlyFinal
<1>2. ASSUME NEW pc, JobFacts(pc, r, l, d, f, h)
      PROVE  JobFacts(pc, r, l, l, d, h)
  <2>1. pc \in Unpublished \cup Publishing => Empty(d)
    BY <1>2 DEF JobFacts, RowFacts, Empty, Unpublished, Publishing
  <2> QED
    BY <1>2, <2>1 DEF JobFacts, Empty, Unpublished, Publishing, Recovering
<1> QED
  BY <1>1, <1>2

\* The statements of a job, and the attachment it is on.
Pcs == Unpublished \cup Publishing \cup Recovering \cup Cleaning
         \cup {"up.activate", "undo.temp", "undo.row", "arc.update"}

On(w) == job[w].on
Working(w) == job[w].pc \notin {"idle", "arc.update"}

\* What it says of an attachment.
LEMMA OfAttachment ==
  ASSUME StorageIInv, NEW a \in Attachments
  PROVE  /\ row[a] \in AttachmentRow /\ live[a] \in Entries /\ disk[a] \in Entries
         /\ whole[a] \in BOOLEAN /\ former[a] \in Entries
         /\ RowFacts(row[a], live[a], disk[a], former[a], whole[a])
         /\ ~Empty(live[a]) => shard
BY DEF StorageIInv, TypeOK, Entries, RowsSound, ShardHolds

\* What the invariant says of a worker that is busy.
LEMMA Own ==
  ASSUME StorageIInv, NEW w \in Workers, job[w].pc # "idle"
  PROVE  /\ job[w] # Idle /\ job[w] \in Jobs /\ On(w) \in Attachments /\ On(w) \notin queue
         /\ JobFacts(job[w].pc, row[On(w)], live[On(w)], disk[On(w)], former[On(w)], whole[On(w)])
         /\ row[On(w)] \in AttachmentRow /\ live[On(w)] \in Entries /\ disk[On(w)] \in Entries
         /\ whole[On(w)] \in BOOLEAN
         /\ RowFacts(row[On(w)], live[On(w)], disk[On(w)], former[On(w)], whole[On(w)])
         /\ ~Empty(live[On(w)]) => shard
         /\ Working(w) => Alone(w, On(w))
<1>1. job[w] # Idle /\ job[w] \in Jobs /\ On(w) \in Attachments
  BY DEF StorageIInv, TypeOK, Idle, Jobs, On
<1>2. /\ JobFacts(job[w].pc, row[On(w)], live[On(w)], disk[On(w)], former[On(w)], whole[On(w)])
      /\ On(w) \notin queue /\ (Working(w) => Alone(w, On(w)))
  BY <1>1 DEF StorageIInv, JobsFit, OneBusy, QueueFits, At, On, Working
<1> QED
  BY <1>1, <1>2, OfAttachment

\* A worker whose next statement changes has a job like the one before.
LEMMA NextStatement ==
  ASSUME StorageIInv, NEW w \in Workers, job[w].pc # "idle", NEW pc \in Pcs, GoTo(w, pc)
  PROVE  \E j \in Jobs : job' = [job EXCEPT ![w] = j] /\ j.pc = pc /\ j.on = On(w)
<1> DEFINE j == [job[w] EXCEPT !.pc = pc]
<1>1. job[w] \in Jobs
  BY Own
<1>2. j \in Jobs /\ j.pc = pc /\ j.on = On(w)
  BY <1>1 DEF Jobs, Pcs, On
<1>3. job' = [job EXCEPT ![w] = j]
  BY DEF GoTo
<1> QED
  BY <1>2, <1>3

-----------------------------------------------------------------------------
(***************************************************************************)
(* Steps of one worker on one attachment.                                  *)
(***************************************************************************)

\* A step that leaves row and entries of a in a state that fits, and moves to a statement
\* that may rely on it, keeps the invariant.
LEMMA JobStep ==
  ASSUME StorageIInv, NEW w \in Workers, NEW a \in Attachments,
         NEW r \in AttachmentRow, NEW l \in Entries, NEW h \in BOOLEAN,
         NEW j \in {Idle} \cup Jobs,
         row' = [row EXCEPT ![a] = r], live' = [live EXCEPT ![a] = l],
         whole' = [whole EXCEPT ![a] = h], job' = [job EXCEPT ![w] = j],
         shard' = shard \/ shard' = TRUE, UNCHANGED <<disk, anchored, former, phase, queue>>,
         a \notin queue,
         RowFacts(r, l, disk[a], former[a], h),
         j # Idle => j.on = a /\ JobFacts(j.pc, r, l, disk[a], former[a], h),
         ~Empty(l) \/ j.pc = "up.temp" => shard',
         (r = row[a] /\ l = live[a] /\ h = whole[a]) \/ Alone(w, a),
         j = Idle \/ j.pc = "arc.update" \/ Alone(w, a)
  PROVE  StorageIInv'
<1>1. /\ \A b \in Attachments : /\ row'[b] = IF b = a THEN r ELSE row[b]
                                /\ live'[b] = IF b = a THEN l ELSE live[b]
                                /\ whole'[b] = IF b = a THEN h ELSE whole[b]
                                /\ disk'[b] = disk[b]
      /\ \A v \in Workers : job'[v] = IF v = w THEN j ELSE job[v]
  BY DEF StorageIInv, TypeOK
<1>2. TypeOK'
  BY DEF StorageIInv, TypeOK, Entries
<1>3. RowsSound'
  BY <1>1 DEF StorageIInv, RowsSound
<1>4. JobsFit'
  <2>1. SUFFICES ASSUME NEW v \in Workers, job'[v] # Idle, v # w
                 PROVE  LET b == job[v].on IN
                        JobFacts(job[v].pc, row'[b], live'[b], disk[b], former[b], whole'[b])
    BY <1>1 DEF JobsFit
  <2>2. job[v] # Idle /\ job[v].on \in Attachments
    BY <1>1, <2>1 DEF StorageIInv, TypeOK, Jobs
  <2>3. LET b == job[v].on IN JobFacts(job[v].pc, row[b], live[b], disk[b], former[b], whole[b])
    BY <2>2 DEF StorageIInv, JobsFit
  <2>4. CASE job[v].on = a /\ Alone(w, a)
    BY <2>1, <2>2, <2>4, NothingAssumed DEF Alone, At
  <2> QED
    BY <1>1, <2>2, <2>3, <2>4
<1>5. OneBusy'
  BY <1>1 DEF StorageIInv, OneBusy, Alone, At
<1>6. ShardHolds'
  <2>1. shard => shard'
    OBVIOUS
  <2>2. ASSUME NEW b \in Attachments, ~Empty(live'[b])
        PROVE  shard'
    BY <1>1, <2>1, <2>2 DEF StorageIInv, ShardHolds
  <2>3. ASSUME NEW v \in Workers, job'[v].pc = "up.temp"
        PROVE  shard'
    BY <1>1, <2>1, <2>3 DEF StorageIInv, ShardHolds, At
  <2> QED
    BY <2>2, <2>3 DEF ShardHolds, At, Empty
<1>7. QueueFits'
  BY <1>1 DEF StorageIInv, QueueFits, TypeOK
<1> QED
  BY <1>2, <1>3, <1>4, <1>5, <1>6, <1>7 DEF StorageIInv

\* What is said of a row and its entries is said of no others when they do not change.
LEMMA SameAttachment ==
  ASSUME StorageIInv, NEW a \in Attachments
  PROVE  /\ UNCHANGED row => row' = [row EXCEPT ![a] = row[a]]
         /\ UNCHANGED live => live' = [live EXCEPT ![a] = live[a]]
         /\ UNCHANGED whole => whole' = [whole EXCEPT ![a] = whole[a]]
BY DEF StorageIInv, TypeOK

\* A step that changes nothing but the job of a worker, to one that may rely on what it finds.
LEMMA OnlyJobStep ==
  ASSUME StorageIInv, NEW w \in Workers, NEW j \in {Idle} \cup Jobs,
         job' = [job EXCEPT ![w] = j],
         UNCHANGED <<row, live, disk, whole, shard, anchored, former, phase, queue>>,
         j # Idle => /\ j.on \notin queue
                     /\ JobFacts(j.pc, row[j.on], live[j.on], disk[j.on], former[j.on], whole[j.on])
                     /\ j.pc = "arc.update" \/ Alone(w, j.on),
         j.pc = "up.temp" => shard
  PROVE  StorageIInv'
<1>1. \A v \in Workers : job'[v] = IF v = w THEN j ELSE job[v]
  BY DEF StorageIInv, TypeOK
<1>2. TypeOK' /\ RowsSound'
  BY DEF StorageIInv, TypeOK, RowsSound
<1>3. JobsFit'
  BY <1>1 DEF StorageIInv, JobsFit
<1>4. OneBusy'
  BY <1>1 DEF StorageIInv, OneBusy, Alone, At
<1>5. ShardHolds' /\ QueueFits'
  BY <1>1 DEF StorageIInv, ShardHolds, QueueFits, At, Empty
<1> QED
  BY <1>2, <1>3, <1>4, <1>5 DEF StorageIInv

\* A job ends and leaves everything as it is.
LEMMA JobEnds ==
  ASSUME StorageIInv, NEW w \in Workers, job[w].pc # "idle", Done(w),
         UNCHANGED <<row, files, boot>>
  PROVE  StorageIInv'
<1>1. UNCHANGED <<row, live, whole, disk, shard, anchored, former, phase, queue>>
      /\ job' = [job EXCEPT ![w] = Idle] /\ Idle.pc # "up.temp"
  BY DEF Done, files, parent, boot, Idle
<1> QED
  BY <1>1, OnlyJobStep

\* A job goes on and changes neither the row nor a file.
LEMMA JobMoves ==
  ASSUME StorageIInv, NEW w \in Workers, Working(w), NEW pc \in Pcs \ {"up.temp"}, GoTo(w, pc),
         UNCHANGED <<row, files, boot>>,
         JobFacts(pc, row[On(w)], live[On(w)], disk[On(w)], former[On(w)], whole[On(w)])
  PROVE  StorageIInv'
<1>1. UNCHANGED <<row, live, whole, disk, shard, anchored, former, phase, queue>>
  BY DEF files, parent, boot
<1>2. job[w].pc # "idle"
  BY DEF Working
<1>3. PICK j \in Jobs : job' = [job EXCEPT ![w] = j] /\ j.pc = pc /\ j.on = On(w)
  BY <1>2, NextStatement
<1>4. On(w) \notin queue /\ Alone(w, On(w))
  BY <1>2, Own
<1> QED
  BY <1>1, <1>3, <1>4, OnlyJobStep

\* A job ends with a change of its row.
LEMMA RowEnds ==
  ASSUME StorageIInv, NEW w \in Workers, job[w].pc # "idle", Alone(w, On(w)),
         NEW r \in AttachmentRow,
         row' = [row EXCEPT ![On(w)] = r], Done(w), UNCHANGED <<files, boot>>,
         RowFacts(r, live[On(w)], disk[On(w)], former[On(w)], whole[On(w)])
  PROVE  StorageIInv'
<1>1. UNCHANGED <<live, whole, disk, shard, anchored, former, phase, queue>>
      /\ job' = [job EXCEPT ![w] = Idle] /\ Idle.pc # "up.temp"
  BY DEF Done, files, parent, boot, Idle
<1>2. /\ On(w) \in Attachments /\ On(w) \notin queue
      /\ row[On(w)] \in AttachmentRow /\ live[On(w)] \in Entries /\ whole[On(w)] \in BOOLEAN
      /\ RowFacts(row[On(w)], live[On(w)], disk[On(w)], former[On(w)], whole[On(w)])
      /\ ~Empty(live[On(w)]) => shard
      /\ Working(w) => Alone(w, On(w))
  BY Own
<1>3. /\ live' = [live EXCEPT ![On(w)] = live[On(w)]]
      /\ whole' = [whole EXCEPT ![On(w)] = whole[On(w)]]
  BY <1>1, <1>2, SameAttachment
<1> QED
  BY <1>1, <1>2, <1>3, JobStep

\* A job goes on with a change of its row.
LEMMA RowMoves ==
  ASSUME StorageIInv, NEW w \in Workers, job[w].pc # "idle", Alone(w, On(w)),
         NEW r \in AttachmentRow,
         row' = [row EXCEPT ![On(w)] = r], NEW pc \in Pcs \ {"up.temp"}, GoTo(w, pc),
         UNCHANGED <<files, boot>>,
         RowFacts(r, live[On(w)], disk[On(w)], former[On(w)], whole[On(w)]),
         JobFacts(pc, r, live[On(w)], disk[On(w)], former[On(w)], whole[On(w)])
  PROVE  StorageIInv'
<1>1. UNCHANGED <<live, whole, disk, shard, anchored, former, phase, queue>>
  BY DEF files, parent, boot
<1>2. PICK j \in Jobs : job' = [job EXCEPT ![w] = j] /\ j.pc = pc /\ j.on = On(w)
  BY NextStatement
<1>3. /\ On(w) \in Attachments /\ On(w) \notin queue
      /\ row[On(w)] \in AttachmentRow /\ live[On(w)] \in Entries /\ whole[On(w)] \in BOOLEAN
      /\ RowFacts(row[On(w)], live[On(w)], disk[On(w)], former[On(w)], whole[On(w)])
      /\ ~Empty(live[On(w)]) => shard
      /\ Working(w) => Alone(w, On(w))
  BY Own
<1>4. /\ live' = [live EXCEPT ![On(w)] = live[On(w)]]
      /\ whole' = [whole EXCEPT ![On(w)] = whole[On(w)]]
  BY <1>1, <1>3, SameAttachment
<1> QED
  BY <1>1, <1>2, <1>3, <1>4, JobStep

\* A job goes on with a change of the entries of its attachment.
LEMMA EntryMoves ==
  ASSUME StorageIInv, NEW w \in Workers, Working(w), NEW l \in Entries,
         live' = [live EXCEPT ![On(w)] = l], NEW pc \in Pcs \ {"up.temp"}, GoTo(w, pc),
         UNCHANGED <<row, disk, whole, shard, parent, boot>>, ~Empty(l) => shard,
         RowFacts(row[On(w)], l, disk[On(w)], former[On(w)], whole[On(w)]),
         JobFacts(pc, row[On(w)], l, disk[On(w)], former[On(w)], whole[On(w)])
  PROVE  StorageIInv'
<1>1. UNCHANGED <<anchored, former, phase, queue>>
  BY DEF boot, parent
<1>2. job[w].pc # "idle"
  BY DEF Working
<1>3. PICK j \in Jobs : job' = [job EXCEPT ![w] = j] /\ j.pc = pc /\ j.on = On(w)
  BY <1>2, NextStatement
<1>4. /\ On(w) \in Attachments /\ On(w) \notin queue
      /\ row[On(w)] \in AttachmentRow /\ live[On(w)] \in Entries /\ whole[On(w)] \in BOOLEAN
      /\ RowFacts(row[On(w)], live[On(w)], disk[On(w)], former[On(w)], whole[On(w)])
      /\ ~Empty(live[On(w)]) => shard
      /\ Working(w) => Alone(w, On(w))
  BY <1>2, Own
<1>5. /\ row' = [row EXCEPT ![On(w)] = row[On(w)]]
      /\ whole' = [whole EXCEPT ![On(w)] = whole[On(w)]]
  BY <1>1, <1>4, SameAttachment
<1> QED
  BY <1>1, <1>3, <1>4, <1>5, JobStep

\* An fsync of the directory, and a move to a statement that may rely on it.
LEMMA SyncMoves ==
  ASSUME StorageIInv, NEW w \in Workers, Working(w), NEW pc \in Pcs \ {"up.temp"},
         SyncDirectory(w, pc),
         JobFacts(pc, row[On(w)], live[On(w)], live[On(w)], former[On(w)], whole[On(w)])
  PROVE  StorageIInv'
<1>0. job[w].pc # "idle" /\ job[w] # Idle
  BY DEF Working, Idle
<1>1. PICK j \in Jobs : job' = [job EXCEPT ![w] = j] /\ j.pc = pc /\ j.on = On(w)
  BY <1>0, NextStatement DEF SyncDirectory
<1>2. /\ \A v \in Workers : job'[v] = IF v = w THEN j ELSE job[v]
      /\ disk' = live /\ UNCHANGED <<row, live, whole, shard, anchored, former, phase, queue>>
  BY <1>1 DEF StorageIInv, TypeOK, SyncDirectory, boot, parent
<1>3. TypeOK'
  BY <1>1, <1>2 DEF StorageIInv, TypeOK
<1>4. RowsSound'
  BY <1>2, SyncKeepsFacts DEF StorageIInv, RowsSound
<1>5. JobsFit'
  <2>1. SUFFICES ASSUME NEW v \in Workers, job'[v] # Idle, v # w
                 PROVE  JobFacts(job[v].pc, row[On(v)], live[On(v)], live[On(v)], former[On(v)],
                                 whole[On(v)])
    BY <1>1, <1>2 DEF JobsFit, On
  <2>2. job[v].pc # "idle"
    BY <1>2, <2>1 DEF StorageIInv, TypeOK, Jobs, Idle, Unpublished, Publishing, Recovering,
                      Cleaning
  <2> QED
    BY <2>2, Own, SyncKeepsFacts
<1>6. OneBusy'
  BY <1>1, <1>2, <1>0 DEF StorageIInv, OneBusy, Alone, At, On, Working
<1>7. ShardHolds'
  BY <1>1, <1>2 DEF StorageIInv, ShardHolds, At
<1>8. QueueFits'
  BY <1>0, <1>1, <1>2 DEF StorageIInv, QueueFits, On
<1> QED
  BY <1>3, <1>4, <1>5, <1>6, <1>7, <1>8 DEF StorageIInv

\* A failure that is counted, or whose count is lost, ends the job and changes nothing else.
LEMMA FailureMoves ==
  ASSUME StorageIInv, NEW w \in Workers, Working(w),
         NEW state \in {"PENDING", "ARCHIVED"}, RecordFailure(On(w), state) \/ UNCHANGED row,
         Done(w), UNCHANGED <<files, boot>>
  PROVE  StorageIInv'
<1> DEFINE r == [row[On(w)] EXCEPT !.attempts = @ + 1]
<1>1. CASE UNCHANGED row
  BY <1>1, JobEnds DEF Working
<1>2. CASE Retryable(On(w), state) /\ row' = [row EXCEPT ![On(w)].attempts = @ + 1]
  <2>1. On(w) \in Attachments /\ row[On(w)] \in AttachmentRow /\ row' = [row EXCEPT ![On(w)] = r]
        /\ row[On(w)].attempts < CleanupAttempts /\ row[On(w)].state = state
        /\ RowFacts(row[On(w)], live[On(w)], disk[On(w)], former[On(w)], whole[On(w)])
    BY <1>2, Own DEF Retryable, Working
  <2>2. row[On(w)].attempts + 1 \in 0..CleanupAttempts
    BY <2>1, StorageAssumption DEF AttachmentRow
  <2>3. /\ r \in AttachmentRow /\ r.state = state /\ r.identified = row[On(w)].identified
        /\ r.published = row[On(w)].published /\ r.removed = row[On(w)].removed
    BY <2>1, <2>2 DEF AttachmentRow
  <2> HIDE DEF r
  <2>4. RowFacts(r, live[On(w)], disk[On(w)], former[On(w)], whole[On(w)])
    BY <2>1, <2>3 DEF RowFacts
  <2> QED
    BY <2>1, <2>3, <2>4, Own, RowEnds DEF Working
<1> QED
  BY <1>1, <1>2 DEF RecordFailure

\* Who is busy with an attachment is uploading or recovering a PENDING row, or cleaning up
\* an ARCHIVED one.
LEMMA BusyState ==
  ASSUME StorageIInv, NEW a \in Attachments, row[a].state \in {"ABSENT", "ACTIVE", "DELETED"},
         NEW w
  PROVE  Alone(w, a)
<1>1. SUFFICES ASSUME NEW v \in Workers, job[v] # Idle, job[v].on = a, job[v].pc # "arc.update"
               PROVE  FALSE
  BY DEF Alone, At
<1>2. job[v] \in Jobs /\ JobFacts(job[v].pc, row[a], live[a], disk[a], former[a], whole[a])
  BY <1>1 DEF StorageIInv, JobsFit, TypeOK
<1> QED
  BY <1>1, <1>2 DEF Jobs, JobFacts, Unpublished, Publishing, Recovering, Cleaning

-----------------------------------------------------------------------------
(***************************************************************************)
(* The actions keep the invariant.                                         *)
(***************************************************************************)

\* storeAttachmentFile, the activation, and what follows when one of their calls fails.
LEMMA UploadKeeps ==
  ASSUME StorageIInv, NEW w \in Workers, Upload(w)
  PROVE  StorageIInv'
<1> USE DEF Unpublished, Publishing, Recovering, Cleaning, Pcs
<1>1. ASSUME NEW b \in Attachments, UploadInsert(w, b)
      PROVE  StorageIInv'
  <2> DEFINE r == [NoRow EXCEPT !.state = "PENDING"]
             j == [pc |-> "up.anchor", on |-> b]
  <2>1. phase = "up" /\ row[b] = NoRow /\ queue = {} /\ job[w] = Idle
    BY <1>1 DEF UploadInsert, StorageIInv, QueueFits
  <2>2. row' = [row EXCEPT ![b] = r] /\ job' = [job EXCEPT ![w] = j]
        /\ live' = [live EXCEPT ![b] = live[b]] /\ whole' = [whole EXCEPT ![b] = whole[b]]
        /\ UNCHANGED <<disk, anchored, former, phase, queue>> /\ shard' = shard
    BY <1>1, <2>1 DEF UploadInsert, Begin, files, parent, boot, StorageIInv, TypeOK
  <2>3. /\ Empty(live[b]) /\ Empty(disk[b]) /\ Empty(former[b])
        /\ live[b] \in Entries /\ whole[b] \in BOOLEAN
    BY <2>1, OfAttachment DEF RowFacts, NoRow
  <2>4. r \in AttachmentRow /\ j \in Jobs /\ r.state = "PENDING" /\ ~r.published /\ ~r.removed
    BY NoRowTyped DEF AttachmentRow, Jobs, NoRow
  <2>5. Alone(w, b)
    BY <2>1, BusyState DEF NoRow
  <2>6. j.on = b /\ j.pc = "up.anchor"
    OBVIOUS
  <2> HIDE DEF r, j
  <2>7. /\ RowFacts(r, live[b], disk[b], former[b], whole[b])
        /\ JobFacts("up.anchor", r, live[b], disk[b], former[b], whole[b])
    BY <2>3, <2>4 DEF RowFacts, JobFacts, Empty
  <2> QED
    BY <2>1, <2>2, <2>3, <2>4, <2>5, <2>6, <2>7, JobStep
<1> DEFINE a == On(w)
           r0 == row[a]
           l0 == live[a]
<1>2. ASSUME job[w].pc # "idle"
      PROVE  /\ a \in Attachments /\ a \notin queue
             /\ r0 \in AttachmentRow /\ l0 \in Entries /\ disk[a] \in Entries
             /\ whole[a] \in BOOLEAN /\ (~Empty(l0) => shard)
             /\ RowFacts(r0, l0, disk[a], former[a], whole[a])
             /\ JobFacts(job[w].pc, r0, l0, disk[a], former[a], whole[a])
             /\ Working(w) => Alone(w, a)
             /\ row = [row EXCEPT ![a] = r0]
  BY <1>2, Own DEF StorageIInv, TypeOK
<1> HIDE DEF a, r0, l0
<1>3. CASE OpenShard(w)
  <2>1. job[w].pc = "up.anchor" /\ GoTo(w, "up.temp") /\ shard' = TRUE /\ Working(w)
        /\ UNCHANGED <<row, live, disk, whole, anchored, former, phase, queue>>
    BY <1>3 DEF OpenShard, At, boot, parent, Working
  <2>2. JobFacts("up.temp", r0, l0, disk[a], former[a], whole[a])
    BY <1>2, <2>1 DEF JobFacts
  <2>3. PICK j \in Jobs : job' = [job EXCEPT ![w] = j] /\ j.pc = "up.temp" /\ j.on = a
    BY <2>1, NextStatement DEF a
  <2>4. row' = [row EXCEPT ![a] = r0] /\ live' = [live EXCEPT ![a] = l0]
        /\ whole' = [whole EXCEPT ![a] = whole[a]]
    BY <2>1, SameAttachment, <1>2 DEF r0, l0
  <2>5. /\ a \in Attachments /\ a \notin queue /\ r0 \in AttachmentRow /\ l0 \in Entries
        /\ Alone(w, a) /\ RowFacts(r0, l0, disk[a], former[a], whole[a]) /\ whole[a] \in BOOLEAN
        /\ (~Empty(l0) => shard)
    BY <1>2, <2>1
  <2>6. shard' = TRUE /\ (~Empty(l0) \/ j.pc = "up.temp" => shard')
    BY <2>1
  <2>7. UNCHANGED <<disk, anchored, former, phase, queue>>
    BY <2>1
  <2> QED
    BY <2>2, <2>3, <2>4, <2>5, <2>6, <2>7, JobStep DEF a, r0, l0
<1>4. CASE OpenTemp(w)
  <2> DEFINE l == [l0 EXCEPT !["temp"] = "own"]
  <2>1. /\ job[w].pc = "up.temp" /\ GoTo(w, "up.write") /\ Working(w)
        /\ live' = [live EXCEPT ![a] = l] /\ UNCHANGED <<row, disk, whole, shard, parent, boot>>
        /\ shard
    BY <1>4 DEF OpenTemp, SetEntry, At, StorageIInv, TypeOK, ShardHolds, Working, On, a, l0
  <2>2. /\ l \in Entries /\ l.temp = "own" /\ l.final = l0.final
        /\ l.quarantine = l0.quarantine
    BY <1>2, <2>1 DEF Entries, Names
  <2> HIDE DEF l
  <2>3. /\ RowFacts(r0, l, disk[a], former[a], whole[a])
        /\ JobFacts("up.write", r0, l, disk[a], former[a], whole[a])
    BY <1>2, <2>1, <2>2 DEF RowFacts, JobFacts
  <2> QED
    BY <2>1, <2>2, <2>3, EntryMoves DEF a, r0
<1>5. CASE WriteTemp(w)
  <2>1. /\ job[w].pc = "up.write" /\ GoTo(w, "up.identify") /\ Working(w)
        /\ whole' = [whole EXCEPT ![a] = TRUE]
        /\ UNCHANGED <<row, live, disk, shard, anchored, former, phase, queue>>
    BY <1>5 DEF WriteTemp, At, boot, parent, Working, On, a
  <2>2. /\ RowFacts(r0, l0, disk[a], former[a], TRUE)
        /\ JobFacts("up.identify", r0, l0, disk[a], former[a], TRUE)
    BY <1>2, <2>1 DEF RowFacts, JobFacts
  <2>3. PICK j \in Jobs : job' = [job EXCEPT ![w] = j] /\ j.pc = "up.identify" /\ j.on = a
    BY <2>1, NextStatement DEF a
  <2>4. row' = [row EXCEPT ![a] = r0] /\ live' = [live EXCEPT ![a] = l0]
    BY <2>1, SameAttachment, <1>2 DEF r0, l0
  <2>5. /\ a \in Attachments /\ a \notin queue /\ r0 \in AttachmentRow /\ l0 \in Entries
        /\ Alone(w, a) /\ RowFacts(r0, l0, disk[a], former[a], whole[a]) /\ whole[a] \in BOOLEAN
        /\ (~Empty(l0) => shard)
    BY <1>2, <2>1
  <2> QED
    BY <2>1, <2>2, <2>3, <2>4, <2>5, JobStep DEF a, r0, l0
<1>6. CASE RecordIdentity(w)
  <2> DEFINE r == [r0 EXCEPT !.identified = TRUE]
  <2>1. /\ job[w].pc = "up.identify" /\ GoTo(w, "up.link") /\ Working(w)
        /\ row' = [row EXCEPT ![a] = r] /\ UNCHANGED <<files, boot>>
    BY <1>6 DEF RecordIdentity, At, Working, On, a, r0
  <2>2. /\ r \in AttachmentRow /\ r.identified /\ r.state = r0.state /\ r.published = r0.published
        /\ r.removed = r0.removed
    BY <1>2, <2>1 DEF AttachmentRow
  <2> HIDE DEF r
  <2>3. /\ RowFacts(r, l0, disk[a], former[a], whole[a])
        /\ JobFacts("up.link", r, l0, disk[a], former[a], whole[a])
    BY <1>2, <2>1, <2>2 DEF RowFacts, JobFacts
  <2> QED
    BY <1>2, <2>1, <2>2, <2>3, RowMoves DEF a, l0, Working
<1>7. CASE LinkFinal(w)
  <2> DEFINE l == [l0 EXCEPT !["final"] = "own"]
  <2>1. /\ job[w].pc = "up.link" /\ GoTo(w, "up.sync") /\ Working(w) /\ l0.final = "none"
        /\ live' = [live EXCEPT ![a] = l] /\ UNCHANGED <<row, disk, whole, shard, parent, boot>>
    BY <1>7 DEF LinkFinal, SetEntry, At, StorageIInv, TypeOK, Working, On, a, l0
  <2>2. /\ l \in Entries /\ l.temp = l0.temp /\ l.final = "own" /\ l.quarantine = l0.quarantine
    BY <1>2, <2>1 DEF Entries, Names
  <2> HIDE DEF l
  <2>3. /\ RowFacts(r0, l, disk[a], former[a], whole[a])
        /\ JobFacts("up.sync", r0, l, disk[a], former[a], whole[a])
        /\ shard
    BY <1>2, <2>1, <2>2 DEF RowFacts, JobFacts, Empty
  <2> QED
    BY <2>1, <2>2, <2>3, EntryMoves DEF a, r0
<1>8. CASE SyncFinal(w)
  <2>1. job[w].pc = "up.sync" /\ SyncDirectory(w, "up.mark") /\ Working(w)
    BY <1>8 DEF SyncFinal, At, Working
  <2>2. JobFacts("up.mark", r0, l0, l0, former[a], whole[a])
    BY <1>2, <2>1 DEF JobFacts
  <2> QED
    BY <2>1, <2>2, SyncMoves DEF a, r0, l0
<1>9. CASE MarkPublished(w)
  <2> DEFINE r == [r0 EXCEPT !.published = TRUE]
  <2>1. /\ job[w].pc = "up.mark" /\ GoTo(w, "up.untemp") /\ Working(w)
        /\ row' = [row EXCEPT ![a] = r] /\ UNCHANGED <<files, boot>>
    BY <1>9 DEF MarkPublished, At, Working, On, a, r0
  <2>2. /\ r \in AttachmentRow /\ r.published /\ r.state = r0.state
        /\ r.identified = r0.identified /\ r.removed = r0.removed
    BY <1>2, <2>1 DEF AttachmentRow
  <2> HIDE DEF r
  <2>3. /\ RowFacts(r, l0, disk[a], former[a], whole[a])
        /\ JobFacts("up.untemp", r, l0, disk[a], former[a], whole[a])
    BY <1>2, <2>1, <2>2 DEF RowFacts, JobFacts
  <2> QED
    BY <1>2, <2>1, <2>2, <2>3, RowMoves DEF a, l0, Working
<1>10. ASSUME NEW pc \in {"up.settle", "undo.row"}, SetEntry(w, "temp", "none", pc),
              job[w].pc = IF pc = "up.settle" THEN "up.untemp" ELSE "undo.temp"
       PROVE  StorageIInv'
  <2> DEFINE l == [l0 EXCEPT !["temp"] = "none"]
  <2>1. /\ GoTo(w, pc) /\ Working(w)
        /\ live' = [live EXCEPT ![a] = l] /\ UNCHANGED <<row, disk, whole, shard, parent, boot>>
    BY <1>10 DEF SetEntry, StorageIInv, TypeOK, Working, On, a, l0
  <2>2. /\ l \in Entries /\ l.temp = "none" /\ l.final = l0.final /\ l.quarantine = l0.quarantine
    BY <1>2, <1>10 DEF Entries, Names
  <2> HIDE DEF l
  <2>3. /\ RowFacts(r0, l, disk[a], former[a], whole[a])
        /\ JobFacts(pc, r0, l, disk[a], former[a], whole[a])
        /\ (~Empty(l) => shard)
    BY <1>2, <1>10, <2>2 DEF RowFacts, JobFacts, Empty
  <2> QED
    BY <1>10, <2>1, <2>2, <2>3, EntryMoves DEF a, r0
<1>11. CASE SyncRemoval(w)
  <2>1. job[w].pc = "up.settle" /\ SyncDirectory(w, "up.activate") /\ Working(w)
    BY <1>11 DEF SyncRemoval, At, Working
  <2>2. JobFacts("up.activate", r0, l0, l0, former[a], whole[a])
    BY <1>2, <2>1 DEF JobFacts
  <2> QED
    BY <2>1, <2>2, SyncMoves DEF a, r0, l0
<1>12. CASE Activate(w)
  <2> DEFINE r == [[r0 EXCEPT !.state = "ACTIVE"] EXCEPT !.attempts = 0]
  <2>1. /\ job[w].pc = "up.activate" /\ Done(w) /\ Working(w)
        /\ row' = [row EXCEPT ![a] = r] /\ UNCHANGED <<files, boot>>
    BY <1>12 DEF Activate, At, Working, On, a, r0
  <2>2. 0 \in 0..CleanupAttempts
    BY StorageAssumption
  <2>3. /\ r \in AttachmentRow /\ r.published = r0.published /\ r.state = "ACTIVE"
        /\ r.identified = r0.identified /\ r.removed = r0.removed
    BY <1>2, <2>1, <2>2 DEF AttachmentRow
  <2> HIDE DEF r
  <2>4. RowFacts(r, l0, disk[a], former[a], whole[a])
    BY <1>2, <2>1, <2>3 DEF RowFacts, JobFacts, OnlyFinal
  <2> QED
    BY <1>2, <2>1, <2>3, <2>4, RowEnds DEF a, l0
<1>13. CASE UploadFails(w)
  <2>1. CASE job[w].pc \in Unpublished /\ GoTo(w, "undo.temp") /\ UNCHANGED <<row, files, boot>>
    <3>1. JobFacts("undo.temp", r0, l0, disk[a], former[a], whole[a])
      BY <1>2, <2>1 DEF JobFacts
    <3> QED
      BY <2>1, <3>1, JobMoves DEF Working, a, r0, l0
  <2> QED
    BY <1>13, <2>1, FailureMoves DEF UploadFails, At, On, Working
<1>14. CASE UndoRow(w)
  <2> DEFINE r == [NoRow EXCEPT !.state = "DELETED"]
  <2>1. /\ job[w].pc = "undo.row" /\ Done(w) /\ Working(w)
        /\ row' = [row EXCEPT ![a] = r] /\ UNCHANGED <<files, boot>>
    BY <1>14 DEF UndoRow, At, Working, On, a
  <2>2. r \in AttachmentRow /\ r.state = "DELETED" /\ ~r.published /\ ~r.removed
    BY NoRowTyped DEF AttachmentRow, NoRow
  <2> HIDE DEF r
  <2>3. RowFacts(r, l0, disk[a], former[a], whole[a])
    BY <1>2, <2>1, <2>2 DEF RowFacts, JobFacts
  <2> QED
    BY <1>2, <2>1, <2>2, <2>3, RowEnds DEF a, l0
<1>15. CASE UndoFails(w)
  BY <1>15, FailureMoves DEF UndoFails, At, On, Working
<1>16. CASE RemoveTemp(w) \/ UndoTemp(w)
  BY <1>10, <1>16 DEF RemoveTemp, UndoTemp, At
<1> QED
  BY <1>1, <1>3, <1>4, <1>5, <1>6, <1>7, <1>8, <1>9, <1>11, <1>12, <1>13, <1>14, <1>15, <1>16
  DEF Upload

\* archive: the row is compared again when it is updated.
LEMMA ArchiveKeeps ==
  ASSUME StorageIInv, NEW w \in Workers, Archive(w)
  PROVE  StorageIInv'
<1> USE DEF Unpublished, Publishing, Recovering, Cleaning, Pcs
<1>1. ASSUME NEW b \in Attachments, ArchiveRead(w, b)
      PROVE  StorageIInv'
  <2> DEFINE j == [pc |-> "arc.update", on |-> b]
  <2>1. /\ phase = "up" /\ queue = {} /\ job[w] = Idle /\ job' = [job EXCEPT ![w] = j]
        /\ UNCHANGED <<row, live, whole, disk, shard, anchored, former, phase, queue>>
    BY <1>1 DEF ArchiveRead, Begin, StorageIInv, QueueFits, files, parent, boot
  <2>2. j \in Jobs /\ j.on = b /\ j.pc = "arc.update" /\ j.pc # "up.temp"
    BY DEF Jobs
  <2> HIDE DEF j
  <2>3. JobFacts(j.pc, row[b], live[b], disk[b], former[b], whole[b])
    BY <2>2, NothingAssumed
  <2> QED
    BY <2>1, <2>2, <2>3, OnlyJobStep
<1>2. CASE ArchiveUpdate(w)
  <2> DEFINE r == [[[row[On(w)] EXCEPT !.state = "ARCHIVED"] EXCEPT !.removed = FALSE]
                     EXCEPT !.attempts = 0]
  <2>1. /\ job[w].pc = "arc.update" /\ row[On(w)].state = "ACTIVE" /\ UNCHANGED <<files, boot>>
        /\ IF On(w) \in Contracts THEN GoTo(w, "cln.old") ELSE Done(w)
    BY <1>2 DEF ArchiveUpdate, At, On
  <2>2. /\ row[On(w)] \in AttachmentRow /\ On(w) \in Attachments
        /\ RowFacts(row[On(w)], live[On(w)], disk[On(w)], former[On(w)], whole[On(w)])
    BY <2>1, Own
  <2>3. row' = [row EXCEPT ![On(w)] = r]
    BY <1>2, <2>2 DEF ArchiveUpdate, On
  <2>4. 0 \in 0..CleanupAttempts
    BY StorageAssumption
  <2>5. r \in AttachmentRow /\ r.state = "ARCHIVED" /\ ~r.removed
    BY <2>2, <2>4 DEF AttachmentRow
  <2>6. Alone(w, On(w))
    BY <2>1, <2>2, BusyState
  <2> HIDE DEF r
  <2>7. RowFacts(r, live[On(w)], disk[On(w)], former[On(w)], whole[On(w)])
    BY <2>1, <2>2, <2>5 DEF RowFacts, OnlyFinal, Empty
  <2>8. JobFacts("cln.old", r, live[On(w)], disk[On(w)], former[On(w)], whole[On(w)])
    BY <2>5 DEF JobFacts
  <2>9. CASE GoTo(w, "cln.old")
    BY <2>1, <2>3, <2>5, <2>6, <2>7, <2>8, <2>9, RowMoves
  <2>10. CASE Done(w)
    BY <2>1, <2>3, <2>5, <2>6, <2>7, <2>10, RowEnds
  <2> QED
    BY <2>1, <2>9, <2>10
<1>3. CASE ArchiveRefused(w)
  BY <1>3, JobEnds DEF ArchiveRefused, At
<1> QED
  BY <1>1, <1>2, <1>3 DEF Archive

\* cleanupPublishedFile and markStorageDeleted.
LEMMA CleanKeeps ==
  ASSUME StorageIInv, NEW w \in Workers, Clean(w)
  PROVE  StorageIInv'
<1> USE DEF Unpublished, Publishing, Recovering, Cleaning, Pcs
<1> DEFINE a == On(w)
           r0 == row[a]
           l0 == live[a]
<1>1. ASSUME job[w].pc # "idle"
      PROVE  /\ a \in Attachments /\ a \notin queue
             /\ r0 \in AttachmentRow /\ l0 \in Entries /\ disk[a] \in Entries
             /\ whole[a] \in BOOLEAN /\ (~Empty(l0) => shard)
             /\ RowFacts(r0, l0, disk[a], former[a], whole[a])
             /\ JobFacts(job[w].pc, r0, l0, disk[a], former[a], whole[a])
             /\ Working(w) => Alone(w, a)
  BY <1>1, Own
<1> HIDE DEF a, r0, l0
<1>2. ASSUME NEW pc \in {"cln.move", "cln.mark", "cln.rmdir"},
             SetEntry(w, "quarantine", "none", pc),
             /\ job[w].pc = IF pc = "cln.rmdir" THEN "cln.drop" ELSE "cln.old"
             /\ pc = "cln.mark" => ~shard
      PROVE  StorageIInv'
  <2> DEFINE l == [l0 EXCEPT !["quarantine"] = "none"]
  <2>1. /\ GoTo(w, pc) /\ Working(w) /\ job[w].pc # "idle"
        /\ live' = [live EXCEPT ![a] = l] /\ UNCHANGED <<row, disk, whole, shard, parent, boot>>
    BY <1>2 DEF SetEntry, StorageIInv, TypeOK, Working, On, a, l0
  <2>2. /\ l \in Entries /\ l.temp = l0.temp /\ l.final = l0.final /\ l.quarantine = "none"
    BY <1>1, <2>1 DEF Entries, Names
  <2> HIDE DEF l
  <2>3. /\ RowFacts(r0, l, disk[a], former[a], whole[a])
        /\ JobFacts(pc, r0, l, disk[a], former[a], whole[a])
        /\ (~Empty(l) => shard)
    BY <1>1, <1>2, <2>1, <2>2 DEF RowFacts, JobFacts, Empty
  <2> QED
    BY <1>2, <2>1, <2>2, <2>3, EntryMoves DEF a, r0
<1>3. CASE MoveFinal(w)
  <2>1. job[w].pc = "cln.move" /\ Working(w)
    BY <1>3 DEF MoveFinal, At, Working
  <2>2. CASE l0.final = "none"
    <3>1. GoTo(w, "cln.rmdir") /\ UNCHANGED <<row, files, boot>>
      BY <1>3, <2>2 DEF MoveFinal, On, files, parent, a, l0
    <3>2. JobFacts("cln.rmdir", r0, l0, disk[a], former[a], whole[a])
      BY <1>1, <2>1, <2>2 DEF JobFacts, RowFacts, Empty
    <3> QED
      BY <2>1, <3>1, <3>2, JobMoves DEF a, r0, l0
  <2>3. CASE l0.final # "none"
    <3> DEFINE l == [[l0 EXCEPT !["final"] = "none"] EXCEPT !["quarantine"] = l0.final]
    <3>1. /\ GoTo(w, "cln.drop") /\ UNCHANGED <<row, disk, whole, shard, parent, boot>>
          /\ live' = [live EXCEPT ![a].final = "none", ![a].quarantine = l0.final]
      BY <1>3, <2>3 DEF MoveFinal, MoveNoReplace, On, a, l0
    <3>2. live' = [live EXCEPT ![a] = l]
      BY <1>1, <2>1, <3>1 DEF StorageIInv, TypeOK, l0
    <3>3. /\ l \in Entries /\ l.temp = l0.temp /\ l.final = "none"
      BY <1>1, <2>1, EntriesEqual DEF Entries, Names
    <3> HIDE DEF l
    <3>4. /\ RowFacts(r0, l, disk[a], former[a], whole[a])
          /\ JobFacts("cln.drop", r0, l, disk[a], former[a], whole[a])
          /\ shard
      BY <1>1, <2>1, <2>3, <3>3 DEF RowFacts, JobFacts, Empty
    <3> QED
      BY <2>1, <3>1, <3>2, <3>3, <3>4, EntryMoves DEF a, r0
  <2> QED
    BY <2>2, <2>3
<1>4. CASE RemoveShard(w)
  <2>1. /\ job[w].pc = "cln.rmdir" /\ Working(w)
        /\ UNCHANGED <<row, live, whole, phase, queue>>
        /\ job[w] \in Jobs
        /\ \/ /\ \A b \in Attachments : Empty(live[b])
              /\ shard' = FALSE /\ anchored' = FALSE /\ disk' = live /\ former' \in {disk, former}
           \/ UNCHANGED <<disk, shard, anchored, former>>
    BY <1>4, NoEntriesEmpty, <1>1, Own DEF RemoveShard, NoFiles, At, Working, boot, parent
  <2>2. \A v \in Workers : /\ job'[v] \in {Idle} \cup Jobs
                           /\ job'[v] = Idle <=> job[v] = Idle
                           /\ job'[v] # Idle => job'[v].on = job[v].on
                           /\ job'[v].pc = IF v = w THEN "cln.mark"
                                           ELSE IF job[v].pc = "up.temp" /\ ~shard' THEN "up.stale"
                                           ELSE job[v].pc
    <3>1. ASSUME NEW v \in Workers, NEW pc \in {"cln.mark", "up.stale"}, job[v] \in Jobs
          PROVE  LET j == [job[v] EXCEPT !.pc = pc] IN
                 j \in Jobs /\ j.pc = pc /\ j.on = job[v].on /\ j # Idle /\ job[v] # Idle
      BY <3>1 DEF Jobs, Idle
    <3>2. \A v \in Workers : /\ job[v] \in {Idle} \cup Jobs
                             /\ (job[v].pc = "up.temp" => job[v] \in Jobs)
      BY DEF StorageIInv, TypeOK, Idle
    <3> QED
      BY <1>4, <2>1, <3>1, <3>2 DEF RemoveShard, At
  <2>3. TypeOK'
    <3>1. job' \in [Workers -> {Idle} \cup Jobs]
      BY <1>4, <2>2 DEF RemoveShard
    <3> QED
      BY <2>1, <3>1 DEF StorageIInv, TypeOK, NoFiles
  <2>4. ASSUME NEW b \in Attachments
        PROVE  /\ RowFacts(row[b], live[b], disk'[b], former'[b], whole[b])
               /\ \A pc : JobFacts(pc, row[b], live[b], disk[b], former[b], whole[b])
                          => JobFacts(pc, row[b], live[b], disk'[b], former'[b], whole[b])
    <3>1. RowFacts(row[b], live[b], disk[b], former[b], whole[b])
      BY OfAttachment
    <3>2. CASE UNCHANGED <<disk, former>>
      BY <3>1, <3>2
    <3>3. CASE Empty(live[b]) /\ disk' = live /\ former' = former
      BY <3>1, <3>3, SyncKeepsFacts
    <3>4. CASE Empty(live[b]) /\ disk' = live /\ former' = disk
      BY <3>1, <3>4, RemovalKeepsFacts
    <3> QED
      BY <2>1, <3>2, <3>3, <3>4
  <2>9. RowsSound'
    BY <2>1, <2>4 DEF RowsSound
  <2>5. JobsFit'
    <3>1. SUFFICES ASSUME NEW v \in Workers, job[v] # Idle
                   PROVE  JobFacts(job'[v].pc, row[On(v)], live[On(v)], disk'[On(v)],
                                   former'[On(v)],
                                   whole[On(v)])
      BY <2>1, <2>2 DEF JobsFit, On
    <3>2. JobFacts(job[v].pc, row[On(v)], live[On(v)], disk'[On(v)], former'[On(v)], whole[On(v)])
      <4>1. job[v].pc # "idle"
        BY <3>1 DEF StorageIInv, TypeOK, Jobs
      <4> QED
        BY <2>4, <4>1, Own
    <3>3. CASE v = w
      <4>1. JobFacts("cln.mark", row[On(v)], live[On(v)], disk'[On(v)], former'[On(v)],
                     whole[On(v)])
        BY <2>1, <3>2, <3>3 DEF JobFacts
      <4> QED
        BY <2>2, <3>3, <4>1
    <3>4. CASE v # w /\ job[v].pc = "up.temp" /\ ~shard'
      <4>1. JobFacts("up.stale", row[On(v)], live[On(v)], disk'[On(v)], former'[On(v)],
                     whole[On(v)])
        BY <3>2, <3>4 DEF JobFacts
      <4> QED
        BY <2>2, <3>4, <4>1
    <3> QED
      BY <2>2, <3>2, <3>3, <3>4
  <2>6. OneBusy'
    <3>1. \A v \in Workers : job'[v].pc = "arc.update" <=> job[v].pc = "arc.update"
      BY <2>1, <2>2
    <3> QED
      BY <2>2, <3>1 DEF StorageIInv, OneBusy, Alone, At
  <2>7. ShardHolds'
    <3>1. \A v \in Workers : job'[v].pc = "up.temp" => shard'
      BY <2>2 DEF StorageIInv, ShardHolds, At
    <3>2. \A b \in Attachments : ~Empty(live[b]) => shard'
      BY <2>1 DEF StorageIInv, ShardHolds
    <3> QED
      BY <2>1, <3>1, <3>2 DEF ShardHolds, At
  <2>8. QueueFits'
    BY <2>1, <2>2 DEF StorageIInv, QueueFits
  <2> QED
    BY <2>3, <2>9, <2>5, <2>6, <2>7, <2>8 DEF StorageIInv
<1>5. CASE MarkDeleted(w)
  <2> DEFINE r == [r0 EXCEPT !.removed = TRUE]
  <2>1. /\ job[w].pc = "cln.mark" /\ Done(w) /\ Working(w) /\ r0.state = "ARCHIVED"
        /\ row' = [row EXCEPT ![a] = r] /\ UNCHANGED <<files, boot>>
    BY <1>5 DEF MarkDeleted, At, Working, On, a, r0
  <2>2. r \in AttachmentRow /\ r.state = "ARCHIVED"
    BY <1>1, <2>1 DEF AttachmentRow
  <2> HIDE DEF r
  <2>3. RowFacts(r, l0, disk[a], former[a], whole[a])
    BY <1>1, <2>1, <2>2 DEF RowFacts
  <2> QED
    BY <1>1, <2>1, <2>2, <2>3, RowEnds DEF a, l0
<1>6. CASE CleaningFails(w)
  BY <1>6, FailureMoves DEF CleaningFails, On, Working
<1>7. CASE RemoveOld(w)
  BY <1>2, <1>7 DEF RemoveOld, At
<1>8. CASE DropQuarantine(w)
  BY <1>2, <1>8 DEF DropQuarantine, At
<1> QED
  BY <1>3, <1>4, <1>5, <1>6, <1>7, <1>8 DEF Clean

\* recoverPendingUpload, and a start that takes up the next row.
LEMMA RecoverKeeps ==
  ASSUME StorageIInv, NEW w \in Workers, Recover(w)
  PROVE  StorageIInv'
<1> USE DEF Unpublished, Publishing, Recovering, Cleaning, Pcs
<1>1. ASSUME NEW b \in Attachments, TakeUp(w, b)
      PROVE  StorageIInv'
  <2> DEFINE pc == IF phase = "pending" THEN "rec.check" ELSE "cln.old"
             j == [pc |-> pc, on |-> b]
  <2>1. /\ \A v \in Workers : job[v] = Idle
        /\ b \in queue /\ queue' = queue \ {b} /\ job' = [job EXCEPT ![w] = j]
        /\ UNCHANGED <<row, live, disk, whole, shard, anchored, former, phase>>
    BY <1>1 DEF TakeUp, AllIdle, Begin, files, parent
  <2>2. j \in Jobs /\ j.on = b /\ j.pc = pc /\ pc \in {"rec.check", "cln.old"}
    BY DEF Jobs
  <2>3. JobFacts(pc, row[b], live[b], disk[b], former[b], whole[b])
    <3>1. CASE phase = "pending"
      <4>1. row[b].state = "PENDING"
        BY <2>1, <3>1 DEF StorageIInv, QueueFits
      <4> QED
        BY <3>1, <4>1 DEF JobFacts
    <3>2. CASE phase # "pending"
      <4>1. row[b].state = "ARCHIVED" /\ ~row[b].removed
        BY <2>1, <3>2 DEF StorageIInv, QueueFits, TypeOK
      <4> QED
        BY <3>2, <4>1 DEF JobFacts
    <3> QED
      BY <3>1, <3>2
  <2> HIDE DEF j, pc
  <2>4. \A v \in Workers : job'[v] = IF v = w THEN j ELSE Idle
    BY <2>1 DEF StorageIInv, TypeOK
  <2>5. Idle.pc # "up.temp"
    BY DEF Idle
  <2>6. TypeOK' /\ RowsSound'
    BY <2>1, <2>2 DEF StorageIInv, TypeOK, RowsSound
  <2>7. JobsFit' /\ OneBusy'
    BY <2>1, <2>2, <2>3, <2>4 DEF JobsFit, OneBusy, Alone
  <2>8. ShardHolds' /\ QueueFits'
    BY <2>1, <2>2, <2>4, <2>5 DEF StorageIInv, ShardHolds, QueueFits, At
  <2> QED
    BY <2>6, <2>7, <2>8 DEF StorageIInv
<1> DEFINE a == On(w)
           r0 == row[a]
           l0 == live[a]
<1>2. ASSUME job[w].pc # "idle"
      PROVE  /\ a \in Attachments /\ a \notin queue
             /\ r0 \in AttachmentRow /\ l0 \in Entries /\ disk[a] \in Entries
             /\ whole[a] \in BOOLEAN /\ (~Empty(l0) => shard)
             /\ RowFacts(r0, l0, disk[a], former[a], whole[a])
             /\ JobFacts(job[w].pc, r0, l0, disk[a], former[a], whole[a])
             /\ Working(w) => Alone(w, a)
  BY <1>2, Own
<1> HIDE DEF a, r0, l0
<1>3. CASE RecoverCheck(w)
  <2>1. /\ job[w].pc = "rec.check" /\ GoTo(w, "rec.sync") /\ Working(w) /\ r0.published
        /\ l0.final = "own" /\ UNCHANGED <<row, files, boot>>
    BY <1>3 DEF RecoverCheck, CanRecover, At, Working, On, a, r0, l0
  <2>2. JobFacts("rec.sync", r0, l0, disk[a], former[a], whole[a])
    BY <1>2, <2>1 DEF JobFacts, RowFacts, Empty
  <2> QED
    BY <2>1, <2>2, JobMoves DEF a, r0, l0
<1>4. CASE RecoverSync(w)
  <2> DEFINE pc == IF l0.temp = "none" THEN "rec.activate" ELSE "rec.temp"
  <2>1. job[w].pc = "rec.sync" /\ SyncDirectory(w, pc) /\ Working(w)
    BY <1>4 DEF RecoverSync, At, Working, On, a, l0
  <2>2. pc \in Pcs \ {"up.temp"}
    OBVIOUS
  <2>3. JobFacts(pc, r0, l0, l0, former[a], whole[a])
    <3>1. l0.temp = "none" => JobFacts("rec.activate", r0, l0, l0, former[a], whole[a])
      BY <1>2, <2>1 DEF JobFacts
    <3>2. JobFacts("rec.temp", r0, l0, l0, former[a], whole[a])
      BY <1>2, <2>1 DEF JobFacts
    <3> QED
      BY <3>1, <3>2
  <2> HIDE DEF pc
  <2> QED
    BY <2>1, <2>2, <2>3, SyncMoves DEF a, r0, l0
<1>5. CASE RecoverRemoveTemp(w)
  <2> DEFINE l == [l0 EXCEPT !["temp"] = "none"]
  <2>1. /\ job[w].pc = "rec.temp" /\ GoTo(w, "rec.settle") /\ Working(w)
        /\ live' = [live EXCEPT ![a] = l] /\ UNCHANGED <<row, disk, whole, shard, parent, boot>>
    BY <1>5 DEF RecoverRemoveTemp, SetEntry, At, StorageIInv, TypeOK, Working, On, a, l0
  <2>2. /\ l \in Entries /\ l.temp = "none" /\ l.final = l0.final /\ l.quarantine = l0.quarantine
    BY <1>2, <2>1 DEF Entries, Names
  <2> HIDE DEF l
  <2>3. /\ RowFacts(r0, l, disk[a], former[a], whole[a])
        /\ JobFacts("rec.settle", r0, l, disk[a], former[a], whole[a])
        /\ (~Empty(l) => shard)
    BY <1>2, <2>1, <2>2 DEF RowFacts, JobFacts, Empty
  <2> QED
    BY <2>1, <2>2, <2>3, EntryMoves DEF a, r0
<1>6. CASE RecoverSyncRemoval(w)
  <2>1. job[w].pc = "rec.settle" /\ SyncDirectory(w, "rec.activate") /\ Working(w)
    BY <1>6 DEF RecoverSyncRemoval, At, Working
  <2>2. JobFacts("rec.activate", r0, l0, l0, former[a], whole[a])
    BY <1>2, <2>1 DEF JobFacts
  <2> QED
    BY <2>1, <2>2, SyncMoves DEF a, r0, l0
<1>7. CASE RecoverActivate(w)
  <2> DEFINE r == [[r0 EXCEPT !.state = "ACTIVE"] EXCEPT !.attempts = 0]
  <2>1. /\ job[w].pc = "rec.activate" /\ Done(w) /\ Working(w)
        /\ row' = [row EXCEPT ![a] = r] /\ UNCHANGED <<files, boot>>
    BY <1>7 DEF RecoverActivate, At, Working, On, a, r0
  <2>2. 0 \in 0..CleanupAttempts
    BY StorageAssumption
  <2>3. /\ r \in AttachmentRow /\ r.published = r0.published /\ r.state = "ACTIVE"
        /\ r.identified = r0.identified /\ r.removed = r0.removed
    BY <1>2, <2>1, <2>2 DEF AttachmentRow
  <2> HIDE DEF r
  <2>4. RowFacts(r, l0, disk[a], former[a], whole[a])
    BY <1>2, <2>1, <2>3 DEF RowFacts, JobFacts, OnlyFinal
  <2> QED
    BY <1>2, <2>1, <2>3, <2>4, RowEnds DEF a, l0
<1>8. CASE RecoverFails(w)
  BY <1>8, FailureMoves DEF RecoverFails, At, On, Working
<1> QED
  BY <1>1, <1>3, <1>4, <1>5, <1>6, <1>7, <1>8 DEF Recover

\* A start looks at rows in the state it asks for.
LEMMA BatchFits ==
  ASSUME NEW state, NEW batch \in Batches(state)
  PROVE  /\ batch \subseteq Attachments
         /\ \A a \in batch : row[a].state = state /\ ~row[a].removed
BY DEF Batches, Unfinished, Retryable

\* The end of a start-up batch (onModuleInit).
LEMMA EndBatchKeeps ==
  ASSUME StorageIInv, EndBatch
  PROVE  StorageIInv'
<1>1. /\ \A w \in Workers : job[w] = Idle
      /\ UNCHANGED <<row, live, disk, whole, shard, anchored, former, job>>
      /\ \/ phase' = "archived" /\ queue' \in Batches("ARCHIVED")
         \/ phase' = "up" /\ queue' = {}
  BY DEF EndBatch, AllIdle, files, parent
<1>2. /\ phase' \in {"archived", "up"} /\ queue' \subseteq Attachments
      /\ phase' = "up" => queue' = {}
      /\ phase' = "archived" => \A a \in queue' : row[a].state = "ARCHIVED" /\ ~row[a].removed
  BY <1>1, BatchFits
<1>3. TypeOK' /\ RowsSound' /\ JobsFit' /\ OneBusy' /\ ShardHolds'
  BY <1>1, <1>2 DEF StorageIInv, TypeOK, RowsSound, JobsFit, OneBusy, Alone, ShardHolds, At
<1>4. QueueFits'
  BY <1>1, <1>2 DEF QueueFits
<1> QED
  BY <1>3, <1>4 DEF StorageIInv

\* Whatever is lost, the rows and the entries that the next start finds are sound.
LEMMA StartKeeps ==
  ASSUME StorageIInv, StartAgain, UNCHANGED <<row, whole>>,
         live' \in [Attachments -> Entries], disk' \in [Attachments -> Entries],
         former' \in [Attachments -> Entries], shard' \in BOOLEAN, anchored' \in BOOLEAN,
         RowsSound',
         \A a \in Attachments : ~Empty(live'[a]) => shard'
  PROVE  StorageIInv'
<1>1. /\ \A w \in Workers : job'[w] = Idle
      /\ phase' = "pending" /\ queue' \subseteq Attachments
      /\ \A a \in queue' : row'[a].state = "PENDING"
  BY BatchFits DEF StartAgain
<1>2. TypeOK'
  BY <1>1 DEF StorageIInv, TypeOK, StartAgain, Entries
<1>3. JobsFit' /\ OneBusy' /\ QueueFits'
  BY <1>1 DEF JobsFit, OneBusy, Alone, QueueFits
<1>4. ShardHolds'
  BY <1>1 DEF ShardHolds, At, Idle
<1> QED
  BY <1>2, <1>3, <1>4 DEF StorageIInv

\* The process stops between two statements and its jobs are lost.
LEMMA CrashKeeps ==
  ASSUME StorageIInv, Crash
  PROVE  StorageIInv'
<1>1. StartAgain /\ UNCHANGED <<row, live, disk, whole, shard, anchored, former>>
  BY DEF Crash, files, parent
<1>2. RowsSound' /\ live \in [Attachments -> Entries] /\ disk \in [Attachments -> Entries]
      /\ former \in [Attachments -> Entries] /\ shard \in BOOLEAN /\ anchored \in BOOLEAN
      /\ \A a \in Attachments : ~Empty(live[a]) => shard
  BY <1>1 DEF StorageIInv, TypeOK, RowsSound, Entries, ShardHolds
<1> QED
  BY <1>1, <1>2, StartKeeps

\* The kernel may write the parent of the shard back at any time.
LEMMA WriteBackKeeps ==
  ASSUME StorageIInv, WriteBack
  PROVE  StorageIInv'
<1>1. /\ UNCHANGED <<row, live, disk, whole, shard, job, phase, queue>>
      /\ anchored' \in BOOLEAN /\ former' \in [Attachments -> Entries]
      /\ \A a \in Attachments : Empty(former'[a])
  BY NoEntriesEmpty DEF WriteBack, boot, NoFiles, StorageIInv, TypeOK
<1>2. TypeOK'
  BY <1>1 DEF StorageIInv, TypeOK, Entries
<1>3. ASSUME NEW r, NEW l, NEW d, NEW f, NEW h, NEW e, RowFacts(r, l, d, f, h), Empty(e)
      PROVE  /\ RowFacts(r, l, d, e, h)
             /\ \A pc : JobFacts(pc, r, l, d, f, h) => JobFacts(pc, r, l, d, e, h)
  BY <1>3 DEF RowFacts, JobFacts, Empty
<1>4. \A a \in Attachments :
        /\ RowFacts(row[a], live[a], disk[a], former'[a], whole[a])
        /\ \A pc : JobFacts(pc, row[a], live[a], disk[a], former[a], whole[a])
                   => JobFacts(pc, row[a], live[a], disk[a], former'[a], whole[a])
  BY <1>1, <1>3, OfAttachment
<1>5. RowsSound' /\ JobsFit'
  BY <1>1, <1>4 DEF StorageIInv, TypeOK, Jobs, RowsSound, JobsFit
<1>6. OneBusy' /\ ShardHolds' /\ QueueFits'
  BY <1>1 DEF StorageIInv, OneBusy, Alone, At, ShardHolds, QueueFits
<1> QED
  BY <1>2, <1>5, <1>6 DEF StorageIInv

\* An entry is found as it was on the disk or as it has become.
LEMMA FoundEntries ==
  ASSUME NEW old, NEW new, NEW found \in Found(old, new)
  PROVE  /\ found = [a \in Attachments |-> found[a]]
         /\ \A a \in Attachments : old[a] \in Entries /\ new[a] \in Entries =>
              found[a] \in Entries /\ \A n \in Names : found[a][n] \in {old[a][n], new[a][n]}
<1>1. PICK lost \in SUBSET {e \in Attachments \X Names : old[e[1]][e[2]] # new[e[1]][e[2]]} :
        found = [a \in Attachments |->
                   [n \in Names |-> IF <<a, n>> \in lost THEN old[a][n] ELSE new[a][n]]]
  BY DEF Found
<1>2. ASSUME NEW a \in Attachments, old[a] \in Entries, new[a] \in Entries
      PROVE  found[a] \in Entries /\ \A n \in Names : found[a][n] \in {old[a][n], new[a][n]}
  <2>1. found[a] = [n \in Names |-> IF <<a, n>> \in lost THEN old[a][n] ELSE new[a][n]]
    BY <1>1
  <2>2. \A n \in Names : found[a][n] \in {old[a][n], new[a][n]}
    BY <2>1
  <2>3. found[a] \in Entries
    BY <1>2, <2>1 DEF Entries
  <2> QED
    BY <2>2, <2>3
<1> QED
  BY <1>1, <1>2

\* After a failure of the host an entry is as it was, or as it was on the disk; or the shard is
\* gone, which was not anchored, and at most entries of a former one are there.
LEMMA EntriesFound ==
  ASSUME HostFails, NEW a \in Attachments,
         live[a] \in Entries, disk[a] \in Entries, former[a] \in Entries
  PROVE  /\ live'[a] \in Entries /\ disk'[a] = live'[a]
         /\ live' = [b \in Attachments |-> live'[b]]
         /\ \/ shard' /\ \A n \in Names : live'[a][n] \in {live[a][n], disk[a][n]}
            \/ ~(anchored /\ shard) /\ \A n \in Names : live'[a][n] \in {"none", former[a][n]}
<1>1. PICK kept \in {anchored, shard} :
        /\ live' \in IF kept THEN Found(disk, live) ELSE Found(former, NoFiles)
        /\ shard' \in {kept, TRUE}
  BY DEF HostFails
<1>2. NoFiles[a] \in Entries /\ \A n \in Names : NoFiles[a][n] = "none"
  BY NoEntriesEmpty DEF NoFiles, NoEntries
<1>3. disk' = live'
  BY DEF HostFails
<1>4. CASE kept
  <2>1. live' \in Found(disk, live)
    BY <1>1, <1>4
  <2>2. shard'
    BY <1>1, <1>4, Zenon
  <2> QED
    BY <1>3, <2>1, <2>2, FoundEntries
<1>5. CASE ~kept
  <2>1. live' \in Found(former, NoFiles) /\ ~(anchored /\ shard)
    BY <1>1, <1>5
  <2> QED
    BY <1>2, <1>3, <2>1, FoundEntries
<1> QED
  BY <1>4, <1>5

\* The same, name by name.
LEMMA EntriesAfterFailure ==
  ASSUME StorageIInv, HostFails, NEW a \in Attachments
  PROVE  /\ live'[a] \in Entries /\ disk'[a] = live'[a]
         /\ live' = [b \in Attachments |-> live'[b]]
         /\ \/ /\ live'[a].temp \in {live[a].temp, disk[a].temp}
               /\ live'[a].final \in {live[a].final, disk[a].final}
               /\ live'[a].quarantine \in {live[a].quarantine, disk[a].quarantine}
            \/ /\ ~(anchored /\ shard)
               /\ live'[a].temp \in {"none", former[a].temp}
               /\ live'[a].final \in {"none", former[a].final}
               /\ live'[a].quarantine \in {"none", former[a].quarantine}
<1>1. live[a] \in Entries /\ disk[a] \in Entries /\ former[a] \in Entries
  BY OfAttachment
<1> QED
  BY <1>1, EntriesFound DEF Names

\* The host stops: entries that no fsync wrote may be lost.
LEMMA HostFailsKeeps ==
  ASSUME StorageIInv, HostFails
  PROVE  StorageIInv'
<1>1. /\ StartAgain /\ UNCHANGED <<row, whole>> /\ disk' = live' /\ former' = NoFiles
      /\ shard' \in BOOLEAN /\ anchored' = shard' /\ (live' # NoFiles => shard')
  BY DEF HostFails, StorageIInv, TypeOK
<1>2. live' \in [Attachments -> Entries] /\ NoFiles \in [Attachments -> Entries]
      /\ \A a \in Attachments : Empty(NoFiles[a])
  <2>1. CASE Attachments = {}
    BY <2>1, <1>1 DEF NoFiles, HostFails, Found
  <2>2. CASE Attachments # {}
    <3>1. live' = [a \in Attachments |-> live'[a]]
      BY <2>2, EntriesAfterFailure
    <3> QED
      BY <3>1, EntriesAfterFailure, NoEntriesEmpty DEF NoFiles
  <2> QED
    BY <2>1, <2>2
<1>3. ASSUME NEW a \in Attachments
      PROVE  RowFacts(row[a], live'[a], live'[a], NoFiles[a], whole[a])
  <2>1. RowFacts(row[a], live[a], disk[a], former[a], whole[a])
    BY OfAttachment
  <2>2. Empty(NoFiles[a])
    BY <1>2
  <2>3. CASE /\ live'[a].temp \in {live[a].temp, disk[a].temp}
             /\ live'[a].final \in {live[a].final, disk[a].final}
             /\ live'[a].quarantine \in {live[a].quarantine, disk[a].quarantine}
    BY <2>1, <2>2, <2>3 DEF RowFacts, Empty, OnlyFinal
  <2>4. CASE /\ live'[a].temp \in {"none", former[a].temp}
             /\ live'[a].final \in {"none", former[a].final}
             /\ live'[a].quarantine \in {"none", former[a].quarantine}
    BY <2>1, <2>2, <2>4 DEF RowFacts, Empty, OnlyFinal
  <2> QED
    BY <2>3, <2>4, EntriesAfterFailure
<1>4. RowsSound'
  BY <1>1, <1>3 DEF RowsSound
<1>5. \A a \in Attachments : ~Empty(live'[a]) => shard'
  BY <1>1, <1>2
<1> QED
  BY <1>1, <1>2, <1>4, <1>5, StartKeeps

\* Every step keeps the inductive invariant.
LEMMA NextStorageIInv ==
  ASSUME StorageIInv, [Next]_vars
  PROVE  StorageIInv'
<1>1. CASE UNCHANGED vars
  BY <1>1 DEF vars, StorageIInv, TypeOK, RowsSound, JobsFit, OneBusy, Alone, ShardHolds, QueueFits,
              At
<1> QED
  BY <1>1, UploadKeeps, ArchiveKeeps, CleanKeeps, RecoverKeeps, EndBatchKeeps, CrashKeeps,
     WriteBackKeeps, HostFailsKeeps DEF Next

\* The inductive invariant holds at first.
LEMMA InitStorageIInv == Init => StorageIInv
<1> SUFFICES ASSUME Init PROVE StorageIInv
  OBVIOUS
<1>1. TypeOK
  BY NoRowTyped, NoEntriesEmpty DEF Init, TypeOK, Entries, NoFiles
<1>2. RowsSound
  BY NoEntriesEmpty DEF Init, RowsSound, RowFacts, NoRow, NoFiles
<1>3. JobsFit /\ OneBusy /\ ShardHolds /\ QueueFits
  BY NoEntriesEmpty DEF Init, JobsFit, OneBusy, ShardHolds, QueueFits, At, Idle, NoFiles
<1> QED
  BY <1>1, <1>2, <1>3 DEF StorageIInv

-----------------------------------------------------------------------------
(***************************************************************************)
(* Theorems.                                                               *)
(***************************************************************************)
\* The inductive invariant: what each row and each statement says of the directory.
THEOREM StorageInvariance == Spec => []StorageIInv
<1>1. StorageIInv /\ [Next]_vars => StorageIInv'
  BY NextStorageIInv
<1> QED
  BY <1>1, InitStorageIInv, PTL DEF Spec

\* Rows, entries and jobs have their types; a row is never retried too often.
THEOREM StorageTypes == Spec => []TypeOK
<1>1. StorageIInv => TypeOK
  BY DEF StorageIInv
<1> QED
  BY <1>1, StorageInvariance, PTL

\* A row that is marked published has its complete file in place and on the disk, or all its
\* entries have gone with the shard; one that can be downloaded has nothing beside its file
\* (storeAttachmentFile, recoverPendingUpload).
THEOREM PublishedIsSafe == Spec => []PublishedFileIsSafe
<1>1. ASSUME StorageIInv, NEW a \in Attachments
      PROVE  /\ row[a].published /\ row[a].state \in {"PENDING", "ACTIVE"}
                  => /\ whole[a] /\ row[a].identified
                     /\ \/ live[a].final = "own" /\ disk[a].final = "own"
                        \/ live[a] = NoEntries /\ disk[a] = NoEntries
             /\ row[a].state = "ACTIVE"
                  => /\ row[a].published
                     /\ live[a] \in {NoEntries, [NoEntries EXCEPT !.final = "own"]}
                     /\ disk[a] = live[a]
  <2>1. RowFacts(row[a], live[a], disk[a], former[a], whole[a])
        /\ live[a] \in Entries /\ disk[a] \in Entries
    BY <1>1, OfAttachment
  <2>2. /\ Empty(live[a]) => live[a] = NoEntries
        /\ Empty(disk[a]) => disk[a] = NoEntries
        /\ OnlyFinal(live[a]) => live[a] = [NoEntries EXCEPT !.final = "own"]
        /\ OnlyFinal(disk[a]) => disk[a] = [NoEntries EXCEPT !.final = "own"]
    BY <2>1, EntriesEqual
  <2>3. row[a].published /\ row[a].state \in {"PENDING", "ACTIVE"}
          => /\ whole[a] /\ row[a].identified
             /\ \/ live[a].final = "own" /\ disk[a].final = "own"
                \/ Empty(live[a]) /\ Empty(disk[a])
    BY <2>1 DEF RowFacts, OnlyFinal
  <2>4. row[a].state = "ACTIVE"
          => /\ row[a].published
             /\ (OnlyFinal(live[a]) /\ OnlyFinal(disk[a])) \/ (Empty(live[a]) /\ Empty(disk[a]))
    BY <2>1 DEF RowFacts
  <2> QED
    BY <2>2, <2>3, <2>4
<1>2. StorageIInv => PublishedFileIsSafe
  BY <1>1 DEF PublishedFileIsSafe
<1> QED
  BY <1>2, StorageInvariance, PTL

\* A step changes nothing of an attachment, or leaves it a row that accounts for its files
\* and keeps its link, or gives up a row that has none.
Accounted(r) == r.state \in {"PENDING", "ACTIVE", "ARCHIVED"} /\ ~r.removed

Change(a) ==
  \/ row'[a] = row[a] /\ live'[a] = live[a]
  \/ Accounted(row'[a])
     /\ (live[a].final = "own" => live'[a].final = "own" \/ row[a].state = "ARCHIVED")
  \/ Empty(live[a]) /\ live'[a] = live[a]

\* Every statement of a worker is such a change of every attachment.
LEMMA Changes ==
  ASSUME StorageIInv, NEW w \in Workers, Upload(w) \/ Archive(w) \/ Clean(w) \/ Recover(w),
         NEW a \in Attachments
  PROVE  Change(a)
<1> USE DEF Unpublished, Publishing, Recovering, Cleaning
<1>0. /\ row \in [Attachments -> AttachmentRow] /\ live \in [Attachments -> Entries]
      /\ RowFacts(row[a], live[a], disk[a], former[a], whole[a])
      /\ row' = row /\ live' = live => Change(a)
  BY OfAttachment DEF StorageIInv, TypeOK, Entries, Change
<1>1. ASSUME NEW b \in Attachments, UploadInsert(w, b)
      PROVE  Change(a)
  <2>1. row[b] = NoRow /\ row' = [row EXCEPT ![b].state = "PENDING"] /\ live' = live
    BY <1>1 DEF UploadInsert, files, parent
  <2>2. CASE a # b
    BY <1>0, <2>1, <2>2 DEF Change
  <2>3. CASE a = b
    BY <1>0, <2>1, <2>3 DEF Change, Accounted, NoRow, AttachmentRow
  <2> QED
    BY <2>2, <2>3
<1>2. ASSUME NEW b \in Attachments, ArchiveRead(w, b) \/ TakeUp(w, b)
      PROVE  Change(a)
  BY <1>0, <1>2 DEF ArchiveRead, TakeUp, files, parent
<1>3. CASE OpenShard(w) \/ WriteTemp(w) \/ SyncFinal(w) \/ SyncRemoval(w) \/ ArchiveRefused(w)
           \/ RemoveShard(w) \/ RecoverCheck(w) \/ RecoverSync(w) \/ RecoverSyncRemoval(w)
  BY <1>0, <1>3
  DEF OpenShard, WriteTemp, SyncFinal, SyncRemoval, ArchiveRefused, RemoveShard, RecoverCheck,
      RecoverSync, RecoverSyncRemoval, SyncDirectory, files
<1>4. ASSUME job[w].pc # "idle", row' = row, NEW n \in Names, NEW x, NEW pc,
             SetEntry(w, n, x, pc), n = "final" => x = "own", Accounted(row[On(w)])
      PROVE  Change(a)
  <2>1. live' = [live EXCEPT ![On(w)][n] = x] /\ On(w) \in Attachments
    BY <1>4, Own DEF SetEntry, On
  <2>2. CASE a # On(w)
    BY <1>0, <1>4, <2>1, <2>2 DEF Change
  <2>3. CASE a = On(w)
    <3>1. live'[a] = [live[a] EXCEPT ![n] = x] /\ live[a] \in [Names -> {"none", "own", "other"}]
      BY <1>0, <2>1, <2>3 DEF Entries
    <3>2. live[a].final = "own" => live'[a].final = "own"
      BY <1>4, <3>1 DEF Names
    <3> QED
      BY <1>4, <2>3, <3>2 DEF Change
  <2> QED
    BY <2>2, <2>3
<1>5. ASSUME job[w].pc # "idle"
      PROVE  /\ On(w) \in Attachments /\ row[On(w)] \in AttachmentRow
             /\ RowFacts(row[On(w)], live[On(w)], disk[On(w)], former[On(w)], whole[On(w)])
             /\ JobFacts(job[w].pc, row[On(w)], live[On(w)], disk[On(w)], former[On(w)],
                         whole[On(w)])
  BY <1>5, Own
<1>6. CASE OpenTemp(w) \/ LinkFinal(w) \/ RemoveTemp(w) \/ UndoTemp(w) \/ RecoverRemoveTemp(w)
  <2>1. job[w].pc \in {"up.temp", "up.link", "up.untemp", "undo.temp", "rec.temp"}
    BY <1>6 DEF OpenTemp, LinkFinal, RemoveTemp, UndoTemp, RecoverRemoveTemp, At
  <2>2. Accounted(row[On(w)])
    BY <1>5, <2>1 DEF RowFacts, JobFacts, Accounted
  <2> QED
    BY <1>4, <1>6, <2>1, <2>2
    DEF OpenTemp, LinkFinal, RemoveTemp, UndoTemp, RecoverRemoveTemp, SetEntry, Names
<1>7. CASE RemoveOld(w) \/ DropQuarantine(w)
  <2>1. job[w].pc \in {"cln.old", "cln.drop"}
    BY <1>7 DEF RemoveOld, DropQuarantine, At
  <2>2. Accounted(row[On(w)])
    BY <1>5, <2>1 DEF JobFacts, Accounted
  <2> QED
    BY <1>4, <1>7, <2>1, <2>2 DEF RemoveOld, DropQuarantine, SetEntry, Names
<1>8. CASE MoveFinal(w)
  <2>1. job[w].pc = "cln.move"
    BY <1>8 DEF MoveFinal, At
  <2>2. On(w) \in Attachments /\ row[On(w)].state = "ARCHIVED" /\ ~row[On(w)].removed
    BY <1>5, <2>1 DEF JobFacts
  <2>3. row' = row /\ (a # On(w) => live'[a] = live[a])
    BY <1>0, <1>8, <2>2 DEF MoveFinal, MoveNoReplace, On
  <2> QED
    BY <2>2, <2>3 DEF Change, Accounted
<1>9. ASSUME live' = live, job[w].pc # "idle", NEW r, row' = [row EXCEPT ![On(w)] = r],
             Accounted(r) \/ Empty(live[On(w)])
      PROVE  Change(a)
  <2>1. CASE a # On(w)
    BY <1>0, <1>9, <2>1 DEF Change
  <2>2. CASE a = On(w)
    BY <1>0, <1>9, <2>2 DEF Change
  <2> QED
    BY <2>1, <2>2
<1>10. ASSUME live' = live, job[w].pc \notin {"idle", "arc.update"},
              NEW state \in {"PENDING", "ARCHIVED"}, RecordFailure(On(w), state)
       PROVE  Change(a)
  <2> DEFINE r == [row[On(w)] EXCEPT !.attempts = @ + 1]
  <2>1. CASE row' = row
    BY <1>0, <1>10, <2>1
  <2>2. CASE Retryable(On(w), state) /\ row' = [row EXCEPT ![On(w)].attempts = @ + 1]
    <3>1. row' = [row EXCEPT ![On(w)] = r] /\ row[On(w)] \in AttachmentRow
          /\ Accounted(row[On(w)])
      BY <1>5, <1>10, <2>2 DEF Retryable, Accounted
    <3>2. Accounted(r)
      BY <3>1 DEF Accounted, AttachmentRow
    <3> QED
      BY <1>9, <1>10, <3>1, <3>2
  <2> QED
    BY <1>10, <2>1, <2>2 DEF RecordFailure
<1>11. CASE UploadFails(w) \/ UndoFails(w) \/ CleaningFails(w) \/ RecoverFails(w)
  <2>1. live' = live /\ job[w].pc \notin {"idle", "arc.update"}
        /\ \/ row' = row
           \/ \E state \in {"PENDING", "ARCHIVED"} : RecordFailure(On(w), state)
    BY <1>11 DEF UploadFails, UndoFails, CleaningFails, RecoverFails, At, On, files, parent
  <2> QED
    BY <1>0, <1>10, <2>1
<1>12. CASE RecordIdentity(w) \/ MarkPublished(w)
  <2>1. job[w].pc \in {"up.identify", "up.mark"} /\ live' = live
    BY <1>12 DEF RecordIdentity, MarkPublished, At, files, parent
  <2>2. Accounted(row[On(w)]) /\ row[On(w)] \in AttachmentRow
    BY <1>5, <2>1 DEF RowFacts, JobFacts, Accounted
  <2>3. /\ Accounted([row[On(w)] EXCEPT !.identified = TRUE])
        /\ Accounted([row[On(w)] EXCEPT !.published = TRUE])
    BY <2>2 DEF Accounted, AttachmentRow
  <2>4. \/ row' = [row EXCEPT ![On(w)] = [row[On(w)] EXCEPT !.identified = TRUE]]
        \/ row' = [row EXCEPT ![On(w)] = [row[On(w)] EXCEPT !.published = TRUE]]
    BY <1>12 DEF RecordIdentity, MarkPublished, On
  <2> QED
    BY <1>9, <2>1, <2>3, <2>4
<1>13. CASE Activate(w) \/ RecoverActivate(w)
  <2> DEFINE r == [[row[On(w)] EXCEPT !.state = "ACTIVE"] EXCEPT !.attempts = 0]
  <2>1. job[w].pc \in {"up.activate", "rec.activate"} /\ live' = live
        /\ row' = [row EXCEPT ![On(w)] = r]
    BY <1>13 DEF Activate, RecoverActivate, At, files, parent, On
  <2>2. Accounted(row[On(w)]) /\ row[On(w)] \in AttachmentRow
    BY <1>5, <2>1 DEF RowFacts, JobFacts, Accounted
  <2>3. Accounted(r)
    BY <2>2 DEF Accounted, AttachmentRow
  <2> QED
    BY <1>9, <2>1, <2>3
<1>14. CASE ArchiveUpdate(w)
  <2> DEFINE r == [[[row[On(w)] EXCEPT !.state = "ARCHIVED"] EXCEPT !.removed = FALSE]
                     EXCEPT !.attempts = 0]
  <2>1. job[w].pc = "arc.update" /\ live' = live /\ row' = [row EXCEPT ![On(w)] = r]
    BY <1>14 DEF ArchiveUpdate, At, files, parent, On
  <2>2. Accounted(r)
    BY <1>5, <2>1 DEF Accounted, AttachmentRow
  <2> QED
    BY <1>9, <2>1, <2>2
<1>15. CASE UndoRow(w) \/ MarkDeleted(w)
  <2>1. job[w].pc \in {"undo.row", "cln.mark"} /\ live' = live
    BY <1>15 DEF UndoRow, MarkDeleted, At, files, parent
  <2>2. Empty(live[On(w)])
    BY <1>5, <2>1 DEF RowFacts, JobFacts, Empty
  <2>3. \E r : row' = [row EXCEPT ![On(w)] = r]
    BY <1>15 DEF UndoRow, MarkDeleted, On
  <2> QED
    BY <1>9, <2>1, <2>2, <2>3
<1> QED
  BY <1>1, <1>2, <1>3, <1>6, <1>7, <1>8, <1>11, <1>12, <1>13, <1>14, <1>15
  DEF Upload, Archive, Clean, Recover

\* The same of any step with which the host does not fail.
LEMMA AllChanges ==
  ASSUME StorageIInv, [Next]_vars, ~HostFails, NEW a \in Attachments
  PROVE  Change(a)
<1>1. CASE UNCHANGED <<row, live>>
  BY <1>1 DEF Change
<1> QED
  BY <1>1, Changes DEF Next, EndBatch, Crash, WriteBack, files, parent, vars

\* However uploads fail and processes are lost, no file stays behind without a row that
\* accounts for it (handlePendingUploadFailure, cleanupPublishedFile, reconciliation).
THEOREM NothingStrays == Spec => NoStrayFile
<1>1. ASSUME StorageIInv, [Next]_vars, NEW a \in Attachments, Stray(a)', ~HostFails
      PROVE  Stray(a)
  <2>1. Change(a)
    BY <1>1, AllChanges
  <2>2. live[a] \in Entries
    BY <1>1, OfAttachment
  <2> QED
    BY <1>1, <2>1, <2>2, EntriesEqual DEF Stray, Change, Accounted
<1>2. StorageIInv /\ [Next]_vars =>
        [\A a \in Attachments : Stray(a)' => Stray(a) \/ HostFails]_vars
  BY <1>1
<1> QED
  BY <1>2, StorageInvariance, PTL DEF Spec, NoStrayFile

\* Once the final link exists it is kept with its row until the attachment is archived; only
\* with the host can one be lost, and not once its row is marked published and the shard
\* anchored.
THEOREM LinksAreRetained == Spec => LinkedIsRetained
<1>1. ASSUME StorageIInv, [Next]_vars, NEW a \in Attachments,
             live[a].final = "own", row[a].state # "ARCHIVED"
      PROVE  /\ row'[a].state \in {"PENDING", "ACTIVE", "ARCHIVED"}
             /\ live'[a].final = "own" \/ (HostFails /\ ~(row[a].published /\ anchored))
  <2>1. /\ row[a].state \in {"PENDING", "ACTIVE"} /\ shard
        /\ row[a].published => disk[a].final = "own"
    <3>1. /\ RowFacts(row[a], live[a], disk[a], former[a], whole[a]) /\ row[a] \in AttachmentRow
          /\ ~Empty(live[a]) => shard
      BY <1>1, OfAttachment
    <3> QED
      BY <1>1, <3>1 DEF RowFacts, Empty, OnlyFinal, AttachmentRow
  <2>2. CASE HostFails
    <3>1. row'[a] = row[a]
          /\ (live'[a].final \in {live[a].final, disk[a].final} \/ ~(anchored /\ shard))
      BY <1>1, <2>2, EntriesAfterFailure DEF HostFails
    <3> QED
      BY <1>1, <2>1, <2>2, <3>1
  <2>3. CASE ~HostFails
    <3>1. Change(a)
      BY <1>1, <2>3, AllChanges
    <3> QED
      BY <1>1, <2>1, <3>1 DEF Change, Accounted, Empty
  <2> QED
    BY <2>2, <2>3
<1>2. StorageIInv /\ [Next]_vars =>
        [\A a \in Attachments :
           live[a].final = "own" /\ row[a].state # "ARCHIVED"
             => /\ row'[a].state \in {"PENDING", "ACTIVE", "ARCHIVED"}
                /\ live'[a].final = "own" \/ (HostFails /\ ~(row[a].published /\ anchored))]_vars
  BY <1>1
<1> QED
  BY <1>2, StorageInvariance, PTL DEF Spec, LinkedIsRetained

-----------------------------------------------------------------------------
(***************************************************************************)
(* Backup and restore.  After a restore an entry may be a file that its    *)
(* row does not remember, so StorageIInv does not hold any more.  What is  *)
(* left is inductive by itself: such an entry is on the disk, too, and the *)
(* shard anchored; what a job has read of its own entries still holds; and *)
(* as long as a row can be downloaded, a backup that began with it has its *)
(* file or will.                                                           *)
(***************************************************************************)
Uploading == Unpublished \cup Publishing \cup {"up.activate", "undo.temp", "undo.row"}

\* The final entry has been seen to be the file of the row.
Linked == {"up.sync", "up.mark", "up.untemp", "up.settle", "up.activate"}
            \cup (Recovering \ {"rec.check"})

\* The row of an attachment, its entries, those on the disk and in a former shard.
RestoredRow(r, l, d, f) ==
  /\ r.state = "ABSENT" => r = NoRow /\ Empty(l) /\ Empty(d) /\ Empty(f)
  /\ r.state = "ACTIVE" => d.final = l.final
  /\ \A n \in Names : l[n] = "other" <=> d[n] = "other"

\* What a job relies on at its next statement.
RestoredJob(pc, r, l, d) ==
  /\ pc \in Uploading \cup Recovering => r.state = "PENDING"
  /\ pc \in Uploading \cup (Recovering \ {"rec.check"}) => l.temp # "other"
  /\ pc \in Linked \cup {"up.link"} => r.identified
  /\ pc \in Linked => l.final = "own"
  /\ pc \in {"up.activate", "rec.activate"} => d.final = "own"
  /\ pc \in Cleaning => r.state = "ARCHIVED"
  /\ pc = "cln.drop" => l.quarantine # "other"

\* What a backup has of an attachment, or has still to read.
BackupRow(b, a, r, l) ==
  /\ r.state = "ABSENT" => b.names[a] = {}
  /\ a \in b.active =>
       /\ r.state \in {"ACTIVE", "ARCHIVED"}
       /\ r.state = "ACTIVE" =>
            IF b.pc = "reading" /\ a \notin b.read THEN l.final # "none" ELSE "final" \in b.names[a]

RowsRestored ==
  \A a \in Attachments :
    RestoredRow(row[a], live[a], disk[a], former[a]) /\ BackupRow(backup, a, row[a], live[a])

JobsRestored ==
  \A w \in Workers : job[w] # Idle => RestoredJob(job[w].pc, row[On(w)], live[On(w)], disk[On(w)])

VolumeIsOffline == restoring => backup.pc = "pair" /\ \A w \in Workers : job[w] = Idle

\* A file that its row does not remember was unpacked with its directory.
ForeignAnchored ==
  \A a \in Attachments, n \in Names : live[a][n] = "other" => shard /\ anchored

RestoreIInv ==
  /\ RestoreTypeOK /\ RowsRestored /\ JobsRestored /\ OneBusy /\ QueueFits /\ VolumeIsOffline
  /\ ForeignAnchored

\* What it says of an attachment.
LEMMA OfRestored ==
  ASSUME RestoreIInv, NEW a \in Attachments
  PROVE  /\ row[a] \in AttachmentRow /\ live[a] \in Entries /\ disk[a] \in Entries
         /\ former[a] \in Entries
         /\ RestoredRow(row[a], live[a], disk[a], former[a])
         /\ BackupRow(backup, a, row[a], live[a])
BY DEF RestoreIInv, RestoreTypeOK, TypeOK, Entries, RowsRestored

\* What it says of a worker that is busy.
LEMMA OwnRestored ==
  ASSUME RestoreIInv, NEW w \in Workers, job[w].pc # "idle"
  PROVE  /\ job[w] # Idle /\ job[w] \in Jobs /\ On(w) \in Attachments /\ On(w) \notin queue
         /\ RestoredJob(job[w].pc, row[On(w)], live[On(w)], disk[On(w)])
         /\ row[On(w)] \in AttachmentRow /\ live[On(w)] \in Entries /\ disk[On(w)] \in Entries
         /\ RestoredRow(row[On(w)], live[On(w)], disk[On(w)], former[On(w)])
         /\ BackupRow(backup, On(w), row[On(w)], live[On(w)])
         /\ Working(w) => Alone(w, On(w))
<1>1. job[w] # Idle /\ job[w] \in Jobs /\ On(w) \in Attachments
  BY DEF RestoreIInv, RestoreTypeOK, TypeOK, Idle, Jobs, On
<1>2. /\ RestoredJob(job[w].pc, row[On(w)], live[On(w)], disk[On(w)])
      /\ On(w) \notin queue /\ (Working(w) => Alone(w, On(w)))
  BY <1>1 DEF RestoreIInv, JobsRestored, OneBusy, QueueFits, At, On, Working
<1> QED
  BY <1>1, <1>2, OfRestored

\* A request that is about to archive relies on nothing; an upload whose directory has gone
\* relies on nothing more than before; and neither an fsync nor the removal of the shard
\* disturbs anything.
LEMMA RestoredFacts ==
  ASSUME NEW r, NEW l, NEW d, NEW f
  PROVE  /\ RestoredJob("arc.update", r, l, d)
         /\ RestoredJob("up.temp", r, l, d) => RestoredJob("up.stale", r, l, d)
         /\ RestoredRow(r, l, d, f) => \A e \in {d, l}, g \in {f, d} : RestoredRow(r, l, e, g)
         /\ \A pc : RestoredJob(pc, r, l, d) => RestoredJob(pc, r, l, l)
<1> USE DEF Uploading, Linked, Unpublished, Publishing, Recovering, Cleaning
<1>1. RestoredJob("arc.update", r, l, d)
  BY DEF RestoredJob
<1>2. RestoredJob("up.temp", r, l, d) => RestoredJob("up.stale", r, l, d)
  BY DEF RestoredJob
<1>3. ASSUME RestoredRow(r, l, d, f), NEW e \in {d, l}, NEW g \in {f, d}
      PROVE  RestoredRow(r, l, e, g)
  BY <1>3 DEF RestoredRow, Empty
<1>4. ASSUME NEW pc, RestoredJob(pc, r, l, d)
      PROVE  RestoredJob(pc, r, l, l)
  BY <1>4 DEF RestoredJob
<1> QED
  BY <1>1, <1>2, <1>3, <1>4

\* The upload of another worker finds that the directory has been removed.
BecomesStale(v) ==
  /\ job[v].pc = "up.temp" /\ job[v] \in Jobs
  /\ job'[v].pc = "up.stale" /\ job'[v] \in Jobs /\ job'[v].on = job[v].on

\* A step of one worker on one attachment, which may sync the directory.
LEMMA RestoredStep ==
  ASSUME RestoreIInv, NEW w \in Workers, NEW a \in Attachments, ~restoring,
         UNCHANGED <<backup, restoring, restores, phase>>,
         row' \in [Attachments -> AttachmentRow], live' \in [Attachments -> Entries],
         whole' \in [Attachments -> BOOLEAN], shard' \in BOOLEAN,
         job' \in [Workers -> {Idle} \cup Jobs],
         disk' = disk \/ disk' = live, former' = former \/ former' = disk, queue' \subseteq queue,
         anchored' \in BOOLEAN,
         (shard /\ anchored => shard' /\ anchored') \/ \A b \in Attachments : Empty(live'[b]),
         \A b \in Attachments \ {a} : row'[b] = row[b] /\ live'[b] = live[b],
         \A v \in Workers \ {w} : job'[v] = job[v] \/ BecomesStale(v),
         (row'[a] = row[a] /\ live'[a] = live[a]) \/ (Alone(w, a) /\ a \notin queue),
         RestoredRow(row'[a], live'[a], disk'[a], former'[a]),
         BackupRow(backup, a, row'[a], live'[a]),
         job'[w] # Idle =>
           /\ job'[w].on = a /\ a \notin queue'
           /\ job'[w].pc = "arc.update" \/ Alone(w, a)
           /\ RestoredJob(job'[w].pc, row'[a], live'[a], disk'[a])
  PROVE  RestoreIInv'
<1>1. /\ disk' \in [Attachments -> Entries] /\ queue' \subseteq Attachments
      /\ former' \in [Attachments -> Entries]
      /\ \A b \in Attachments : /\ disk'[b] \in {disk[b], live[b]}
                               /\ former'[b] \in {former[b], disk[b]}
  BY DEF RestoreIInv, RestoreTypeOK, TypeOK, Entries
<1>2. RestoreTypeOK'
  BY <1>1 DEF RestoreIInv, RestoreTypeOK, TypeOK, Entries
<1>3. RowsRestored'
  <2>1. ASSUME NEW b \in Attachments, b # a
        PROVE  /\ RestoredRow(row'[b], live'[b], disk'[b], former'[b])
               /\ BackupRow(backup, b, row'[b], live'[b])
    <3>1. RestoredRow(row[b], live[b], disk[b], former[b]) /\ BackupRow(backup, b, row[b], live[b])
      BY OfRestored
    <3>2. RestoredRow(row[b], live[b], disk'[b], former'[b])
      BY <1>1, <3>1, RestoredFacts
    <3> QED
      BY <2>1, <3>1, <3>2
  <2> QED
    BY <2>1 DEF RowsRestored
<1>4. JobsRestored'
  <2>1. SUFFICES ASSUME NEW v \in Workers, v # w, job'[v] # Idle
                 PROVE  LET b == job'[v].on IN RestoredJob(job'[v].pc, row'[b], live'[b], disk'[b])
    BY DEF JobsRestored, On
  <2>2. job[v] # Idle /\ job[v] \in Jobs /\ On(v) \in Attachments /\ job'[v].on = On(v)
    BY <2>1 DEF RestoreIInv, RestoreTypeOK, TypeOK, Jobs, BecomesStale, On, Idle
  <2>3. RestoredJob(job[v].pc, row[On(v)], live[On(v)], disk[On(v)])
    BY <2>2 DEF RestoreIInv, JobsRestored
  <2>4. RestoredJob(job[v].pc, row[On(v)], live[On(v)], disk'[On(v)])
    BY <1>1, <2>2, <2>3, RestoredFacts
  <2>5. RestoredJob(job'[v].pc, row[On(v)], live[On(v)], disk'[On(v)])
    BY <2>1, <2>4, RestoredFacts DEF BecomesStale
  <2>6. CASE row'[On(v)] = row[On(v)] /\ live'[On(v)] = live[On(v)]
    BY <2>2, <2>5, <2>6
  <2>7. CASE On(v) = a /\ Alone(w, a)
    <3>1. job[v].pc = "arc.update"
      BY <2>1, <2>2, <2>7 DEF Alone, At, On
    <3>2. job'[v].pc = "arc.update"
      BY <2>1, <3>1 DEF BecomesStale
    <3>3. \A r, l, d : RestoredJob("arc.update", r, l, d)
      BY RestoredFacts
    <3> QED
      BY <3>2, <3>3
  <2> QED
    BY <2>2, <2>6, <2>7
<1>5. \A v \in Workers \ {w} : /\ job'[v] = Idle <=> job[v] = Idle
                               /\ job'[v] # Idle => job'[v].on = job[v].on
                               /\ job'[v].pc = "arc.update" <=> job[v].pc = "arc.update"
  BY DEF BecomesStale, Jobs, Idle
<1>6. OneBusy'
  BY <1>5 DEF RestoreIInv, OneBusy, Alone, At
<1>7. QueueFits'
  <2>1. \A b \in queue' : b \in queue /\ row'[b] = row[b]
    BY DEF RestoreIInv, RestoreTypeOK, TypeOK
  <2>2. \A v \in Workers : job'[v] # Idle => job'[v].on \notin queue'
    BY <1>5 DEF RestoreIInv, QueueFits
  <2> QED
    BY <2>1, <2>2 DEF RestoreIInv, QueueFits
<1>8. VolumeIsOffline'
  BY DEF VolumeIsOffline
<1>9. ForeignAnchored'
  <2>1. SUFFICES ASSUME NEW b \in Attachments, NEW n \in Names, live'[b][n] = "other"
                 PROVE  shard' /\ anchored'
    BY DEF ForeignAnchored
  <2>2. RestoredRow(row'[b], live'[b], disk'[b], former'[b])
    BY <1>3 DEF RowsRestored
  <2>3. disk'[b][n] = "other" /\ ~Empty(live'[b])
    BY <2>1, <2>2 DEF RestoredRow, Empty, Names
  <2>4. live[b][n] = "other"
    BY <1>1, <2>3, OfRestored DEF RestoredRow
  <2> QED
    BY <2>3, <2>4 DEF RestoreIInv, ForeignAnchored
<1> QED
  BY <1>2, <1>3, <1>4, <1>6, <1>7, <1>8, <1>9 DEF RestoreIInv

\* A step of the API while no restore is under way.
Serving == ~restoring /\ UNCHANGED <<backup, restoring, restores>>

\* The job of w goes on with pc, or ends.
Follows(w, pc) == (pc \in Pcs /\ GoTo(w, pc)) \/ (pc = "idle" /\ Done(w))

\* It stays on its attachment, and the other jobs do not change.
LEMMA JobFollows ==
  ASSUME RestoreIInv, NEW w \in Workers, job[w].pc # "idle", NEW pc, Follows(w, pc)
  PROVE  /\ job' \in [Workers -> {Idle} \cup Jobs]
         /\ \A v \in Workers \ {w} : job'[v] = job[v]
         /\ job'[w] # Idle => job'[w].on = On(w) /\ job'[w].pc = pc
<1>1. job \in [Workers -> {Idle} \cup Jobs] /\ job[w] \in Jobs
  BY OwnRestored DEF RestoreIInv, RestoreTypeOK, TypeOK
<1>2. CASE pc \in Pcs /\ GoTo(w, pc)
  <2> DEFINE j == [job[w] EXCEPT !.pc = pc]
  <2>1. j \in Jobs /\ j.on = On(w) /\ j.pc = pc
    BY <1>1, <1>2 DEF Jobs, Pcs, On
  <2>2. job' = [job EXCEPT ![w] = j]
    BY <1>2 DEF GoTo
  <2> QED
    BY <1>1, <2>1, <2>2
<1>3. CASE pc = "idle" /\ Done(w)
  BY <1>1, <1>3 DEF Done
<1> QED
  BY <1>2, <1>3 DEF Follows

\* One entry of a worker's attachment appears or disappears.
LEMMA EntryRestored ==
  ASSUME RestoreIInv, Serving, NEW w \in Workers, Working(w),
         NEW n \in Names, NEW x \in {"none", "own"}, NEW pc \in Pcs, SetEntry(w, n, x, pc),
         NEW l, l = [live[On(w)] EXCEPT ![n] = x],
         RestoredRow(row[On(w)], l, disk[On(w)], former[On(w)]), BackupRow(backup, On(w),
         row[On(w)], l),
         RestoredJob(pc, row[On(w)], l, disk[On(w)])
  PROVE  RestoreIInv'
<1>1. /\ On(w) \in Attachments /\ On(w) \notin queue /\ Alone(w, On(w)) /\ live[On(w)] \in Entries
      /\ job[w].pc # "idle" /\ l \in Entries
  BY OwnRestored DEF Working, Entries
<1>2. /\ live' = [live EXCEPT ![On(w)] = l]
      /\ Follows(w, pc) /\ UNCHANGED <<row, disk, whole, shard, anchored, former, phase, queue>>
  BY <1>1 DEF SetEntry, On, Follows, boot, parent, RestoreIInv, RestoreTypeOK, TypeOK
<1>3. /\ live' \in [Attachments -> Entries] /\ live'[On(w)] = l
      /\ \A b \in Attachments \ {On(w)} : live'[b] = live[b]
      /\ row \in [Attachments -> AttachmentRow] /\ whole \in [Attachments -> BOOLEAN]
      /\ shard \in BOOLEAN /\ anchored \in BOOLEAN
  BY <1>1, <1>2 DEF RestoreIInv, RestoreTypeOK, TypeOK, Entries
<1>4. /\ job' \in [Workers -> {Idle} \cup Jobs]
      /\ \A v \in Workers \ {w} : job'[v] = job[v]
      /\ job'[w] # Idle => job'[w].on = On(w) /\ job'[w].pc = pc
  BY <1>1, <1>2, JobFollows
<1>5. /\ RestoredRow(row'[On(w)], live'[On(w)], disk'[On(w)], former'[On(w)])
      /\ BackupRow(backup, On(w), row'[On(w)], live'[On(w)])
      /\ job'[w] # Idle => RestoredJob(job'[w].pc, row'[On(w)], live'[On(w)], disk'[On(w)])
  BY <1>2, <1>3, <1>4
<1> QED
  BY <1>1, <1>2, <1>3, <1>4, <1>5, RestoredStep DEF Serving

\* The row of a worker's attachment changes.
LEMMA RowRestored ==
  ASSUME RestoreIInv, Serving, NEW w \in Workers, job[w].pc # "idle", Alone(w, On(w)),
         NEW r \in AttachmentRow, row' = [row EXCEPT ![On(w)] = r], NEW pc, Follows(w, pc),
         UNCHANGED <<files, boot>>,
         RestoredRow(r, live[On(w)], disk[On(w)], former[On(w)]), BackupRow(backup, On(w), r,
         live[On(w)]),
         RestoredJob(pc, r, live[On(w)], disk[On(w)])
  PROVE  RestoreIInv'
<1>1. On(w) \in Attachments /\ On(w) \notin queue
  BY OwnRestored
<1>2. /\ row' \in [Attachments -> AttachmentRow] /\ row'[On(w)] = r
      /\ \A b \in Attachments \ {On(w)} : row'[b] = row[b]
      /\ live \in [Attachments -> Entries] /\ whole \in [Attachments -> BOOLEAN]
      /\ shard \in BOOLEAN /\ anchored \in BOOLEAN
      /\ UNCHANGED <<live, disk, whole, shard, anchored, former, phase, queue>>
  BY <1>1 DEF RestoreIInv, RestoreTypeOK, TypeOK, Entries, files, parent, boot
<1> QED
  BY <1>1, <1>2, JobFollows, RestoredStep DEF Serving

\* Neither the row nor an entry changes; the directory may be synced.
LEMMA JobRestored ==
  ASSUME RestoreIInv, Serving, NEW w \in Workers, job[w].pc # "idle",
         UNCHANGED <<row, live, anchored, former, phase, queue>>, disk' = disk \/ disk' = live,
         whole' \in [Attachments -> BOOLEAN], shard' = shard \/ shard' = TRUE,
         NEW pc, Follows(w, pc), pc = "idle" \/ Working(w),
         RestoredJob(pc, row[On(w)], live[On(w)], disk'[On(w)])
  PROVE  RestoreIInv'
<1>1. /\ On(w) \in Attachments /\ On(w) \notin queue
      /\ RestoredRow(row[On(w)], live[On(w)], disk[On(w)], former[On(w)])
      /\ BackupRow(backup, On(w), row[On(w)], live[On(w)])
      /\ Working(w) => Alone(w, On(w))
  BY OwnRestored
<1>2. RestoredRow(row[On(w)], live[On(w)], disk'[On(w)], former'[On(w)])
  BY <1>1, RestoredFacts
<1>3. /\ row \in [Attachments -> AttachmentRow] /\ live \in [Attachments -> Entries]
      /\ shard' \in BOOLEAN /\ anchored \in BOOLEAN /\ (shard => shard')
  BY DEF RestoreIInv, RestoreTypeOK, TypeOK, Entries
<1>4. job'[w] # Idle => pc # "idle"
  BY DEF Follows, Done, Pcs, Unpublished, Publishing, Recovering, Cleaning, RestoreIInv,
         RestoreTypeOK, TypeOK
<1>5. /\ job' \in [Workers -> {Idle} \cup Jobs]
      /\ \A v \in Workers \ {w} : job'[v] = job[v]
      /\ job'[w] # Idle => job'[w].on = On(w) /\ job'[w].pc = pc
  BY JobFollows
<1>6. queue' = queue /\ UNCHANGED <<backup, restoring, restores, phase>> /\ ~restoring
  BY DEF Serving
<1> QED
  BY <1>1, <1>2, <1>3, <1>4, <1>5, <1>6, RestoredStep

\* A failure that is counted, or whose count is lost, ends the job and changes nothing else.
LEMMA FailureRestored ==
  ASSUME RestoreIInv, Serving, NEW w \in Workers, Working(w),
         NEW state \in {"PENDING", "ARCHIVED"}, RecordFailure(On(w), state) \/ UNCHANGED row,
         Done(w), UNCHANGED <<files, boot>>
  PROVE  RestoreIInv'
<1> DEFINE r == [row[On(w)] EXCEPT !.attempts = @ + 1]
<1>1. /\ job[w].pc # "idle" /\ Follows(w, "idle")
      /\ \A r1, l, d : RestoredJob("idle", r1, l, d)
  BY DEF Working, Follows, RestoredJob, Uploading, Linked, Unpublished, Publishing, Recovering,
         Cleaning
<1>2. CASE UNCHANGED row
  <2>1. whole \in [Attachments -> BOOLEAN] /\ shard \in BOOLEAN
        /\ UNCHANGED <<live, disk, whole, shard, anchored, former, phase, queue>>
    BY DEF RestoreIInv, RestoreTypeOK, TypeOK, files, parent, boot
  <2> QED
    BY <1>1, <1>2, <2>1, JobRestored
<1>3. CASE Retryable(On(w), state) /\ row' = [row EXCEPT ![On(w)].attempts = @ + 1]
  <2>1. /\ On(w) \in Attachments /\ row[On(w)] \in AttachmentRow /\ Alone(w, On(w))
        /\ row' = [row EXCEPT ![On(w)] = r]
        /\ row[On(w)].attempts < CleanupAttempts /\ row[On(w)].state = state
        /\ RestoredRow(row[On(w)], live[On(w)], disk[On(w)], former[On(w)])
        /\ BackupRow(backup, On(w), row[On(w)], live[On(w)])
    BY <1>3, OwnRestored DEF Retryable, Working
  <2>2. row[On(w)].attempts + 1 \in 0..CleanupAttempts
    BY <2>1, StorageAssumption DEF AttachmentRow
  <2>3. r \in AttachmentRow /\ r.state = state
    BY <2>1, <2>2 DEF AttachmentRow
  <2> HIDE DEF r
  <2>4. /\ RestoredRow(r, live[On(w)], disk[On(w)], former[On(w)])
        /\ BackupRow(backup, On(w), r, live[On(w)])
    BY <2>1, <2>3 DEF RestoredRow, BackupRow
  <2> QED
    BY <1>1, <2>1, <2>3, <2>4, RowRestored
<1> QED
  BY <1>2, <1>3 DEF RecordFailure

\* No job that relies on anything is on an attachment in these states.
LEMMA BusyRestored ==
  ASSUME RestoreIInv, NEW a \in Attachments, row[a].state \in {"ABSENT", "ACTIVE", "DELETED"},
         NEW w
  PROVE  Alone(w, a)
<1>1. SUFFICES ASSUME NEW v \in Workers, job[v] # Idle, job[v].on = a, job[v].pc # "arc.update"
               PROVE  FALSE
  BY DEF Alone, At
<1>2. job[v] \in Jobs /\ RestoredJob(job[v].pc, row[a], live[a], disk[a])
  BY <1>1 DEF RestoreIInv, JobsRestored, RestoreTypeOK, TypeOK, On
<1> QED
  BY <1>1, <1>2 DEF Jobs, RestoredJob, Uploading, Unpublished, Publishing, Recovering, Cleaning

\* The entries of an attachment after one of them has been set.
LEMMA EntrySet ==
  ASSUME NEW e \in Entries, NEW n \in Names, NEW x \in {"none", "own"},
         NEW l, l = [e EXCEPT ![n] = x]
  PROVE  /\ l \in Entries /\ \A m \in Names : l[m] = IF m = n THEN x ELSE e[m]
         /\ l.temp = IF n = "temp" THEN x ELSE e.temp
         /\ l.final = IF n = "final" THEN x ELSE e.final
         /\ l.quarantine = IF n = "quarantine" THEN x ELSE e.quarantine
BY DEF Entries, Names

\* storeAttachmentFile, the activation, and what follows when one of their calls fails.
LEMMA UploadRestores ==
  ASSUME RestoreIInv, Serving, NEW w \in Workers, Upload(w)
  PROVE  RestoreIInv'
<1> USE DEF Uploading, Linked, Unpublished, Publishing, Recovering, Cleaning, Pcs
<1>1. ASSUME NEW b \in Attachments, UploadInsert(w, b)
      PROVE  RestoreIInv'
  <2> DEFINE r == [NoRow EXCEPT !.state = "PENDING"]
             j == [pc |-> "up.anchor", on |-> b]
  <2>1. /\ row[b] = NoRow /\ queue = {} /\ job[w] = Idle
        /\ row' = [row EXCEPT ![b] = r] /\ job' = [job EXCEPT ![w] = j]
        /\ UNCHANGED <<live, disk, whole, shard, anchored, former, phase, queue>>
    BY <1>1 DEF UploadInsert, Begin, files, parent, boot, RestoreIInv, QueueFits
  <2>2. r \in AttachmentRow /\ j \in Jobs /\ r.state = "PENDING"
    BY NoRowTyped DEF AttachmentRow, Jobs, NoRow
  <2>3. j.on = b /\ j.pc = "up.anchor"
    OBVIOUS
  <2> HIDE DEF r, j
  <2>4. /\ RestoredRow(row[b], live[b], disk[b], former[b]) /\ BackupRow(backup, b, row[b], live[b])
        /\ row[b].state = "ABSENT"
    BY <2>1, OfRestored DEF NoRow
  <2>5. /\ RestoredRow(r, live[b], disk[b], former[b]) /\ BackupRow(backup, b, r, live[b])
        /\ RestoredJob("up.anchor", r, live[b], disk[b])
    BY <2>2, <2>4 DEF RestoredRow, BackupRow, RestoredJob, Empty
  <2>6. Alone(w, b)
    BY <2>4, BusyRestored
  <2>7. /\ row' \in [Attachments -> AttachmentRow] /\ row'[b] = r
        /\ \A c \in Attachments \ {b} : row'[c] = row[c]
        /\ live \in [Attachments -> Entries] /\ whole \in [Attachments -> BOOLEAN]
        /\ shard \in BOOLEAN /\ anchored \in BOOLEAN
        /\ job' \in [Workers -> {Idle} \cup Jobs] /\ job'[w] = j
        /\ \A v \in Workers \ {w} : job'[v] = job[v]
    BY <2>1, <2>2 DEF RestoreIInv, RestoreTypeOK, TypeOK, Entries
  <2> QED
    BY <2>1, <2>3, <2>5, <2>6, <2>7, RestoredStep DEF Serving
<1> DEFINE a == On(w)
           r0 == row[a]
           l0 == live[a]
<1>2. ASSUME job[w].pc # "idle"
      PROVE  /\ a \in Attachments /\ r0 \in AttachmentRow /\ l0 \in Entries /\ disk[a] \in Entries
             /\ RestoredJob(job[w].pc, r0, l0, disk[a]) /\ RestoredRow(r0, l0, disk[a], former[a])
             /\ BackupRow(backup, a, r0, l0) /\ (Working(w) => Alone(w, a))
  BY <1>2, OwnRestored
<1>3. whole \in [Attachments -> BOOLEAN] /\ shard \in BOOLEAN
  BY DEF RestoreIInv, RestoreTypeOK, TypeOK
<1> HIDE DEF a, r0, l0
<1>4. CASE OpenShard(w)
  <2>1. /\ job[w].pc = "up.anchor" /\ Follows(w, "up.temp") /\ Working(w) /\ shard' = TRUE
        /\ UNCHANGED <<row, live, disk, whole, anchored, former, phase, queue>>
    BY <1>4 DEF OpenShard, At, boot, parent, Working, Follows
  <2>2. RestoredJob("up.temp", r0, l0, disk[a])
    BY <1>2, <2>1 DEF RestoredJob
  <2> QED
    BY <1>3, <2>1, <2>2, JobRestored DEF a, r0, l0
<1>5. CASE WriteTemp(w)
  <2>1. /\ job[w].pc = "up.write" /\ Follows(w, "up.identify") /\ Working(w)
        /\ whole' = [whole EXCEPT ![a] = TRUE]
        /\ UNCHANGED <<row, live, disk, shard, anchored, former, phase, queue>>
    BY <1>5 DEF WriteTemp, At, boot, parent, Working, On, Follows, a
  <2>2. RestoredJob("up.identify", r0, l0, disk[a]) /\ whole' \in [Attachments -> BOOLEAN]
    BY <1>2, <1>3, <2>1 DEF RestoredJob
  <2> QED
    BY <1>3, <2>1, <2>2, JobRestored DEF a, r0, l0
<1>6. ASSUME NEW n \in Names, NEW x \in {"none", "own"}, NEW pc, SetEntry(w, n, x, pc),
             \/ job[w].pc = "up.temp" /\ n = "temp" /\ pc = "up.write"
             \/ job[w].pc = "up.link" /\ n = "final" /\ x = "own" /\ pc = "up.sync"
             \/ job[w].pc = "up.untemp" /\ n = "temp" /\ pc = "up.settle"
             \/ job[w].pc = "undo.temp" /\ n = "temp" /\ pc = "undo.row",
             l0[n] # "other"
      PROVE  RestoreIInv'
  <2> DEFINE l == [l0 EXCEPT ![n] = x]
  <2>1. Working(w) /\ job[w].pc # "idle" /\ pc \in Pcs
    BY <1>6 DEF Working
  <2>2. /\ l \in Entries /\ \A m \in Names : l[m] = IF m = n THEN x ELSE l0[m]
        /\ l.temp = IF n = "temp" THEN x ELSE l0.temp
        /\ l.final = IF n = "final" THEN x ELSE l0.final
    BY <1>2, <2>1, EntrySet
  <2> HIDE DEF l
  <2>3. r0.state = "PENDING"
    BY <1>2, <1>6, <2>1 DEF RestoredJob
  <2>4. RestoredRow(r0, l, disk[a], former[a])
    BY <1>2, <1>6, <2>1, <2>2, <2>3 DEF RestoredRow
  <2>5. BackupRow(backup, a, r0, l)
    BY <1>2, <2>1, <2>3 DEF BackupRow
  <2>6. RestoredJob(pc, r0, l, disk[a])
    BY <1>2, <1>6, <2>1, <2>2 DEF RestoredJob, Names
  <2> QED
    BY <1>6, <2>1, <2>4, <2>5, <2>6, EntryRestored DEF a, r0, l0, l
<1>7. CASE OpenTemp(w) \/ RemoveTemp(w) \/ UndoTemp(w)
  <2>1. job[w].pc \in {"up.temp", "up.untemp", "undo.temp"} /\ "temp" \in Names
    BY <1>7 DEF OpenTemp, RemoveTemp, UndoTemp, At, Names
  <2>2. l0["temp"] # "other"
    BY <1>2, <2>1 DEF RestoredJob
  <2> QED
    BY <1>6, <1>7, <2>1, <2>2 DEF OpenTemp, RemoveTemp, UndoTemp, At
<1>8. CASE LinkFinal(w)
  <2>1. job[w].pc = "up.link" /\ "final" \in Names /\ SetEntry(w, "final", "own", "up.sync")
        /\ l0["final"] = "none"
    BY <1>8 DEF LinkFinal, At, Names, On, l0, a
  <2> QED
    BY <1>6, <2>1
<1>9. CASE SyncFinal(w) \/ SyncRemoval(w)
  <2> DEFINE pc == IF job[w].pc = "up.sync" THEN "up.mark" ELSE "up.activate"
  <2>1. /\ job[w].pc \in {"up.sync", "up.settle"} /\ Follows(w, pc) /\ Working(w) /\ disk' = live
        /\ UNCHANGED <<row, live, whole, shard, anchored, former, phase, queue>>
    BY <1>9 DEF SyncFinal, SyncRemoval, SyncDirectory, At, boot, parent, Working, Follows
  <2>2. RestoredJob("up.mark", r0, l0, l0) /\ RestoredJob("up.activate", r0, l0, l0)
    BY <1>2, <2>1 DEF RestoredJob
  <2>3. RestoredJob(pc, r0, l0, disk'[a])
    BY <2>1, <2>2 DEF l0
  <2> HIDE DEF pc
  <2> QED
    BY <1>3, <2>1, <2>3, JobRestored DEF a, r0, l0
<1>10. CASE RecordIdentity(w) \/ MarkPublished(w)
  <2> DEFINE pc == IF job[w].pc = "up.identify" THEN "up.link" ELSE "up.untemp"
             r == IF job[w].pc = "up.identify" THEN [r0 EXCEPT !.identified = TRUE]
                                               ELSE [r0 EXCEPT !.published = TRUE]
  <2>1. /\ job[w].pc \in {"up.identify", "up.mark"} /\ Follows(w, pc) /\ Working(w)
        /\ row' = [row EXCEPT ![a] = r] /\ UNCHANGED <<files, boot>>
    BY <1>10 DEF RecordIdentity, MarkPublished, At, Working, On, Follows, a, r0
  <2>2. /\ r \in AttachmentRow /\ r.state = r0.state
        /\ (r0.identified \/ job[w].pc = "up.identify" => r.identified)
    BY <1>2, <2>1 DEF AttachmentRow
  <2>3. RestoredJob(pc, r, l0, disk[a])
    <3>1. CASE job[w].pc = "up.identify"
      <4>1. RestoredJob("up.link", r, l0, disk[a])
        BY <1>2, <2>2, <3>1 DEF RestoredJob
      <4> QED
        BY <3>1, <4>1
    <3>2. CASE job[w].pc = "up.mark"
      <4>1. RestoredJob("up.untemp", r, l0, disk[a])
        BY <1>2, <2>2, <3>2 DEF RestoredJob
      <4> QED
        BY <3>2, <4>1
    <3> QED
      BY <2>1, <3>1, <3>2
  <2> HIDE DEF r, pc
  <2>4. r0.state = "PENDING"
    BY <1>2, <2>1 DEF RestoredJob
  <2>5. RestoredRow(r, l0, disk[a], former[a]) /\ BackupRow(backup, a, r, l0)
    BY <1>2, <2>1, <2>2, <2>4 DEF RestoredRow, BackupRow
  <2> QED
    BY <1>2, <2>1, <2>2, <2>3, <2>5, RowRestored DEF a, l0, Working
<1>11. ASSUME NEW r \in AttachmentRow, row' = [row EXCEPT ![a] = r], Done(w),
              UNCHANGED <<files, boot>>,
              \/ job[w].pc = "up.activate" /\ r.state = "ACTIVE"
              \/ job[w].pc = "undo.row" /\ r.state = "DELETED"
       PROVE  RestoreIInv'
  <2>1. Working(w) /\ job[w].pc # "idle" /\ Follows(w, "idle")
    BY <1>11 DEF Working, Follows
  <2>2. RestoredRow(r, l0, disk[a], former[a]) /\ BackupRow(backup, a, r, l0)
    BY <1>2, <1>11, <2>1 DEF RestoredRow, BackupRow, RestoredJob
  <2>3. RestoredJob("idle", r, l0, disk[a])
    BY DEF RestoredJob
  <2> QED
    BY <1>2, <1>11, <2>1, <2>2, <2>3, RowRestored DEF a, l0
<1>12. CASE Activate(w)
  <2> DEFINE r == [[r0 EXCEPT !.state = "ACTIVE"] EXCEPT !.attempts = 0]
  <2>1. /\ job[w].pc = "up.activate" /\ Done(w) /\ UNCHANGED <<files, boot>>
        /\ row' = [row EXCEPT ![a] = r]
    BY <1>12 DEF Activate, At, On, a, r0
  <2>2. 0 \in 0..CleanupAttempts
    BY StorageAssumption
  <2>3. r \in AttachmentRow /\ r.state = "ACTIVE"
    BY <1>2, <2>1, <2>2 DEF AttachmentRow
  <2> QED
    BY <1>11, <2>1, <2>3
<1>13. CASE UndoRow(w)
  <2> DEFINE r == [NoRow EXCEPT !.state = "DELETED"]
  <2>1. /\ job[w].pc = "undo.row" /\ Done(w) /\ UNCHANGED <<files, boot>>
        /\ row' = [row EXCEPT ![a] = r]
    BY <1>13 DEF UndoRow, At, On, a
  <2>2. r \in AttachmentRow /\ r.state = "DELETED"
    BY NoRowTyped DEF AttachmentRow, NoRow
  <2> QED
    BY <1>11, <2>1, <2>2
<1>14. CASE UploadFails(w)
  <2>1. CASE job[w].pc \in Unpublished /\ GoTo(w, "undo.temp") /\ UNCHANGED <<row, files, boot>>
    <3>1. RestoredJob("undo.temp", r0, l0, disk[a])
      BY <1>2, <2>1 DEF RestoredJob
    <3>2. /\ job[w].pc # "idle" /\ Working(w) /\ Follows(w, "undo.temp")
          /\ UNCHANGED <<row, live, disk, whole, shard, anchored, former, phase, queue>>
      BY <2>1 DEF Working, Follows, files, parent, boot
    <3> QED
      BY <1>3, <3>1, <3>2, JobRestored DEF a, r0, l0
  <2> QED
    BY <1>14, <2>1, FailureRestored DEF UploadFails, At, On, Working
<1>15. CASE UndoFails(w)
  BY <1>15, FailureRestored DEF UndoFails, At, On, Working
<1> QED
  BY <1>1, <1>4, <1>5, <1>7, <1>8, <1>9, <1>10, <1>12, <1>13, <1>14, <1>15 DEF Upload

\* archive: the row is compared again when it is updated.
LEMMA ArchiveRestores ==
  ASSUME RestoreIInv, Serving, NEW w \in Workers, Archive(w)
  PROVE  RestoreIInv'
<1> USE DEF Uploading, Linked, Unpublished, Publishing, Recovering, Cleaning, Pcs
<1>1. ASSUME NEW b \in Attachments, ArchiveRead(w, b)
      PROVE  RestoreIInv'
  <2> DEFINE j == [pc |-> "arc.update", on |-> b]
  <2>1. /\ phase = "up" /\ queue = {} /\ job' = [job EXCEPT ![w] = j]
        /\ UNCHANGED <<row, live, whole, disk, shard, anchored, former, phase, queue>>
    BY <1>1 DEF ArchiveRead, Begin, RestoreIInv, QueueFits, files, parent, boot
  <2>2. j \in Jobs /\ j.on = b /\ j.pc = "arc.update"
    BY DEF Jobs
  <2> HIDE DEF j
  <2>3. /\ row \in [Attachments -> AttachmentRow] /\ live \in [Attachments -> Entries]
        /\ whole \in [Attachments -> BOOLEAN] /\ shard \in BOOLEAN /\ anchored \in BOOLEAN
        /\ job' \in [Workers -> {Idle} \cup Jobs] /\ job'[w] = j
        /\ \A v \in Workers \ {w} : job'[v] = job[v]
    BY <2>1, <2>2 DEF RestoreIInv, RestoreTypeOK, TypeOK, Entries
  <2>4. /\ RestoredRow(row[b], live[b], disk[b], former[b]) /\ BackupRow(backup, b, row[b], live[b])
        /\ RestoredJob(j.pc, row[b], live[b], disk[b])
    BY <2>2, OfRestored, RestoredFacts
  <2> QED
    BY <2>1, <2>2, <2>3, <2>4, RestoredStep DEF Serving
<1>2. CASE ArchiveUpdate(w)
  <2> DEFINE r == [[[row[On(w)] EXCEPT !.state = "ARCHIVED"] EXCEPT !.removed = FALSE]
                     EXCEPT !.attempts = 0]
             pc == IF On(w) \in Contracts THEN "cln.old" ELSE "idle"
  <2>1. /\ job[w].pc = "arc.update" /\ row[On(w)].state = "ACTIVE" /\ UNCHANGED <<files, boot>>
        /\ Follows(w, pc)
    BY <1>2 DEF ArchiveUpdate, At, On, Follows
  <2>2. /\ row[On(w)] \in AttachmentRow /\ On(w) \in Attachments
        /\ RestoredRow(row[On(w)], live[On(w)], disk[On(w)], former[On(w)])
        /\ BackupRow(backup, On(w), row[On(w)], live[On(w)])
    BY <2>1, OwnRestored
  <2>3. row' = [row EXCEPT ![On(w)] = r]
    BY <1>2, <2>2 DEF ArchiveUpdate, On
  <2>4. 0 \in 0..CleanupAttempts
    BY StorageAssumption
  <2>5. r \in AttachmentRow /\ r.state = "ARCHIVED"
    BY <2>2, <2>4 DEF AttachmentRow
  <2>6. Alone(w, On(w))
    BY <2>1, <2>2, BusyRestored
  <2> HIDE DEF r
  <2>7. /\ RestoredRow(r, live[On(w)], disk[On(w)], former[On(w)])
        /\ BackupRow(backup, On(w), r, live[On(w)])
    BY <2>1, <2>2, <2>5 DEF RestoredRow, BackupRow
  <2>8. RestoredJob("cln.old", r, live[On(w)], disk[On(w)])
        /\ RestoredJob("idle", r, live[On(w)], disk[On(w)])
    BY <2>5 DEF RestoredJob
  <2>9. RestoredJob(pc, r, live[On(w)], disk[On(w)])
    BY <2>8
  <2> HIDE DEF pc
  <2> QED
    BY <2>1, <2>3, <2>5, <2>6, <2>7, <2>9, RowRestored
<1>3. CASE ArchiveRefused(w)
  <2>1. /\ job[w].pc # "idle" /\ Follows(w, "idle")
        /\ whole \in [Attachments -> BOOLEAN] /\ shard \in BOOLEAN
        /\ UNCHANGED <<row, live, disk, whole, shard, anchored, former, phase, queue>>
    BY <1>3 DEF ArchiveRefused, At, Follows, files, parent, boot, RestoreIInv, RestoreTypeOK, TypeOK
  <2>2. RestoredJob("idle", row[On(w)], live[On(w)], disk[On(w)])
    BY DEF RestoredJob
  <2> QED
    BY <2>1, <2>2, JobRestored
<1> QED
  BY <1>1, <1>2, <1>3 DEF Archive

\* cleanupPublishedFile and markStorageDeleted: whatever they find in the place of their file,
\* only an entry that is no other file is moved or removed.
LEMMA CleanRestores ==
  ASSUME RestoreIInv, Serving, NEW w \in Workers, Clean(w)
  PROVE  RestoreIInv'
<1> USE DEF Uploading, Linked, Unpublished, Publishing, Recovering, Cleaning, Pcs
<1> DEFINE a == On(w)
           r0 == row[a]
           l0 == live[a]
<1>1. /\ job[w].pc \in Cleaning /\ Working(w) /\ job[w].pc # "idle"
      /\ a \in Attachments /\ a \notin queue /\ Alone(w, a)
      /\ r0 \in AttachmentRow /\ l0 \in Entries /\ disk[a] \in Entries
      /\ RestoredJob(job[w].pc, r0, l0, disk[a]) /\ RestoredRow(r0, l0, disk[a], former[a])
      /\ BackupRow(backup, a, r0, l0) /\ r0.state = "ARCHIVED"
  <2>1. job[w].pc \in Cleaning
    BY DEF Clean, RemoveOld, MoveFinal, DropQuarantine, RemoveShard, MarkDeleted, CleaningFails, At
  <2> QED
    BY <2>1, OwnRestored DEF Working, RestoredJob
<1>2. /\ whole \in [Attachments -> BOOLEAN] /\ shard \in BOOLEAN /\ anchored \in BOOLEAN
      /\ row \in [Attachments -> AttachmentRow] /\ live \in [Attachments -> Entries]
      /\ job \in [Workers -> {Idle} \cup Jobs] /\ disk \in [Attachments -> Entries]
  BY DEF RestoreIInv, RestoreTypeOK, TypeOK, Entries
<1> HIDE DEF a, r0, l0
<1>3. ASSUME NEW pc \in {"cln.move", "cln.mark", "cln.rmdir"},
             SetEntry(w, "quarantine", "none", pc), l0.quarantine # "other"
      PROVE  RestoreIInv'
  <2> DEFINE l == [l0 EXCEPT !["quarantine"] = "none"]
  <2>1. "quarantine" \in Names /\ "none" \in {"none", "own"} /\ pc \in Pcs
    BY DEF Names
  <2>2. /\ l \in Entries /\ \A m \in Names : l[m] = IF m = "quarantine" THEN "none" ELSE l0[m]
    BY <1>1, <2>1, EntrySet
  <2> HIDE DEF l
  <2>3. /\ RestoredRow(r0, l, disk[a], former[a]) /\ BackupRow(backup, a, r0, l)
        /\ RestoredJob(pc, r0, l, disk[a])
    BY <1>1, <1>3, <2>2 DEF RestoredRow, BackupRow, RestoredJob
  <2> QED
    BY <1>1, <1>3, <2>1, <2>3, EntryRestored DEF a, r0, l0, l
<1>4. CASE RemoveOld(w) \/ DropQuarantine(w)
  <2>1. l0.quarantine # "other"
    BY <1>1, <1>4 DEF RemoveOld, MayClean, DropQuarantine, At, RestoredJob, On, a, l0
  <2> QED
    BY <1>3, <1>4, <2>1 DEF RemoveOld, DropQuarantine
<1>5. CASE MoveFinal(w)
  <2>1. CASE l0.final = "none"
    <3>1. /\ Follows(w, "cln.rmdir")
          /\ UNCHANGED <<row, live, disk, whole, shard, anchored, former, phase, queue>>
      BY <1>5, <2>1 DEF MoveFinal, On, boot, parent, a, l0, Follows
    <3>2. RestoredJob("cln.rmdir", r0, l0, disk[a])
      BY <1>1 DEF RestoredJob
    <3> QED
      BY <1>1, <1>2, <3>1, <3>2, JobRestored DEF a, r0, l0
  <2>2. CASE l0.final # "none"
    <3> DEFINE l == [[l0 EXCEPT !["final"] = "none"] EXCEPT !["quarantine"] = l0.final]
    <3>1. /\ Follows(w, "cln.drop")
          /\ UNCHANGED <<row, disk, whole, shard, anchored, former, phase, queue>>
          /\ live' = [live EXCEPT ![a].final = "none", ![a].quarantine = l0.final]
          /\ l0.final = "own" /\ l0.quarantine = "none"
      BY <1>5, <2>2 DEF MoveFinal, MoveNoReplace, MayClean, On, a, l0, boot, parent, Follows
    <3>2. live' = [live EXCEPT ![a] = l]
      BY <1>1, <1>2, <3>1 DEF l0
    <3>3. /\ l \in Entries /\ l.temp = l0.temp /\ l.final = "none" /\ l.quarantine = "own"
      BY <1>1, <3>1 DEF Entries, Names
    <3>4. \A m \in Names : l[m] = "other" <=> l0[m] = "other"
      BY <3>1, <3>3 DEF Names
    <3> HIDE DEF l
    <3>5. RestoredRow(r0, l, disk[a], former[a]) /\ BackupRow(backup, a, r0, l)
          /\ RestoredJob("cln.drop", r0, l, disk[a])
      BY <1>1, <3>3, <3>4 DEF RestoredRow, BackupRow, RestoredJob
    <3>6. /\ live' \in [Attachments -> Entries] /\ live'[a] = l
          /\ \A b \in Attachments \ {a} : live'[b] = live[b]
      BY <1>1, <1>2, <3>2, <3>3
    <3>7. /\ job' \in [Workers -> {Idle} \cup Jobs]
          /\ \A v \in Workers \ {w} : job'[v] = job[v]
          /\ job'[w] # Idle => job'[w].on = a /\ job'[w].pc = "cln.drop"
      BY <1>1, <3>1, JobFollows DEF a
    <3> QED
      BY <1>1, <1>2, <3>1, <3>5, <3>6, <3>7, RestoredStep DEF Serving, r0
  <2> QED
    BY <2>1, <2>2
<1>6. CASE RemoveShard(w)
  <2> DEFINE j == [job[w] EXCEPT !.pc = "cln.mark"]
  <2>1. job[w] \in Jobs
    BY <1>1, OwnRestored
  <2>2. /\ UNCHANGED <<row, live, whole, phase, queue>>
        /\ job' = [v \in Workers |->
                     IF v = w THEN j
                     ELSE IF job[v].pc = "up.temp" /\ ~shard' THEN [job[v] EXCEPT !.pc = "up.stale"]
                     ELSE job[v]]
    BY <1>6 DEF RemoveShard, boot, At
  <2>3. j \in Jobs /\ j.on = a /\ j.pc = "cln.mark"
    BY <2>1 DEF Jobs, a, On
  <2>4. ASSUME NEW v \in Workers, job[v].pc = "up.temp"
        PROVE  /\ job[v] \in Jobs /\ [job[v] EXCEPT !.pc = "up.stale"] \in Jobs
               /\ [job[v] EXCEPT !.pc = "up.stale"].pc = "up.stale"
               /\ [job[v] EXCEPT !.pc = "up.stale"].on = job[v].on
    <3>1. job[v] \in Jobs
      BY <2>4, OwnRestored
    <3> QED
      BY <3>1 DEF Jobs
  <2> HIDE DEF j
  <2>5. job' \in [Workers -> {Idle} \cup Jobs] /\ job'[w] = j
    BY <1>2, <2>2, <2>3, <2>4
  <2>6. \A v \in Workers \ {w} : job'[v] = job[v] \/ BecomesStale(v)
    BY <2>2, <2>4 DEF BecomesStale
  <2>7. /\ shard' \in BOOLEAN /\ anchored' \in BOOLEAN
        /\ disk' = disk \/ disk' = live
        /\ former' = former \/ former' = disk
        /\ (shard /\ anchored => shard' /\ anchored') \/ \A b \in Attachments : Empty(live'[b])
    <3>1. CASE /\ live = NoFiles /\ shard' = FALSE /\ anchored' = FALSE /\ disk' = NoFiles
               /\ former' = IF anchored THEN disk ELSE former
      <4>1. disk' = live /\ (former' = former \/ former' = disk)
        BY <3>1
      <4>2. \A b \in Attachments : Empty(live'[b])
        BY <2>2, <3>1, NoEntriesEmpty DEF NoFiles
      <4> QED
        BY <3>1, <4>1, <4>2
    <3>2. CASE UNCHANGED <<disk, shard, parent>>
      BY <1>2, <3>2 DEF parent
    <3> QED
      BY <1>6, <3>1, <3>2 DEF RemoveShard
  <2>8. /\ disk'[a] \in {disk[a], l0} /\ former'[a] \in {former[a], disk[a]}
        /\ RestoredJob("cln.mark", r0, l0, disk'[a])
    BY <1>1, <2>7 DEF RestoredJob, l0
  <2>9. RestoredRow(r0, l0, disk'[a], former'[a])
    BY <1>1, <2>8, RestoredFacts
  <2> QED
    BY <1>1, <1>2, <2>2, <2>3, <2>5, <2>6, <2>7, <2>8, <2>9, RestoredStep DEF Serving, r0, l0
<1>7. CASE MarkDeleted(w)
  <2> DEFINE r == [r0 EXCEPT !.removed = TRUE]
  <2>1. /\ Follows(w, "idle") /\ row' = [row EXCEPT ![a] = r] /\ UNCHANGED <<files, boot>>
    BY <1>7 DEF MarkDeleted, On, Follows, a, r0
  <2>2. r \in AttachmentRow /\ r.state = "ARCHIVED"
    BY <1>1 DEF AttachmentRow
  <2> HIDE DEF r
  <2>3. /\ RestoredRow(r, l0, disk[a], former[a]) /\ BackupRow(backup, a, r, l0)
        /\ RestoredJob("idle", r, l0, disk[a])
    BY <1>1, <2>2 DEF RestoredRow, BackupRow, RestoredJob
  <2> QED
    BY <1>1, <2>1, <2>2, <2>3, RowRestored DEF a, l0
<1>8. CASE CleaningFails(w)
  BY <1>1, <1>8, FailureRestored DEF CleaningFails, On
<1> QED
  BY <1>4, <1>5, <1>6, <1>7, <1>8 DEF Clean

\* recoverPendingUpload, and a start that takes up the next row.
LEMMA RecoverRestores ==
  ASSUME RestoreIInv, Serving, NEW w \in Workers, Recover(w)
  PROVE  RestoreIInv'
<1> USE DEF Uploading, Linked, Unpublished, Publishing, Recovering, Cleaning, Pcs
<1>1. ASSUME NEW b \in Attachments, TakeUp(w, b)
      PROVE  RestoreIInv'
  <2> DEFINE pc == IF phase = "pending" THEN "rec.check" ELSE "cln.old"
             j == [pc |-> pc, on |-> b]
  <2>1. /\ \A v \in Workers : job[v] = Idle
        /\ b \in queue /\ queue' = queue \ {b} /\ job' = [job EXCEPT ![w] = j]
        /\ UNCHANGED <<row, live, disk, whole, shard, anchored, former, phase>>
    BY <1>1 DEF TakeUp, AllIdle, Begin, files, parent
  <2>2. j \in Jobs /\ j.on = b /\ j.pc = pc
    BY DEF Jobs
  <2>3. RestoredJob(pc, row[b], live[b], disk[b])
    <3>1. row[b].state = IF phase = "pending" THEN "PENDING" ELSE "ARCHIVED"
      BY <2>1 DEF RestoreIInv, RestoreTypeOK, TypeOK, QueueFits
    <3>2. phase = "pending" => RestoredJob("rec.check", row[b], live[b], disk[b])
      BY <3>1 DEF RestoredJob
    <3>3. phase # "pending" => RestoredJob("cln.old", row[b], live[b], disk[b])
      BY <3>1 DEF RestoredJob
    <3> QED
      BY <3>2, <3>3
  <2> HIDE DEF j, pc
  <2>4. /\ row \in [Attachments -> AttachmentRow] /\ live \in [Attachments -> Entries]
        /\ whole \in [Attachments -> BOOLEAN] /\ shard \in BOOLEAN /\ anchored \in BOOLEAN
        /\ job' \in [Workers -> {Idle} \cup Jobs] /\ job'[w] = j
        /\ \A v \in Workers \ {w} : job'[v] = job[v]
    BY <2>1, <2>2 DEF RestoreIInv, RestoreTypeOK, TypeOK, Entries
  <2>5. Alone(w, b) /\ RestoredRow(row[b], live[b], disk[b], former[b])
        /\ BackupRow(backup, b, row[b], live[b])
    BY <2>1, OfRestored DEF Alone
  <2> QED
    BY <2>1, <2>2, <2>3, <2>4, <2>5, RestoredStep DEF Serving
<1> DEFINE a == On(w)
           r0 == row[a]
           l0 == live[a]
<1>2. ASSUME job[w].pc # "idle"
      PROVE  /\ a \in Attachments /\ r0 \in AttachmentRow /\ l0 \in Entries /\ disk[a] \in Entries
             /\ RestoredJob(job[w].pc, r0, l0, disk[a]) /\ RestoredRow(r0, l0, disk[a], former[a])
             /\ BackupRow(backup, a, r0, l0) /\ (Working(w) => Alone(w, a))
  BY <1>2, OwnRestored
<1>3. whole \in [Attachments -> BOOLEAN] /\ shard \in BOOLEAN
  BY DEF RestoreIInv, RestoreTypeOK, TypeOK
<1> HIDE DEF a, r0, l0
<1>4. CASE RecoverCheck(w)
  <2>1. /\ job[w].pc = "rec.check" /\ Follows(w, "rec.sync") /\ Working(w)
        /\ r0.identified /\ l0.final = "own" /\ l0.temp # "other"
        /\ UNCHANGED <<row, live, disk, whole, shard, anchored, former, phase, queue>>
    BY <1>4 DEF RecoverCheck, CanRecover, At, Working, On, Follows, files, parent, boot, a, r0, l0
  <2>2. RestoredJob("rec.sync", r0, l0, disk[a])
    BY <1>2, <2>1 DEF RestoredJob
  <2> QED
    BY <1>3, <2>1, <2>2, JobRestored DEF a, r0, l0
<1>5. CASE RecoverSync(w) \/ RecoverSyncRemoval(w)
  <2> DEFINE pc == IF job[w].pc = "rec.sync" /\ l0.temp # "none" THEN "rec.temp" ELSE "rec.activate"
  <2>1. /\ job[w].pc \in {"rec.sync", "rec.settle"} /\ Follows(w, pc) /\ Working(w) /\ disk' = live
        /\ UNCHANGED <<row, live, whole, shard, anchored, former, phase, queue>>
    BY <1>5 DEF RecoverSync, RecoverSyncRemoval, SyncDirectory, At, boot, parent, Working,
                Follows, On, a,
                l0
  <2>2. RestoredJob("rec.temp", r0, l0, l0) /\ RestoredJob("rec.activate", r0, l0, l0)
    BY <1>2, <2>1 DEF RestoredJob
  <2>3. RestoredJob(pc, r0, l0, disk'[a])
    BY <2>1, <2>2 DEF l0
  <2> HIDE DEF pc
  <2> QED
    BY <1>3, <2>1, <2>3, JobRestored DEF a, r0, l0
<1>6. CASE RecoverRemoveTemp(w)
  <2> DEFINE l == [l0 EXCEPT !["temp"] = "none"]
  <2>1. /\ job[w].pc = "rec.temp" /\ SetEntry(w, "temp", "none", "rec.settle") /\ Working(w)
        /\ "temp" \in Names /\ "none" \in {"none", "own"} /\ "rec.settle" \in Pcs
    BY <1>6 DEF RecoverRemoveTemp, At, Working, Names
  <2>2. /\ l \in Entries /\ \A m \in Names : l[m] = IF m = "temp" THEN "none" ELSE l0[m]
        /\ l.temp = "none" /\ l.final = l0.final
    BY <1>2, <2>1, EntrySet
  <2> HIDE DEF l
  <2>3. r0.state = "PENDING" /\ l0.temp # "other"
    BY <1>2, <2>1 DEF RestoredJob
  <2>4. RestoredRow(r0, l, disk[a], former[a]) /\ BackupRow(backup, a, r0, l)
    BY <1>2, <2>1, <2>2, <2>3 DEF RestoredRow, BackupRow
  <2>5. RestoredJob("rec.settle", r0, l, disk[a])
    BY <1>2, <2>1, <2>2, <2>3 DEF RestoredJob
  <2> QED
    BY <2>1, <2>4, <2>5, EntryRestored DEF a, r0, l0, l
<1>7. CASE RecoverActivate(w)
  <2> DEFINE r == [[r0 EXCEPT !.state = "ACTIVE"] EXCEPT !.attempts = 0]
  <2>1. /\ job[w].pc = "rec.activate" /\ Follows(w, "idle") /\ Working(w)
        /\ UNCHANGED <<files, boot>> /\ row' = [row EXCEPT ![a] = r]
    BY <1>7 DEF RecoverActivate, At, On, Follows, Working, a, r0
  <2>2. 0 \in 0..CleanupAttempts
    BY StorageAssumption
  <2>3. r \in AttachmentRow /\ r.state = "ACTIVE"
    BY <1>2, <2>1, <2>2 DEF AttachmentRow
  <2> HIDE DEF r
  <2>4. RestoredRow(r, l0, disk[a], former[a]) /\ BackupRow(backup, a, r, l0)
    BY <1>2, <2>1, <2>3 DEF RestoredRow, BackupRow, RestoredJob
  <2>5. RestoredJob("idle", r, l0, disk[a])
    BY DEF RestoredJob
  <2> QED
    BY <1>2, <2>1, <2>3, <2>4, <2>5, RowRestored DEF a, l0, Working
<1>8. CASE RecoverFails(w)
  BY <1>8, FailureRestored DEF RecoverFails, At, On, Working
<1> QED
  BY <1>1, <1>4, <1>5, <1>6, <1>7, <1>8 DEF Recover

\* Without a backup there is nothing to have.
LEMMA NoBackupTyped ==
  /\ NoBackup \in Backups /\ NoBackup.pc = "none" /\ NoBackup.active = {} /\ NoBackup.read = {}
  /\ \A a \in Attachments : NoBackup.names[a] = {}
BY DEF NoBackup, Backups

\* The process starts again, on a volume whose entries may have changed.
LEMMA StartRestores ==
  ASSUME RestoreIInv, StartAgain, UNCHANGED <<row, whole, restores>>,
         live' \in [Attachments -> Entries], disk' \in [Attachments -> Entries],
         former' \in [Attachments -> Entries], shard' \in BOOLEAN, anchored' \in BOOLEAN,
         backup' \in Backups, restoring' \in BOOLEAN, restoring' => backup'.pc = "pair",
         \A a \in Attachments : /\ RestoredRow(row[a], live'[a], disk'[a], former'[a])
                                /\ BackupRow(backup', a, row[a], live'[a]),
         ForeignAnchored'
  PROVE  RestoreIInv'
<1>1. /\ job' = [w \in Workers |-> Idle] /\ phase' = "pending"
      /\ queue' \subseteq Attachments /\ \A a \in queue' : row[a].state = "PENDING"
  BY BatchFits DEF StartAgain
<1>2. \A w \in Workers : job'[w] = Idle
  BY <1>1
<1>3. RestoreTypeOK'
  BY <1>1 DEF RestoreIInv, RestoreTypeOK, TypeOK, Entries
<1>4. RowsRestored' /\ JobsRestored' /\ OneBusy'
  BY <1>2 DEF RowsRestored, JobsRestored, OneBusy
<1>5. QueueFits' /\ VolumeIsOffline'
  BY <1>1, <1>2 DEF QueueFits, VolumeIsOffline
<1> QED
  BY <1>3, <1>4, <1>5 DEF RestoreIInv

\* The end of a start-up batch, the loss of the process, and what the kernel writes.
LEMMA StartOrLossRestores ==
  ASSUME RestoreIInv, Serving, EndBatch \/ Crash \/ WriteBack
  PROVE  RestoreIInv'
<1>1. CASE EndBatch
  <2>1. /\ \A w \in Workers : job[w] = Idle
        /\ UNCHANGED <<row, live, disk, whole, shard, anchored, former, job>>
        /\ UNCHANGED <<backup, restoring, restores>>
        /\ \/ phase' = "archived" /\ queue' \in Batches("ARCHIVED")
           \/ phase' = "up" /\ queue' = {}
    BY <1>1 DEF EndBatch, AllIdle, files, parent, Serving
  <2>2. /\ phase' \in {"archived", "up"} /\ queue' \subseteq Attachments
        /\ phase' = "up" => queue' = {}
        /\ phase' = "archived" => \A a \in queue' : row[a].state = "ARCHIVED" /\ ~row[a].removed
    BY <2>1, BatchFits
  <2>3. /\ RestoreTypeOK' /\ RowsRestored' /\ JobsRestored' /\ OneBusy' /\ VolumeIsOffline'
        /\ ForeignAnchored'
    BY <2>1, <2>2 DEF RestoreIInv, RestoreTypeOK, TypeOK, RowsRestored, JobsRestored, OneBusy,
                      VolumeIsOffline, ForeignAnchored
  <2>4. QueueFits'
    BY <2>1, <2>2 DEF QueueFits
  <2> QED
    BY <2>3, <2>4 DEF RestoreIInv
<1>2. CASE Crash
  <2>1. /\ StartAgain /\ UNCHANGED <<row, live, disk, whole, shard, anchored, former>>
        /\ UNCHANGED <<backup, restoring, restores>>
    BY <1>2 DEF Crash, files, parent, Serving
  <2>2. /\ live \in [Attachments -> Entries] /\ disk \in [Attachments -> Entries]
        /\ former \in [Attachments -> Entries] /\ shard \in BOOLEAN /\ anchored \in BOOLEAN
        /\ backup \in Backups /\ restoring = FALSE
    BY DEF RestoreIInv, RestoreTypeOK, TypeOK, Entries, Serving
  <2>3. ForeignAnchored'
    BY <2>1 DEF RestoreIInv, ForeignAnchored
  <2> QED
    BY <2>1, <2>2, <2>3, OfRestored, StartRestores
<1>3. CASE WriteBack
  <2>1. /\ UNCHANGED <<row, live, disk, whole, shard, job, phase, queue>>
        /\ UNCHANGED <<backup, restoring, restores>>
        /\ anchored' = shard /\ former' = NoFiles
    BY <1>3 DEF WriteBack, boot, Serving
  <2>2. /\ NoFiles \in [Attachments -> Entries]
        /\ \A a \in Attachments : Empty(NoFiles[a])
    BY NoEntriesEmpty DEF NoFiles
  <2>3. RestoreTypeOK' /\ ForeignAnchored'
    BY <2>1, <2>2 DEF RestoreIInv, RestoreTypeOK, TypeOK, Entries, ForeignAnchored
  <2>4. RowsRestored'
    <3>1. ASSUME NEW a \in Attachments
          PROVE  /\ RestoredRow(row[a], live[a], disk[a], NoFiles[a])
                 /\ BackupRow(backup, a, row[a], live[a])
      <4>1. /\ RestoredRow(row[a], live[a], disk[a], former[a])
            /\ BackupRow(backup, a, row[a], live[a])
        BY OfRestored
      <4> QED
        BY <2>2, <4>1 DEF RestoredRow
    <3> QED
      BY <2>1, <3>1 DEF RowsRestored
  <2>5. JobsRestored' /\ OneBusy' /\ QueueFits' /\ VolumeIsOffline'
    BY <2>1 DEF RestoreIInv, JobsRestored, On, OneBusy, Alone, At, QueueFits, VolumeIsOffline
  <2> QED
    BY <2>3, <2>4, <2>5 DEF RestoreIInv
<1> QED
  BY <1>1, <1>2, <1>3

\* The host fails, and a backup under way with it.
LEMMA HostFailsRestores ==
  ASSUME RestoreIInv, HostFails, ~restoring, UNCHANGED <<restoring, restores>>,
         backup' = IF Running THEN NoBackup ELSE backup
  PROVE  RestoreIInv'
<1>1. /\ StartAgain /\ UNCHANGED <<row, whole, restores>> /\ restoring' = FALSE
      /\ shard' \in BOOLEAN /\ anchored' = shard' /\ disk' = live' /\ former' = NoFiles
      /\ live' # NoFiles => shard'
  BY DEF HostFails, RestoreIInv, RestoreTypeOK, TypeOK
<1>2. /\ NoFiles \in [Attachments -> Entries]
      /\ \A a \in Attachments : Empty(NoFiles[a]) /\ \A n \in Names : NoFiles[a][n] = "none"
  BY NoEntriesEmpty DEF NoFiles, NoEntries
<1>3. backup' \in Backups /\ backup'.pc # "reading"
  BY NoBackupTyped DEF RestoreIInv, RestoreTypeOK, Running
<1>4. ASSUME NEW a \in Attachments
      PROVE  /\ live'[a] \in Entries /\ RestoredRow(row[a], live'[a], disk'[a], former'[a])
             /\ BackupRow(backup', a, row[a], live'[a])
  <2>1. /\ RestoredRow(row[a], live[a], disk[a], former[a])
        /\ BackupRow(backup, a, row[a], live[a])
        /\ live'[a] \in Entries /\ disk'[a] = live'[a]
    BY OfRestored, EntriesFound
  <2>2. row[a].state = "ABSENT" => Empty(live'[a])
    <3>1. SUFFICES ASSUME row[a].state = "ABSENT"
                   PROVE  Empty(live'[a])
      OBVIOUS
    <3>2. Empty(live[a]) /\ Empty(disk[a]) /\ Empty(former[a])
      BY <2>1, <3>1 DEF RestoredRow
    <3>3. \A n \in Names : live'[a][n] \in {live[a][n], disk[a][n], former[a][n], "none"}
      BY OfRestored, EntriesFound
    <3> QED
      BY <3>2, <3>3 DEF Empty, Names
  <2>3. RestoredRow(row[a], live'[a], disk'[a], former'[a])
    BY <1>1, <1>2, <2>1, <2>2 DEF RestoredRow
  <2>4. BackupRow(backup', a, row[a], live'[a])
    <3>1. CASE Running
      BY <3>1, NoBackupTyped DEF BackupRow
    <3>2. CASE ~Running
      BY <1>3, <2>1, <3>2 DEF BackupRow
    <3> QED
      BY <3>1, <3>2
  <2> QED
    BY <2>1, <2>3, <2>4
<1>5. live' \in [Attachments -> Entries] /\ disk' \in [Attachments -> Entries]
  <2>1. CASE Attachments = {}
    BY <1>1, <2>1 DEF NoFiles, HostFails, Found
  <2>2. CASE Attachments # {}
    <3>1. PICK a \in Attachments : TRUE
      BY <2>2
    <3>2. live' = [b \in Attachments |-> live'[b]]
      BY <3>1, OfRestored, EntriesFound
    <3> QED
      BY <1>1, <1>4, <3>2
  <2> QED
    BY <2>1, <2>2
<1>6. ForeignAnchored'
  BY <1>1, <1>2 DEF ForeignAnchored
<1> QED
  BY <1>1, <1>2, <1>3, <1>4, <1>5, <1>6, StartRestores

\* A step of the backup script changes nothing but the backup.
LEMMA BackupStep ==
  ASSUME RestoreIInv, UNCHANGED <<vars, restoring, restores>>, backup' \in Backups,
         restoring => backup'.pc = "pair",
         \A a \in Attachments : BackupRow(backup', a, row[a], live[a])
  PROVE  RestoreIInv'
<1>1. UNCHANGED <<row, live, disk, whole, shard, anchored, former, job, phase, queue, restoring,
                  restores>>
  BY DEF vars
<1>2. RestoreTypeOK' /\ RowsRestored' /\ JobsRestored'
  BY <1>1 DEF RestoreIInv, RestoreTypeOK, TypeOK, RowsRestored, JobsRestored, On
<1>3. OneBusy' /\ QueueFits' /\ VolumeIsOffline' /\ ForeignAnchored'
  BY <1>1 DEF RestoreIInv, OneBusy, Alone, At, QueueFits, VolumeIsOffline, ForeignAnchored
<1> QED
  BY <1>2, <1>3 DEF RestoreIInv

\* backup-attachments.sh: what could be downloaded when it began is read, and published, or
\* archived before.
LEMMA BackupRestores ==
  ASSUME RestoreIInv,
         \/ BeginBackup \/ ArchiveEnds \/ PublishArchive \/ PublishChecksum
         \/ \E a \in Attachments : ArchiveEntry(a)
         \/ BackupFails \/ BackupLost
  PROVE  RestoreIInv'
<1>1. /\ backup \in Backups /\ (restoring => backup.pc = "pair")
      /\ \A a \in Attachments : /\ row[a] \in AttachmentRow /\ live[a] \in Entries
                                /\ BackupRow(backup, a, row[a], live[a])
  BY OfRestored DEF RestoreIInv, RestoreTypeOK, VolumeIsOffline
<1>2. CASE BeginBackup
  <2> DEFINE active == {a \in Attachments : Downloadable(a)}
             b == [[NoBackup EXCEPT !.pc = "reading"] EXCEPT !.active = active]
  <2>1. backup' = b /\ ~restoring /\ UNCHANGED <<vars, restoring, restores>>
    BY <1>2 DEF BeginBackup
  <2>2. /\ b \in Backups /\ b.pc = "reading" /\ b.active = active /\ b.read = {}
        /\ \A a \in Attachments : b.names[a] = {}
    BY NoBackupTyped DEF Backups
  <2> HIDE DEF b
  <2>3. ASSUME NEW a \in Attachments
        PROVE  BackupRow(b, a, row[a], live[a])
    BY <2>2 DEF BackupRow, Downloadable, Opens
  <2> QED
    BY <2>1, <2>2, <2>3, BackupStep
<1>3. ASSUME NEW b \in Attachments, ArchiveEntry(b)
      PROVE  RestoreIInv'
  <2> DEFINE names == {n \in Names : live[b][n] # "none"}
             c == [[backup EXCEPT !.read = @ \cup {b}] EXCEPT !.names[b] = names]
  <2>1. /\ backup' = c /\ backup.pc = "reading" /\ UNCHANGED <<vars, restoring, restores>>
    BY <1>3 DEF ArchiveEntry
  <2>2. /\ c \in Backups /\ c.pc = "reading" /\ c.active = backup.active
        /\ c.read = backup.read \cup {b} /\ c.names[b] = names
        /\ \A a \in Attachments \ {b} : c.names[a] = backup.names[a]
    BY <1>1, <2>1 DEF Backups
  <2>3. "final" \in names <=> live[b].final # "none"
    BY DEF Names
  <2>4. Empty(live[b]) => names = {}
    BY <1>1 DEF Empty, Names
  <2>5. BackupRow(backup, b, row[b], live[b]) /\ RestoredRow(row[b], live[b], disk[b], former[b])
    BY OfRestored
  <2> HIDE DEF c, names
  <2>6. BackupRow(c, b, row[b], live[b])
    <3>1. row[b].state = "ABSENT" => c.names[b] = {}
      BY <2>2, <2>4, <2>5 DEF RestoredRow
    <3>2. ASSUME b \in backup.active, row[b].state = "ACTIVE"
          PROVE  "final" \in c.names[b]
      <4>1. CASE b \notin backup.read
        BY <2>1, <2>2, <2>3, <2>5, <3>2, <4>1 DEF BackupRow
      <4>2. CASE b \in backup.read
        BY <1>3, <4>2 DEF ArchiveEntry
      <4> QED
        BY <4>1, <4>2
    <3> QED
      BY <2>2, <2>5, <3>1, <3>2 DEF BackupRow
  <2>7. \A a \in Attachments : BackupRow(c, a, row[a], live[a])
    BY <1>1, <2>1, <2>2, <2>6 DEF BackupRow
  <2> QED
    BY <1>1, <2>1, <2>2, <2>7, BackupStep
<1>4. ASSUME NEW pc \in {"written", "archive", "pair", "orphan"},
             backup.pc = "reading" => backup.read = Attachments, backup.pc # "pair",
             backup' = [backup EXCEPT !.pc = pc], UNCHANGED <<vars, restoring, restores>>
      PROVE  RestoreIInv'
  <2> DEFINE c == [backup EXCEPT !.pc = pc]
  <2>1. /\ c \in Backups /\ c.pc = pc /\ c.active = backup.active /\ c.names = backup.names
        /\ backup' = c
    BY <1>1, <1>4 DEF Backups
  <2> HIDE DEF c
  <2>2. \A a \in Attachments : BackupRow(c, a, row[a], live[a])
    BY <1>1, <1>4, <2>1 DEF BackupRow
  <2> QED
    BY <1>1, <1>4, <2>1, <2>2, BackupStep
<1>5. CASE ArchiveEnds \/ PublishArchive \/ PublishChecksum \/ BackupLost
  BY <1>4, <1>5 DEF ArchiveEnds, PublishArchive, PublishChecksum, BackupLost
<1>6. CASE BackupFails
  <2>1. /\ backup' = NoBackup /\ ~restoring /\ UNCHANGED <<vars, restoring, restores>>
    BY <1>1, <1>6 DEF BackupFails, Running
  <2>2. \A a \in Attachments : BackupRow(NoBackup, a, row[a], live[a])
    BY NoBackupTyped DEF BackupRow
  <2> QED
    BY <2>1, <2>2, NoBackupTyped, BackupStep
<1> QED
  BY <1>2, <1>3, <1>5, <1>6

\* restore-attachments.sh: the volume is emptied and filled with what the backup has, or left
\* empty.  The files are other ones than the rows remember.
LEMMA ReplacementRestores ==
  ASSUME RestoreIInv, EmptyVolume \/ FillVolume \/ RestoreLost
  PROVE  RestoreIInv'
<1> DEFINE filled(a) == [n \in Names |-> IF n \in backup.names[a] THEN "other" ELSE "none"]
<1>1. \A a \in Attachments : /\ RestoredRow(row[a], live[a], disk[a], former[a])
                             /\ BackupRow(backup, a, row[a], live[a])
  BY OfRestored
<1>2. /\ NoFiles \in [Attachments -> Entries]
      /\ \A a \in Attachments : Empty(NoFiles[a]) /\ \A n \in Names : NoFiles[a][n] = "none"
  BY NoEntriesEmpty DEF NoFiles, NoEntries
<1>3. CASE EmptyVolume
  <2>1. /\ StartAgain /\ UNCHANGED <<row, whole, backup, restores>>
        /\ live' = NoFiles /\ disk' = NoFiles /\ former' = NoFiles
        /\ shard' = FALSE /\ anchored' = FALSE /\ restoring' = TRUE /\ backup.pc = "pair"
    BY <1>3 DEF EmptyVolume, Restorable
  <2>2. ASSUME NEW a \in Attachments
        PROVE  /\ RestoredRow(row[a], live'[a], disk'[a], former'[a])
               /\ BackupRow(backup, a, row[a], live'[a])
    BY <1>1, <1>2, <2>1 DEF RestoredRow, BackupRow
  <2>3. ForeignAnchored'
    BY <1>2, <2>1 DEF ForeignAnchored
  <2>4. backup \in Backups
    BY DEF RestoreIInv, RestoreTypeOK
  <2> QED
    BY <1>2, <2>1, <2>2, <2>3, <2>4, StartRestores
<1>4. CASE FillVolume
  <2>1. /\ restoring /\ restoring' = FALSE /\ restores' = restores + 1
        /\ restores < MaxRestores /\ UNCHANGED <<row, whole, job, phase, queue>>
        /\ live' = [a \in Attachments |-> filled(a)] /\ disk' = live'
        /\ shard' \in BOOLEAN /\ backup' \in {backup, NoBackup}
        /\ anchored' = shard' /\ former' = NoFiles
        /\ (\E a \in Attachments : backup.names[a] # {}) => shard'
    BY <1>4 DEF FillVolume
  <2>2. backup.pc = "pair" /\ \A w \in Workers : job[w] = Idle
    BY <2>1 DEF RestoreIInv, VolumeIsOffline
  <2>3. restores' \in 0..MaxRestores
    BY <2>1, RestoreAssumption DEF RestoreIInv, RestoreTypeOK
  <2>4. \A a \in Attachments : /\ filled(a) \in Entries
                               /\ backup.names[a] = {} => Empty(filled(a))
                               /\ \A n \in Names : filled(a)[n] = "other" => n \in backup.names[a]
    BY DEF Entries, Empty, Names
  <2> HIDE DEF filled
  <2>5. \A a \in Attachments : live'[a] = filled(a) /\ disk'[a] = filled(a)
    BY <2>1
  <2>6. ASSUME NEW a \in Attachments
        PROVE  /\ RestoredRow(row[a], live'[a], disk'[a], former'[a])
               /\ BackupRow(backup', a, row[a], live'[a])
    <3>1. RestoredRow(row[a], live[a], disk[a], former[a]) /\ BackupRow(backup, a, row[a], live[a])
      BY <1>1
    <3>2. RestoredRow(row[a], live'[a], disk'[a], former'[a])
      BY <1>2, <2>1, <2>4, <2>5, <3>1 DEF RestoredRow, BackupRow
    <3>3. BackupRow(backup, a, row[a], live'[a]) /\ BackupRow(NoBackup, a, row[a], live'[a])
      BY <2>2, <3>1, NoBackupTyped DEF BackupRow
    <3> QED
      BY <2>1, <3>2, <3>3
  <2>7. /\ live' \in [Attachments -> Entries] /\ disk' \in [Attachments -> Entries]
        /\ backup' \in Backups /\ former' \in [Attachments -> Entries]
    BY <1>2, <2>1, <2>4, NoBackupTyped DEF RestoreIInv, RestoreTypeOK
  <2>8. RestoreTypeOK'
    BY <2>1, <2>3, <2>7 DEF RestoreIInv, RestoreTypeOK, TypeOK, Entries
  <2>9. RowsRestored' /\ JobsRestored' /\ OneBusy'
    BY <2>1, <2>2, <2>6 DEF RowsRestored, JobsRestored, OneBusy
  <2>10. QueueFits' /\ VolumeIsOffline'
    BY <2>1 DEF RestoreIInv, QueueFits, VolumeIsOffline
  <2>11. ForeignAnchored'
    BY <2>1, <2>4, <2>5 DEF ForeignAnchored
  <2> QED
    BY <2>8, <2>9, <2>10, <2>11 DEF RestoreIInv
<1>5. CASE RestoreLost
  <2>1. /\ UNCHANGED <<row, live, disk, whole, shard, anchored, former, job, phase, queue,
                       backup, restores>>
        /\ restoring' = FALSE
    BY <1>5 DEF RestoreLost, vars
  <2>2. RestoreTypeOK' /\ RowsRestored' /\ JobsRestored'
    BY <2>1 DEF RestoreIInv, RestoreTypeOK, TypeOK, RowsRestored, JobsRestored, On
  <2>3. OneBusy' /\ QueueFits' /\ VolumeIsOffline' /\ ForeignAnchored'
    BY <2>1 DEF RestoreIInv, OneBusy, Alone, At, QueueFits, VolumeIsOffline, ForeignAnchored
  <2> QED
    BY <2>2, <2>3 DEF RestoreIInv
<1> QED
  BY <1>3, <1>4, <1>5

\* Every step of the API, of a backup and of a restore.
LEMMA RestoreNextIInv == RestoreIInv /\ [RestoreNext]_restoreVars => RestoreIInv'
<1>1. ASSUME RestoreIInv, Next, Serving, ~HostFails
      PROVE  RestoreIInv'
  BY <1>1, UploadRestores, ArchiveRestores, CleanRestores, RecoverRestores, StartOrLossRestores
     DEF Next
<1>2. ASSUME RestoreIInv, UNCHANGED restoreVars
      PROVE  RestoreIInv'
  <2>1. UNCHANGED <<row, live, disk, whole, shard, anchored, former, job, phase, queue, backup,
                    restoring, restores>>
    BY <1>2 DEF restoreVars, vars
  <2>2. RestoreTypeOK' /\ RowsRestored' /\ JobsRestored'
    BY <1>2, <2>1 DEF RestoreIInv, RestoreTypeOK, TypeOK, RowsRestored, JobsRestored, On
  <2>3. OneBusy' /\ QueueFits' /\ VolumeIsOffline' /\ ForeignAnchored'
    BY <1>2, <2>1 DEF RestoreIInv, OneBusy, Alone, At, QueueFits, VolumeIsOffline, ForeignAnchored
  <2> QED
    BY <2>2, <2>3 DEF RestoreIInv
<1>3. ASSUME RestoreIInv, ~restoring, Next, UNCHANGED <<restoring, restores>>,
             backup' = IF Running /\ HostFails THEN NoBackup ELSE backup
      PROVE  RestoreIInv'
  BY <1>1, <1>3, HostFailsRestores DEF Serving
<1> QED
  BY <1>2, <1>3, BackupRestores, ReplacementRestores DEF RestoreNext

\* No row, no file and no backup.
LEMMA RestoreInitIInv == RestoreInit => RestoreIInv
<1> SUFFICES ASSUME RestoreInit
             PROVE  RestoreIInv
  OBVIOUS
<1>1. /\ \A a \in Attachments : row[a] = NoRow /\ live[a] = NoEntries /\ disk[a] = NoEntries
      /\ \A a \in Attachments : former[a] = NoEntries
      /\ \A w \in Workers : job[w] = Idle
      /\ phase = "up" /\ queue = {} /\ backup = NoBackup /\ ~restoring
  BY DEF RestoreInit, Init, NoFiles
<1>2. TypeOK
  BY InitStorageIInv DEF RestoreInit, StorageIInv
<1>3. RestoreTypeOK
  <2>1. backup \in Backups
    BY <1>1, NoBackupTyped
  <2>2. restoring \in BOOLEAN
    BY Zenon DEF RestoreInit
  <2>3. restores = 0 /\ 0 \in 0..MaxRestores
    BY RestoreAssumption DEF RestoreInit
  <2> QED
    BY <1>2, <2>1, <2>2, <2>3, Zenon DEF RestoreTypeOK
<1>4. /\ NoRow.state = "ABSENT" /\ Empty(NoEntries)
      /\ \A n \in Names : NoEntries[n] # "other"
  BY DEF NoRow, Empty, NoEntries, Names
<1>5. RowsRestored
  BY <1>1, <1>4, NoBackupTyped DEF RowsRestored, RestoredRow, BackupRow
<1>6. JobsRestored /\ OneBusy /\ QueueFits /\ VolumeIsOffline
  BY <1>1 DEF JobsRestored, OneBusy, QueueFits, VolumeIsOffline
<1>7. ForeignAnchored
  BY <1>1, <1>4 DEF ForeignAnchored
<1> QED
  BY <1>3, <1>5, <1>6, <1>7 DEF RestoreIInv

\* Whatever files a restore has brought back, and whatever is lost: what is said of the rows,
\* of the jobs and of the backup holds in every reachable state.
THEOREM RestoreInvariance == RestoreSpec => []RestoreIInv
<1> QED
  BY RestoreInitIInv, RestoreNextIInv, PTL DEF RestoreSpec

-----------------------------------------------------------------------------
(***************************************************************************)
(* What a step may do to restored files.                                   *)
(***************************************************************************)

\* A step of the API either leaves the entries or leaves what is on the disk, unless the host
\* fails.
LEMMA EntriesOrDisk ==
  ASSUME Next
  PROVE  live' = live \/ disk' = disk \/ HostFails
<1>1. ASSUME NEW w \in Workers, Upload(w)
      PROVE  live' = live \/ disk' = disk
  BY <1>1 DEF Upload, UploadInsert, OpenShard, OpenTemp, WriteTemp, RecordIdentity, LinkFinal,
     SyncFinal, MarkPublished, RemoveTemp, SyncRemoval, Activate, UploadFails, UndoTemp, UndoRow,
     UndoFails, SetEntry, SyncDirectory, files
<1>2. ASSUME NEW w \in Workers, Archive(w) \/ Clean(w)
      PROVE  live' = live \/ disk' = disk
  BY <1>2 DEF Archive, ArchiveRead, ArchiveUpdate, ArchiveRefused, Clean, RemoveOld, MoveFinal,
     DropQuarantine, RemoveShard, MarkDeleted, CleaningFails, SetEntry, files
<1>3. ASSUME NEW w \in Workers, Recover(w)
      PROVE  live' = live \/ disk' = disk
  BY <1>3 DEF Recover, TakeUp, RecoverCheck, RecoverSync, RecoverRemoveTemp, RecoverSyncRemoval,
     RecoverActivate, RecoverFails, SetEntry, SyncDirectory, files
<1>4. CASE EndBatch \/ Crash \/ WriteBack
  BY <1>4 DEF EndBatch, Crash, WriteBack, files
<1> QED
  BY <1>1, <1>2, <1>3, <1>4 DEF Next

\* An upload, a clean-up or a reconciliation never moves, removes or replaces a file that the
\* row does not remember, nor does the loss of the process or of the host.
THEOREM ForeignFilesStay == RestoreSpec => ForeignFileIsLeftAlone
<1>1. ASSUME RestoreIInv, [RestoreNext]_restoreVars, restoring' = restoring,
             NEW a \in Attachments, NEW n \in Names, live[a][n] = "other"
      PROVE  live'[a][n] = "other"
  <2>1. live' = live \/ disk' = disk \/ HostFails
    <3>1. CASE Next
      BY <3>1, EntriesOrDisk
    <3>2. CASE EmptyVolume \/ FillVolume
      BY <1>1, <3>2 DEF EmptyVolume, FillVolume, RestoreIInv, RestoreTypeOK
    <3> QED
      BY <1>1, <3>1, <3>2 DEF RestoreNext, BeginBackup, ArchiveEnds, PublishArchive,
         PublishChecksum, ArchiveEntry, BackupFails, BackupLost, RestoreLost, restoreVars, vars
  <2>2. /\ live[a] \in Entries /\ disk[a] \in Entries
        /\ disk[a][n] = "other"
        /\ disk'[a][n] = "other" => live'[a][n] = "other"
    <3>1. /\ live[a] \in Entries /\ disk[a] \in Entries
          /\ RestoredRow(row[a], live[a], disk[a], former[a])
      BY <1>1, OfRestored
    <3>2. RestoredRow(row'[a], live'[a], disk'[a], former'[a])
      BY <1>1, RestoreNextIInv DEF RestoreIInv, RowsRestored
    <3> QED
      BY <1>1, <3>1, <3>2 DEF RestoredRow
  <2>3. CASE HostFails
    <3>1. shard /\ anchored
      BY <1>1 DEF RestoreIInv, ForeignAnchored
    <3>2. live'[a][n] \in {live[a][n], disk[a][n]}
      BY <1>1, <2>3, <3>1, OfRestored, EntriesFound
    <3> QED
      BY <1>1, <2>2, <3>2
  <2> QED
    BY <1>1, <2>1, <2>2, <2>3
<1>2. RestoreIInv /\ [RestoreNext]_restoreVars =>
        [restoring' = restoring =>
           \A a \in Attachments, n \in Names :
             live[a][n] = "other" => live'[a][n] = "other"]_restoreVars
  BY <1>1
<1> QED
  BY <1>2, RestoreInvariance, PTL DEF RestoreSpec, ForeignFileIsLeftAlone

\* A row becomes ACTIVE only by the two activations, which change nothing else of it.
LEMMA OnlyActivations ==
  ASSUME RestoreIInv, NEW w \in Workers, Upload(w) \/ Archive(w) \/ Clean(w) \/ Recover(w),
         NEW a \in Attachments
  PROVE  \/ row'[a].state \in {row[a].state, "PENDING", "ARCHIVED", "DELETED"}
         \/ /\ job[w].pc \in {"up.activate", "rec.activate"} /\ On(w) = a
            /\ row'[a].identified = row[a].identified /\ live' = live
<1>1. row \in [Attachments -> AttachmentRow] /\ row[a] \in AttachmentRow
  BY DEF RestoreIInv, RestoreTypeOK, TypeOK
<1>2. ASSUME row' = row
      PROVE  row'[a].state = row[a].state
  BY <1>2
<1>3. ASSUME NEW b, NEW r, row' = [row EXCEPT ![b] = r],
             r.state \in {row[b].state, "PENDING", "ARCHIVED", "DELETED"}
      PROVE  row'[a].state \in {row[a].state, "PENDING", "ARCHIVED", "DELETED"}
  BY <1>1, <1>3
<1>4. ASSUME NEW b \in Attachments, NEW state, RecordFailure(b, state)
      PROVE  row'[a].state = row[a].state
  <2>1. row[b] \in AttachmentRow
    BY <1>1
  <2> QED
    BY <1>1, <1>4, <2>1 DEF RecordFailure, Retryable, AttachmentRow
<1>5. ASSUME job[w].pc # "idle"
      PROVE  On(w) \in Attachments /\ row[On(w)] \in AttachmentRow
  BY <1>5, OwnRestored
<1>6. CASE Activate(w) \/ RecoverActivate(w)
  <2>1. /\ job[w].pc \in {"up.activate", "rec.activate"} /\ live' = live
        /\ row' = [row EXCEPT ![On(w)].state = "ACTIVE", ![On(w)].attempts = 0]
    BY <1>6 DEF Activate, RecoverActivate, At, On, files, parent
  <2>2. CASE a = On(w)
    <3>1. row'[a].identified = row[a].identified
      BY <1>1, <2>1, <2>2 DEF AttachmentRow
    <3> QED
      BY <2>1, <2>2, <3>1
  <2>3. CASE a # On(w)
    BY <1>1, <2>1, <2>3
  <2> QED
    BY <2>2, <2>3
<1>7. ASSUME NEW b \in Attachments, UploadInsert(w, b)
      PROVE  row'[a].state \in {row[a].state, "PENDING"}
  BY <1>1, <1>7 DEF UploadInsert, NoRow, AttachmentRow
<1>8. CASE RecordIdentity(w) \/ MarkPublished(w) \/ MarkDeleted(w)
  <2>1. job[w].pc # "idle"
    BY <1>8 DEF RecordIdentity, MarkPublished, MarkDeleted, At
  <2> QED
    BY <1>1, <1>5, <1>8, <2>1 DEF RecordIdentity, MarkPublished, MarkDeleted, AttachmentRow, On
<1>9. CASE UndoRow(w)
  <2>1. [NoRow EXCEPT !.state = "DELETED"].state = "DELETED"
    BY DEF NoRow
  <2> QED
    BY <1>3, <1>9, <2>1 DEF UndoRow
<1>10. CASE ArchiveUpdate(w)
  <2>1. job[w].pc # "idle" /\ row' = [row EXCEPT ![On(w)].state = "ARCHIVED",
                                                ![On(w)].removed = FALSE, ![On(w)].attempts = 0]
    BY <1>10 DEF ArchiveUpdate, At, On
  <2> QED
    BY <1>1, <1>5, <2>1 DEF AttachmentRow
<1>11. CASE UploadFails(w) \/ UndoFails(w) \/ CleaningFails(w) \/ RecoverFails(w)
  <2>1. job[w].pc # "idle"
    BY <1>11 DEF UploadFails, UndoFails, CleaningFails, RecoverFails, At, Unpublished, Publishing,
                 Cleaning, Recovering
  <2> QED
    BY <1>2, <1>4, <1>5, <1>11, <2>1 DEF UploadFails, UndoFails, CleaningFails, RecoverFails, On
<1>12. CASE row' = row
  BY <1>2, <1>12
<1>13. \/ Activate(w) \/ RecoverActivate(w) \/ \E b \in Attachments : UploadInsert(w, b)
       \/ RecordIdentity(w) \/ MarkPublished(w) \/ MarkDeleted(w) \/ UndoRow(w)
       \/ ArchiveUpdate(w) \/ UploadFails(w) \/ UndoFails(w) \/ CleaningFails(w)
       \/ RecoverFails(w) \/ row' = row
  BY DEF Upload, OpenShard, OpenTemp, WriteTemp, LinkFinal, SyncFinal, RemoveTemp, SyncRemoval,
     UndoTemp, Archive, ArchiveRead, ArchiveRefused, Clean, RemoveOld, MoveFinal, DropQuarantine,
     RemoveShard, Recover, TakeUp, RecoverCheck, RecoverSync, RecoverRemoveTemp,
     RecoverSyncRemoval, SetEntry, SyncDirectory
<1> QED
  BY <1>6, <1>7, <1>8, <1>9, <1>10, <1>11, <1>12, <1>13

\* What an upload or a reconciliation activates is the file that was uploaded with the row.
THEOREM OwnFilesAreActivated == RestoreSpec => ActivatedFileIsOwn
<1>1. ASSUME RestoreIInv, [RestoreNext]_restoreVars, NEW a \in Attachments,
             row[a].state = "PENDING", row'[a].state = "ACTIVE"
      PROVE  Downloadable(a)'
  <2>1. row' # row
    BY <1>1
  <2>2. Next /\ ~EndBatch /\ ~Crash /\ ~WriteBack /\ ~HostFails
    BY <1>1, <2>1 DEF RestoreNext, BeginBackup, ArchiveEnds, PublishArchive, PublishChecksum,
       ArchiveEntry, BackupFails, BackupLost, EmptyVolume, FillVolume, RestoreLost, restoreVars,
       vars, EndBatch, Crash, WriteBack, HostFails
  <2>3. PICK w \in Workers : Upload(w) \/ Archive(w) \/ Clean(w) \/ Recover(w)
    BY <2>2 DEF Next
  <2>4. /\ job[w].pc \in {"up.activate", "rec.activate"} /\ On(w) = a
        /\ row'[a].identified = row[a].identified /\ live' = live
    BY <1>1, <2>3, OnlyActivations
  <2>5. RestoredJob(job[w].pc, row[a], live[a], disk[a])
    BY <1>1, <2>4, OwnRestored
  <2>6. row[a].identified /\ live[a].final = "own"
    BY <2>4, <2>5 DEF RestoredJob, Linked, Recovering
  <2> QED
    BY <1>1, <2>4, <2>6 DEF Downloadable, Opens
<1>2. RestoreIInv /\ [RestoreNext]_restoreVars =>
        [\A a \in Attachments :
           row[a].state = "PENDING" /\ row'[a].state = "ACTIVE" => Downloadable(a)']_restoreVars
  BY <1>1
<1> QED
  BY <1>2, RestoreInvariance, PTL DEF RestoreSpec, ActivatedFileIsOwn

\* A restore that comes to its end has a file for each attachment that could be downloaded when
\* its backup began and has not been archived since.
THEOREM BackupsAreComplete == RestoreSpec => BackedUpIsRestored
<1>1. ASSUME RestoreIInv, [RestoreNext]_restoreVars, restores' # restores,
             NEW a \in backup.active, row[a].state = "ACTIVE"
      PROVE  live'[a].final # "none"
  <2>1. FillVolume
    BY <1>1 DEF RestoreNext, BeginBackup, ArchiveEnds, PublishArchive, PublishChecksum,
       ArchiveEntry, BackupFails, BackupLost, EmptyVolume, RestoreLost, restoreVars
  <2>2. /\ backup.pc = "pair"
        /\ live' = [b \in Attachments |->
                      [n \in Names |-> IF n \in backup.names[b] THEN "other" ELSE "none"]]
    BY <1>1, <2>1 DEF FillVolume, RestoreIInv, VolumeIsOffline
  <2>3. a \in Attachments
    BY <1>1 DEF RestoreIInv, RestoreTypeOK, Backups
  <2>4. BackupRow(backup, a, row[a], live[a])
    BY <1>1, <2>3, OfRestored
  <2>5. "final" \in backup.names[a] /\ "final" \in Names
    BY <1>1, <2>2, <2>4 DEF BackupRow, Names
  <2> QED
    BY <2>2, <2>3, <2>5
<1>2. RestoreIInv /\ [RestoreNext]_restoreVars =>
        [restores' # restores =>
           \A a \in backup.active : row[a].state = "ACTIVE" => live'[a].final # "none"]_restoreVars
  BY <1>1
<1> QED
  BY <1>2, RestoreInvariance, PTL DEF RestoreSpec, BackedUpIsRestored
=============================================================================
