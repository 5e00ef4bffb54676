------------------------------- MODULE SharedWal -------------------------------
(***************************************************************************)
(* The shared write-ahead log (animus-control/src/shared_wal.rs): every    *)
(* tablet of a node persists into one file.  An operation changes the      *)
(* cached tail of its tablet and enters the queue in one critical section; *)
(* whoever finds the queue without a leader drives it, one physical write  *)
(* at a time: a run of appends as one append and one sync, a rewrite of    *)
(* the whole file alone.                                                   *)
(*                                                                         *)
(* A tablet's persist rounds are numbered: a record is the round that      *)
(* wrote it, an image stands for all rounds up to its own.  Only the order *)
(* of one tablet's records matters to recovery (decode_tagged), so the     *)
(* file is one run of records per tablet, durable and not; how the lines   *)
(* of the tablets interleave is left open, and a crash may keep any prefix *)
(* of each.  A caller holds its own wal_lock, so it has one operation in   *)
(* the queue at a time.                                                    *)
(*                                                                         *)
(* A tablet's driver is two tasks: the consensus loop, which appends and   *)
(* recovers a suspect log, and the apply task, which compacts.  A failure  *)
(* of a live tablet for any reason but a full disk is a panic of the task  *)
(* that met it.  That task never runs again; its sibling, the other        *)
(* tablets and the file go on (animus-env prod.rs, spawn_counted).         *)
(***************************************************************************)
EXTENDS Naturals, Sequences

CONSTANTS
    Tablets,
    Errors,         \* what a failing disk may do besides refusing: see Faults
    MaxRound,       \* bound on the rounds of a tablet
    MaxFail,        \* bound on failed disk operations
    MaxNodeCrash    \* bound on crashes of the node

\* "short": an append that fails for another reason than a full disk may have
\* written half a line.  "undone": a crash may undo the rename of a replace that
\* failed to sync the directory.  "compact": the rewrite of a live apply task may
\* fail for another reason than a full disk.
Faults == {"short", "undone", "compact"}

ASSUME SharedWalAssumption ==
    Errors \subseteq Faults /\ MaxRound \in Nat /\ MaxFail \in Nat /\ MaxNodeCrash \in Nat

VARIABLES
    onDisk,     \* onDisk[t]: the durable records of t
    buf,        \* buf[t]: the records of t appended and not synced, in order
    torn,       \* an append was cut short and left half a line behind buf
    prior,      \* what a crash that undoes a rename may bring back
    tails,      \* group_tails
    opQueue,    \* the operations not yet taken
    batch,      \* the operations being flushed
    step,       \* where the flush is: "io", "sync" or "strip"
    full,       \* the flush failed for lack of space
    needs,      \* needs_rewrite
    round,      \* round[t]: the last round t has drained
    acked,      \* acked[t]: the last round t was told is durable
    st,         \* what t's driver does
    halting,    \* tablets being torn down: their errors are tolerated
    stopped,    \* stopped[t]: the tasks of t that panicked
    diskFails, nodeCrashes

io == <<onDisk, buf, torn, prior, batch, step, full, needs>>
caller == <<tails, opQueue, round, acked, st, halting, stopped>>
sharedVars == <<io, caller, diskFails, nodeCrashes>>

RoundRecord(t, n) == [t |-> t, n |-> n, img |-> FALSE]
RoundImage(t, n) == [t |-> t, n |-> n, img |-> TRUE]
Recs == [t : Tablets, n : 0 .. MaxRound, img : BOOLEAN]
Ops == [t : Tablets, op : {"append"}, rec : Recs, prev : Seq(Recs), from : {"idle"}]
       \cup [t : Tablets, op : {"rewrite"}, image : [Tablets -> Seq(Recs)],
             prev : Seq(Recs), n : 0 .. MaxRound, from : {"idle", "suspect"}]

SharedTypeOK ==
    /\ onDisk \in [Tablets -> Seq(Recs)]
    /\ buf \in [Tablets -> Seq(Recs)]
    /\ torn \in BOOLEAN
    /\ prior \in SUBSET [Tablets -> Seq(Recs)]
    /\ tails \in [Tablets -> Seq(Recs)]
    /\ opQueue \in Seq(Ops)
    /\ batch \in Seq(Ops)
    /\ step \in {"io", "sync", "strip"}
    /\ full \in BOOLEAN /\ needs \in BOOLEAN
    /\ round \in [Tablets -> 0 .. MaxRound]
    /\ acked \in [Tablets -> 0 .. MaxRound]
    /\ st \in [Tablets -> {"idle", "wait", "suspect", "forget", "gone"}]
    /\ halting \subseteq Tablets
    /\ stopped \in [Tablets -> SUBSET {"loop", "apply"}]
    /\ diskFails \in 0 .. MaxFail
    /\ nodeCrashes \in 0 .. MaxNodeCrash

Nothing == [t \in Tablets |-> <<>>]

SharedInit ==
    /\ onDisk = Nothing
    /\ buf = Nothing
    /\ torn = FALSE
    /\ prior = {}
    /\ tails = Nothing
    /\ opQueue = <<>>
    /\ batch = <<>>
    /\ step = "io"
    /\ full = FALSE
    /\ needs = FALSE
    /\ round = [t \in Tablets |-> 0]
    /\ acked = [t \in Tablets |-> 0]
    /\ st = [t \in Tablets |-> "idle"]
    /\ halting = {}
    /\ stopped = [t \in Tablets |-> {}]
    /\ diskFails = 0
    /\ nodeCrashes = 0

-----------------------------------------------------------------------------
(* The callers: submit_with_mutation *)

\* persist_wal: one round, appended.
AppendTagged(t) ==
    /\ st[t] = "idle" /\ t \notin halting /\ "loop" \notin stopped[t]
    /\ round[t] < MaxRound
    /\ LET r == RoundRecord(t, round[t] + 1)
       IN /\ tails' = [tails EXCEPT ![t] = Append(@, r)]
          /\ opQueue' = Append(opQueue, [t |-> t, op |-> "append", rec |-> r,
                                     prev |-> tails[t], from |-> st[t]])
    /\ round' = [round EXCEPT ![t] = @ + 1]
    /\ st' = [st EXCEPT ![t] = "wait"]
    /\ UNCHANGED <<io, acked, halting, stopped, diskFails, nodeCrashes>>

\* The image of the whole file is built here, from every tablet's tail.
Rewrite(t, tail, n) ==
    /\ tails' = [tails EXCEPT ![t] = tail]
    /\ opQueue' = Append(opQueue, [t |-> t, op |-> "rewrite", n |-> n, prev |-> tails[t],
                               from |-> st[t],
                               image |-> [tails EXCEPT ![t] = tail]])

\* The apply task compacts, which may drain a round; the loop recovers a suspect
\* log with an image that holds the round that failed.
Rewriter(q) == IF q = "suspect" THEN "loop" ELSE "apply"

CompactGroup(t) ==
    /\ st[t] \in {"idle", "suspect"} /\ t \notin halting
    /\ Rewriter(st[t]) \notin stopped[t]
    /\ \E n \in {round[t], round[t] + 1} :
         /\ n \in 1 .. MaxRound
         /\ Rewrite(t, <<RoundImage(t, n)>>, n)
         /\ round' = [round EXCEPT ![t] = n]
    /\ st' = [st EXCEPT ![t] = "wait"]
    /\ UNCHANGED <<io, acked, halting, stopped, diskFails, nodeCrashes>>

\* shutdown: from now on the tablet's driver only finishes what it started.
Halt(t) ==
    /\ t \notin halting
    /\ halting' = halting \cup {t}
    /\ UNCHANGED <<io, tails, opQueue, round, acked, st, stopped, diskFails, nodeCrashes>>

\* erase_tablet_files, once both tasks have reported that they stopped, which one
\* that panicked never does.
Forget(t) ==
    /\ t \in halting /\ stopped[t] = {} /\ st[t] \in {"idle", "suspect"}
    /\ Rewrite(t, <<>>, 0)
    /\ st' = [st EXCEPT ![t] = "forget"]
    /\ UNCHANGED <<io, round, acked, halting, stopped, diskFails, nodeCrashes>>

-----------------------------------------------------------------------------
(* The leader of the queue: drive and flush *)

IsAppend(o) == o.op = "append"

\* The operations the leader takes next: all appends in front, or one rewrite.
Prefixes == {i \in 1 .. Len(opQueue) :
                IF IsAppend(Head(opQueue)) THEN \A j \in 1 .. i : IsAppend(opQueue[j])
                                           ELSE i = 1}

Take ==
    /\ batch = <<>> /\ opQueue # <<>>
    /\ \E i \in Prefixes :
         /\ \A j \in Prefixes : j <= i
         /\ batch' = SubSeq(opQueue, 1, i)
         /\ opQueue' = SubSeq(opQueue, i + 1, Len(opQueue))
    /\ step' = "io" /\ full' = FALSE
    /\ UNCHANGED <<onDisk, buf, torn, prior, needs, tails, round, acked, st, halting,
                   stopped, diskFails, nodeCrashes>>

InBatch(t) == \E i \in 1 .. Len(batch) : batch[i].t = t
OpOf(t) == batch[CHOOSE i \in 1 .. Len(batch) : batch[i].t = t]
RoundOf(o) == IF IsAppend(o) THEN o.rec.n ELSE o.n
TaskOf(o) == IF IsAppend(o) THEN "loop" ELSE Rewriter(o.from)

\* The flush succeeded: every caller of the batch is told.
DoneOk ==
    /\ acked' = [t \in Tablets |-> IF InBatch(t) THEN RoundOf(OpOf(t)) ELSE acked[t]]
    /\ st' = [t \in Tablets |-> IF ~InBatch(t) THEN st[t]
                                ELSE IF st[t] = "forget" THEN "gone" ELSE "idle"]
    /\ batch' = <<>>
    /\ UNCHANGED <<tails, opQueue, round, halting, stopped, nodeCrashes>>

\* Bug: a restart counts one round more than it found.
ReopenAhead(d) ==
    /\ onDisk' = d
    /\ buf' = Nothing /\ torn' = FALSE /\ prior' = {}
    /\ tails' = d
    /\ opQueue' = <<>> /\ batch' = <<>>
    /\ step' = "io" /\ full' = FALSE /\ needs' = FALSE
    /\ round' = [t \in Tablets |-> IF d[t] = <<>> THEN 0 ELSE d[t][Len(d[t])].n + 1]
    /\ st' = [t \in Tablets |-> IF st[t] \in {"gone", "forget"} THEN "gone" ELSE "idle"]
    /\ halting' = {t \in halting : st[t] \in {"gone", "forget"}}
    /\ stopped' = [t \in Tablets |-> {}]
    /\ UNCHANGED acked

\* The node stops and starts again: open cuts a torn tail off and seeds the
\* tails from the file.
Reopen(d) ==
    /\ onDisk' = d
    /\ buf' = Nothing /\ torn' = FALSE /\ prior' = {}
    /\ tails' = d
    /\ opQueue' = <<>> /\ batch' = <<>>
    /\ step' = "io" /\ full' = FALSE /\ needs' = FALSE
    /\ round' = [t \in Tablets |-> IF d[t] = <<>> THEN 0 ELSE d[t][Len(d[t])].n]
    /\ st' = [t \in Tablets |-> IF st[t] \in {"gone", "forget"} THEN "gone" ELSE "idle"]
    /\ halting' = {t \in halting : st[t] \in {"gone", "forget"}}
    /\ stopped' = [t \in Tablets |-> {}]
    /\ UNCHANGED acked

\* Bug: a tablet that ran out of space goes on appending.
DoneErrIdle(isFull) ==
    /\ tails' = [t \in Tablets |-> IF InBatch(t) THEN OpOf(t).prev ELSE tails[t]]
    /\ st' = [t \in Tablets |-> IF ~InBatch(t) THEN st[t]
                                ELSE IF st[t] = "forget" THEN "gone" ELSE "idle"]
    /\ batch' = <<>>
    /\ UNCHANGED <<opQueue, round, acked, halting, stopped, nodeCrashes>>

\* Bug: of a batch that failed only the first caller is told.
DoneErrFirst(isFull) ==
    /\ tails' = [t \in Tablets |-> IF InBatch(t) THEN OpOf(t).prev ELSE tails[t]]
    /\ st' = [st EXCEPT ![Head(batch).t] =
                  IF @ = "forget" THEN "gone"
                  ELSE IF isFull /\ Head(batch).t \notin halting THEN "suspect"
                  ELSE "idle"]
    /\ batch' = <<>>
    /\ UNCHANGED <<opQueue, round, acked, halting, stopped, nodeCrashes>>

\* Where the driver of t is after its operation failed: suspect if the disk is
\* full and t is not torn down, else where it was before.
AfterErr(t, isFull) ==
    IF st[t] = "forget" THEN "gone"
    ELSE IF isFull /\ t \notin halting THEN "suspect" ELSE OpOf(t).from

\* The flush failed: the tails are put back, then every caller is told.  The task
\* of a live tablet survives only a full disk.
DoneErr(isFull) ==
    /\ tails' = [t \in Tablets |-> IF InBatch(t) THEN OpOf(t).prev ELSE tails[t]]
    /\ st' = [t \in Tablets |-> IF InBatch(t) THEN AfterErr(t, isFull) ELSE st[t]]
    /\ stopped' = [t \in Tablets |->
           IF InBatch(t) /\ ~isFull /\ t \notin halting
           THEN stopped[t] \cup {TaskOf(OpOf(t))} ELSE stopped[t]]
    /\ batch' = <<>>
    /\ UNCHANGED <<opQueue, round, acked, halting, nodeCrashes>>

Fail == diskFails < MaxFail /\ diskFails' = diskFails + 1

\* What recovery would find of tablet t if the first i unsynced records had
\* reached the disk.
Found(t, i) == onDisk[t] \o SubSeq(buf[t], 1, i)

\* What a restart may find: the file with some of what was not synced, or one
\* that a rename, itself not synced, has replaced.
Survivors ==
    LET cuts == {c \in [Tablets -> 0 .. MaxRound] : \A t \in Tablets : c[t] <= Len(buf[t])}
    IN prior \cup {[t \in Tablets |-> Found(t, c[t])] : c \in cuts}

\* Disk::replace has put d in the place of the file; if it failed, its directory
\* is not synced.
RenameOver(d, synced) ==
    /\ onDisk' = d /\ buf' = Nothing
    /\ prior' = IF ~synced /\ "undone" \in Errors THEN Survivors ELSE {}

\* Bug: needs_rewrite refuses the rewrite as well.
FlushRewriteRefused ==
    /\ batch # <<>> /\ step = "io" /\ ~IsAppend(Head(batch))
    /\ IF needs THEN DoneErr(TRUE) /\ UNCHANGED <<onDisk, buf, torn, prior, needs>>
       ELSE /\ RenameOver(Head(batch).image, TRUE)
            /\ torn' = FALSE /\ needs' = FALSE
            /\ DoneOk
    /\ UNCHANGED <<step, full, diskFails>>

\* A rewrite of the whole file.
FlushRewrite ==
    /\ batch # <<>> /\ step = "io" /\ ~IsAppend(Head(batch))
    /\ RenameOver(Head(batch).image, TRUE)
    /\ torn' = FALSE /\ needs' = FALSE
    /\ DoneOk
    /\ UNCHANGED <<step, full, diskFails>>

\* The rewrite of a live apply task, which has a loop that does not learn of it.
Compacting == \E t \in Tablets :
    InBatch(t) /\ st[t] = "wait" /\ t \notin halting /\ TaskOf(OpOf(t)) = "apply"

FlushRewriteFails(isFull) ==
    /\ batch # <<>> /\ step = "io" /\ ~IsAppend(Head(batch))
    /\ Compacting => isFull \/ "compact" \in Errors
    /\ Fail
    /\ \/ UNCHANGED <<onDisk, buf, torn, prior>>
       \/ RenameOver(Head(batch).image, FALSE) /\ torn' = FALSE
    /\ DoneErr(isFull)
    /\ UNCHANGED <<step, full, needs>>

\* After a failure for lack of space nothing is appended until a rewrite.
FlushRefused ==
    /\ batch # <<>> /\ step = "io" /\ IsAppend(Head(batch)) /\ needs
    /\ DoneErr(TRUE)
    /\ UNCHANGED <<onDisk, buf, torn, prior, step, full, needs, diskFails>>

\* The file with the lines of the first i operations of the batch behind it.
\* Recovery stops at the first bad line: what follows half a line is not read.
Written(i) == [t \in Tablets |->
    IF ~torn /\ \E j \in 1 .. i : batch[j].t = t THEN Append(buf[t], OpOf(t).rec)
                                                ELSE buf[t]]

FlushAppend ==
    /\ batch # <<>> /\ step = "io" /\ IsAppend(Head(batch)) /\ ~needs
    /\ buf' = Written(Len(batch))
    /\ step' = "sync"
    /\ UNCHANGED <<onDisk, torn, prior, batch, full, needs, caller, diskFails, nodeCrashes>>

\* An append that failed may have written some of the lines, and half of the next.
Partly(isFull) ==
    \E i \in 0 .. Len(batch) - 1, half \in BOOLEAN :
        /\ half => isFull \/ "short" \in Errors
        /\ buf' = Written(i)
        /\ torn' = (torn \/ half)

\* Bug: the torn end of the file is not remembered.
FlushAppendFailsQuietly(isFull) ==
    /\ batch # <<>> /\ step = "io" /\ IsAppend(Head(batch)) /\ ~needs
    /\ Fail
    /\ Partly(isFull)
    /\ DoneErr(isFull)
    /\ UNCHANGED <<onDisk, prior, step, full, needs>>

\* Only a full disk makes a rewrite due.
FlushAppendFails(isFull) ==
    /\ batch # <<>> /\ step = "io" /\ IsAppend(Head(batch)) /\ ~needs
    /\ Fail
    /\ Partly(isFull)
    /\ needs' = (needs \/ isFull)
    /\ DoneErr(isFull)
    /\ UNCHANGED <<onDisk, prior, step, full>>

\* fsync of the file.  The directory was synced when the file was new and is not
\* synced again: a rename that may be undone stays one.
FlushSync ==
    /\ batch # <<>> /\ step = "sync"
    /\ onDisk' = [t \in Tablets |-> onDisk[t] \o buf[t]]
    /\ buf' = Nothing
    /\ DoneOk
    /\ UNCHANGED <<torn, prior, step, full, needs, diskFails>>

FlushSyncFails(isFull) ==
    /\ batch # <<>> /\ step = "sync"
    /\ Fail
    /\ needs' = (needs \/ isFull)
    /\ step' = "strip" /\ full' = isFull
    /\ UNCHANGED <<onDisk, buf, torn, prior, batch, caller, nodeCrashes>>

\* The bytes of this flush are taken off the file again with Disk::replace,
\* which makes what was before them durable.
Strip ==
    /\ batch # <<>> /\ step = "strip"
    /\ LET own(t) == IF InBatch(t) /\ ~torn THEN 1 ELSE 0
           kept(t) == SubSeq(buf[t], 1, Len(buf[t]) - own(t))
       IN \E synced \in BOOLEAN :
            RenameOver([t \in Tablets |-> onDisk[t] \o kept(t)], synced)
    /\ DoneErr(full)
    /\ UNCHANGED <<torn, step, full, needs, diskFails>>

\* The disk that failed the sync may fail this too.
StripFails ==
    /\ batch # <<>> /\ step = "strip"
    /\ DoneErr(full)
    /\ UNCHANGED <<onDisk, buf, torn, prior, step, full, needs, diskFails>>

-----------------------------------------------------------------------------
\* Power loss, or the process is stopped: what was not synced may be on the disk,
\* in part.
NodeCrash ==
    /\ nodeCrashes < MaxNodeCrash /\ nodeCrashes' = nodeCrashes + 1
    /\ \E d \in Survivors : Reopen(d)
    /\ UNCHANGED diskFails

Drive ==
    \/ Take \/ FlushRewrite \/ FlushRefused \/ FlushAppend \/ FlushSync \/ Strip

SharedNext ==
    \/ \E t \in Tablets : AppendTagged(t) \/ CompactGroup(t) \/ Halt(t) \/ Forget(t)
    \/ Drive
    \/ \E isFull \in BOOLEAN :
         FlushRewriteFails(isFull) \/ FlushAppendFails(isFull) \/ FlushSyncFails(isFull)
    \/ StripFails
    \/ NodeCrash

SharedSpec == SharedInit /\ [][SharedNext]_sharedVars

\* The leader goes on until the queue is empty; a suspect log is rewritten
\* (recover_suspect_wal).
SharedFairness ==
    /\ WF_sharedVars(Drive)
    /\ \A t \in Tablets : WF_sharedVars(st[t] = "suspect" /\ CompactGroup(t))

SharedFairSpec == SharedSpec /\ SharedFairness

-----------------------------------------------------------------------------
(* Properties *)

LastRound(s) == IF s = <<>> THEN 0 ELSE s[Len(s)].n

\* A round that was acknowledged survives a crash at any moment, although the
\* other tablets append to the file, rewrite it, fail and are torn down.  It holds
\* on a disk without the faults "short" and "undone".
AckedSurvives ==
    \A t \in Tablets : st[t] \notin {"forget", "gone"} =>
        \A d \in Survivors : LastRound(d[t]) >= acked[t]

\* Every record follows the one before it; an image may stand in front.
Unbroken(s) ==
    \A j \in 1 .. Len(s) :
        \/ s[j].img /\ j = 1
        \/ ~s[j].img /\ s[j].n = 1 + (IF j = 1 THEN 0 ELSE s[j - 1].n)

\* What recovery finds of a tablet is a history without gaps: it starts with
\* the first round or an image, and each record follows the one before it.  It
\* holds on a disk without the fault "compact".
NoGap == \A d \in Survivors : \A t \in Tablets : Unbroken(d[t])

\* Every caller that waits for its write is answered.
CallerAnswered == \A t \in Tablets : (st[t] = "wait") ~> (st[t] # "wait")

\* A tablet whose write failed for lack of space is able to append again, unless
\* it is torn down or its loop has panicked.
SuspectIsRewritten ==
    \A t \in Tablets : (st[t] = "suspect") ~>
        (st[t] = "idle" \/ t \in halting \/ "loop" \in stopped[t])
=============================================================================
