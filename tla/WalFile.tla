------------------------------ MODULE WalFile -------------------------------
(***************************************************************************)
(* A line-framed Raft write-ahead log file, as the drivers of both planes  *)
(* use it (animus-control/src/persist.rs, the Disk trait of animus-env).   *)
(*                                                                         *)
(* The core's durable mutations (log appends, truncations, term/vote       *)
(* changes, installed snapshots) are numbered 1, 2, 3, ... in the order    *)
(* they are made.  A run of WAL bytes is the records from+1 .. to; `ok' is *)
(* FALSE once two runs were put together that do not meet, so that a       *)
(* replay, which is positional, would read a gap or a repeated record.     *)
(* A file is a run plus `torn': its tail is a partial line, and the        *)
(* decoder stops at the first bad line, so nothing behind it is recovered. *)
(***************************************************************************)
EXTENDS Integers

Run(from, to) == [from |-> from, to |-> to, ok |-> TRUE]

EmptyRun == Run(0, 0)

IsEmptyRun(r) == r.from = r.to

\* Byte concatenation of two runs of whole records.
Concat(a, b) ==
  IF IsEmptyRun(b) THEN a
  ELSE IF IsEmptyRun(a) THEN [b EXCEPT !.ok = a.ok /\ b.ok]
  ELSE [from |-> a.from, to |-> b.to, ok |-> a.ok /\ b.ok /\ a.to = b.from]

Intact(r) == [run |-> r, torn |-> FALSE]

\* Disk::append + Disk::sync that both succeed: behind a torn line the new
\* records are on the disk and out of reach of every later decode.
AppendSync(file, r) ==
  IF file.torn THEN file ELSE Intact(Concat(file.run, r))

\* The same pair failing with ENOSPC: some whole records may have reached the
\* disk (through `kept'), the rest of the tail is unknown.
AppendFull(file, r, kept) ==
  IF file.torn \/ kept = r.from THEN [file EXCEPT !.torn = TRUE]
  ELSE [run |-> Concat(file.run, Run(r.from, kept)), torn |-> TRUE]

\* RaftCore::wal_image of a core that has made `ver' mutations.
Image(ver) == Run(0, ver)

\* PersistedState::check_log_contiguous: the file replays to the state after
\* file.run.to mutations, with no gap and no repeated record.
Replayable(file) == file.run.ok /\ file.run.from = 0

\* What a restart reads back: the records before the first bad line; the
\* torn tail is cut off the file before anything is appended to it again.
Recovered(file) == file.run.to

Repaired(file) == Intact(file.run)

Runs == [from : Nat, to : Nat, ok : BOOLEAN]
Files == [run : Runs, torn : BOOLEAN]
=============================================================================
