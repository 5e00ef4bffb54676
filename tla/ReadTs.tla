------------------------------- MODULE ReadTs -------------------------------
(***************************************************************************)
(* Commit timestamps of one data-plane group (animus-cp-data/src/lib.rs,   *)
(* hlc.rs, ts_cache.rs, ceiling.rs, hwm.rs): a leader mints a timestamp    *)
(* for every command from its hybrid clock, pushes it above the reads it   *)
(* has served, and serves reads below a ceiling that is itself a log       *)
(* entry, so that a later leader, which has neither the old clock nor the  *)
(* old cache, still writes above every read that was served.               *)
(*                                                                         *)
(* A timestamp is a natural number, in the order of the packed (wall,      *)
(* logical) pair.  Replication is Raft's, by its effect: votes go to a     *)
(* complete enough log, a message brings the whole log of its sender,      *)
(* an entry is committed once a majority in the leader's term has it, and  *)
(* a replica may learn so at any time.  Logs are durable (Raft models what *)
(* a crash can take from one) and keep their compacted prefix as a history *)
(* that only `logBase' marks as gone.                                      *)
(***************************************************************************)
EXTENDS Integers, Sequences, FiniteSets

CONSTANTS
  Node,           \* the voters
  Hosts,          \* the voters that may lead; the others only vote and store the
                  \* log, and nothing reads their engines, clocks and caches
  First,          \* the host that leads at first
  Keys,
  NoKey,          \* the key of a command that has none
  Offset,         \* HLC_MAX_OFFSET: how far above a read its ceiling is put
  RotationBound,  \* ROTATION_BOUND: spans a cache generation holds
  Wall,           \* what the wall clock of a node may read, at most
  MaxAsk,         \* bound: timestamps a caller asks to read at
  MaxTerm,        \* bound: terms
  MaxLog,         \* bound: entries at which a proposer stops
  MaxOps,         \* bound: reads and writes begun
  MaxCompact,     \* bound: compactions
  MaxProcessCrash \* bound: process crashes

ASSUME ReadTsAssumption ==
  /\ IsFiniteSet(Node) /\ Hosts \subseteq Node /\ First \in Hosts
  /\ IsFiniteSet(Keys)
  /\ Offset \in Nat /\ RotationBound \in Nat /\ Wall \in [Node -> Nat]
  /\ {MaxAsk, MaxTerm, MaxLog, MaxOps, MaxCompact, MaxProcessCrash} \subseteq Nat

VARIABLES
  term, leads,    \* Raft: the term, and whether the node believes it leads it
  log, logBase,   \* Raft: entries, and how many of them are compacted away
  committed,      \* history: the committed entries
  committedIn,    \* history: the term of the leader that committed each of them
  applied,        \* engine_applied
  image,          \* pending_install: the header of a snapshot not yet merged
  mark,           \* the engine's high-water-mark row (hwm.rs)
  hlc,            \* Hlc::state
  lastTs,         \* last_proposed_ts
  lastCeil,       \* last_ceiling_candidate
  absorbed,       \* last_absorbed_term
  ceiling,        \* committed_ceiling and its marker row in the engine
  cache,          \* TsCache: [current, previous, low]
  rd,             \* the read a node is serving
  served,         \* history: the highest timestamp a key was served at
  ops, cuts, processCrashes  \* reads and writes, compactions and crashes so far

raft == <<term, leads, log, logBase, committed, committedIn, applied, image, mark>>
clock == <<hlc, lastTs, lastCeil, absorbed, ceiling, cache>>
tsVars == <<raft, clock, rd, served, ops, cuts, processCrashes>>

NoTerm == -1
NoRead == [at |-> "idle"]
NoImage == -1

-----------------------------------------------------------------------------
(* Numbers and logs.                                                       *)

Highest(S) == CHOOSE x \in S \cup {0} : \A y \in S \cup {0} : x >= y

Higher(a, b) == IF a > b THEN a ELSE b

Majority(S) == 2 * Cardinality(S) > Cardinality(Node)

\* command_ts of the entries of a log between two indexes (0: a no-op's).
TsBetween(l, from, to) == {l[i].ts : i \in from + 1 .. to}

LastTerm(l) == IF l = <<>> THEN 0 ELSE l[Len(l)].term

UpToDate(l, m) ==
  LastTerm(l) > LastTerm(m) \/ (LastTerm(l) = LastTerm(m) /\ Len(l) >= Len(m))

\* How many leading entries two logs share.
Agreed(l, m) ==
  Cardinality({i \in 1 .. Len(l) : i <= Len(m) /\ SubSeq(l, 1, i) = SubSeq(m, 1, i)})

\* state_machine_behind: the log starts above what the engine holds.
Behind(n) == applied[n] < logBase[n]

NoOp(t) == [term |-> t, kind |-> "NoOp", key |-> NoKey, ts |-> 0, floor |-> 0]

-----------------------------------------------------------------------------
(* The read-timestamp cache.                                               *)

NoSpans == [k \in Keys |-> 0]
NoCache == [current |-> NoSpans, previous |-> NoSpans, low |-> 0]

Spans(gen) == {k \in Keys : gen[k] > 0}

\* TsCache::rotate
Rotate(c) ==
  [current |-> NoSpans, previous |-> c.current,
   low |-> Highest({c.low} \cup {c.previous[k] : k \in Keys})]

\* TsCache::bump
Bump(c, k, ts) ==
  LET b == [c EXCEPT !.current[k] = Higher(@, ts)]
  IN IF Cardinality(Spans(b.current)) > RotationBound THEN Rotate(b) ELSE b

\* TsCache::max_overlapping
MaxOverlapping(c, k) == Highest({c.low, c.current[k], c.previous[k]})

-----------------------------------------------------------------------------
(* Minting.                                                                *)

\* bump_strictly_above, when the honest mint does not exceed its floor.
Above(t, floor) == IF t > floor THEN t ELSE floor + 1

\* mint_pushed's once-per-term absorption of the committed ceiling.
Absorbed(n) ==
  IF absorbed[n] = term[n] THEN cache[n]
  ELSE [cache[n] EXCEPT !.low = Higher(@, ceiling[n])]

\* What mint_pushed must exceed for a write of k.
PushFloor(n, k) == Higher(MaxOverlapping(Absorbed(n), k), lastTs[n])

\* StorageEngine::latest_version: rows, the ceiling's marker and the mark.
LatestVersion(n) ==
  Highest({mark[n], ceiling[n]} \cup
    {log[n][i].ts : i \in {j \in 1 .. applied[n] : log[n][j].kind = "Write"}})

\* propose_ordered: under the core's lock a command is built, appended and its
\* timestamp remembered.
Log(n, e) ==
  /\ leads[n] /\ Len(log[n]) < MaxLog
  /\ log' = [log EXCEPT ![n] = Append(@, e)]
  /\ lastTs' = [lastTs EXCEPT ![n] = e.ts]
  /\ UNCHANGED <<term, leads, logBase, committed, committedIn, applied, image, mark>>

\* Hlc::mint: the wall clock where it is ahead of the last timestamp, the next
\* one where it is not (a wall clock may also step back).
Minted(n) == Higher(Wall[n], hlc[n] + 1)

Mint(n) == hlc' = [hlc EXCEPT ![n] = Minted(n)]

\* mint_pushed's side effects.
Absorb(n) ==
  /\ absorbed' = [absorbed EXCEPT ![n] = term[n]]
  /\ cache' = [cache EXCEPT ![n] = Absorbed(n)]

\* A client's request, within the bound.
Begin == ops < MaxOps /\ ops' = ops + 1

\* put, cas and the like; `Miss' is a command whose apply writes no row.
ProposeCommand(n, k) == \E kind \in {"Write", "Miss"} :
  /\ Begin /\ Mint(n) /\ Absorb(n)
  /\ Log(n, [term |-> term[n], kind |-> kind, key |-> k,
             ts |-> Above(Minted(n), PushFloor(n, k)), floor |-> served[k]])
  /\ UNCHANGED <<lastCeil, ceiling, rd, served, cuts, processCrashes>>

-----------------------------------------------------------------------------
(* Reads.                                                                  *)

\* read_barrier: a majority still follows the leader and its engine holds its
\* term's first entry, which is all a leader out of disk waits for; one with
\* space waits for everything committed.
ReadBarrier(n, k) ==
  /\ leads[n] /\ rd[n] = NoRead /\ Begin
  /\ \E i \in 1 .. applied[n] : log[n][i].term = term[n]
  /\ Majority({q \in Node : term[q] = term[n]})
  /\ rd' = [rd EXCEPT ![n] = [at |-> "mint", key |-> k]]
  /\ UNCHANGED <<raft, clock, served, cuts, processCrashes>>

ServeAt(n, ts) ==
  rd' = [rd EXCEPT ![n] = [at |-> "serve", key |-> rd[n].key, ts |-> ts]]

\* read_serve_ts, the committed ceiling covers the mint.
ReadMint(n) ==
  /\ rd[n].at = "mint" /\ Mint(n)
  /\ Minted(n) < ceiling[n] /\ ServeAt(n, Minted(n))
  /\ UNCHANGED <<raft, lastTs, lastCeil, absorbed, ceiling, cache, served, ops,
                 cuts, processCrashes>>

\* read_serve_ts of a leader that is out of disk: the committed floor.
ReadFloor(n) ==
  /\ rd[n].at = "mint" /\ Mint(n)
  /\ Minted(n) >= ceiling[n] /\ leads[n] /\ ServeAt(n, LatestVersion(n))
  /\ UNCHANGED <<raft, lastTs, lastCeil, absorbed, ceiling, cache, served, ops,
                 cuts, processCrashes>>

\* next_ceiling_candidate(uncertainty_upper(ts))
Candidate(n, ts) == Above(ts + Offset, Higher(lastCeil[n], lastTs[n]))

\* ensure_ceiling_above proposes a ceiling and waits for it to be applied.
ReadCeiling(n) == LET c == Candidate(n, Minted(n)) IN
  /\ rd[n].at = "mint" /\ Mint(n) /\ Minted(n) >= ceiling[n]
  /\ lastCeil' = [lastCeil EXCEPT ![n] = c]
  /\ Log(n, [term |-> term[n], kind |-> "Ceiling", key |-> NoKey, ts |-> c, floor |-> 0])
  /\ rd' = [rd EXCEPT ![n] = [at |-> "wait", key |-> rd[n].key, ts |-> Minted(n)]]
  /\ UNCHANGED <<absorbed, ceiling, cache, served, ops, cuts, processCrashes>>

ReadCovered(n) ==
  /\ rd[n].at = "wait" /\ ceiling[n] > rd[n].ts /\ ServeAt(n, rd[n].ts)
  /\ UNCHANGED <<raft, clock, served, ops, cuts, processCrashes>>

\* READ_TIMEOUT in the wait, or a node that no longer leads lacks a ceiling.
ReadFails(n) ==
  /\ rd[n].at = "wait" \/ (rd[n].at = "mint" /\ ~leads[n] /\ Minted(n) >= ceiling[n])
  /\ rd' = [rd EXCEPT ![n] = NoRead]
  /\ UNCHANGED <<raft, clock, served, ops, cuts, processCrashes>>

\* Bug: the ceiling is not consulted.
Covered(n, ts) == TRUE

\* read_at's refusal at or above the committed ceiling.
BelowCeiling(n, ts) == ceiling[n] > ts

\* read_at and scan_at: a timestamp of the caller's.
ReadAt(n) == \E ts \in 1 .. MaxAsk :
  /\ rd[n].at = "mint" /\ BelowCeiling(n, ts) /\ ServeAt(n, ts)
  /\ UNCHANGED <<raft, clock, served, ops, cuts, processCrashes>>

\* The value is read, the cache is told and the answer goes out.
ReadServe(n) ==
  /\ rd[n].at = "serve"
  /\ cache' = [cache EXCEPT ![n] = Bump(@, rd[n].key, rd[n].ts)]
  /\ served' = [served EXCEPT ![rd[n].key] = Higher(@, rd[n].ts)]
  /\ rd' = [rd EXCEPT ![n] = NoRead]
  /\ UNCHANGED <<raft, hlc, lastTs, lastCeil, absorbed, ceiling, ops, cuts,
                 processCrashes>>

-----------------------------------------------------------------------------
(* Replication, application, compaction.                                   *)

\* Hlc::witness of every timestamp in S (it goes past them; at least to them).
Witness(n, S) == hlc' = [hlc EXCEPT ![n] = Highest(S \cup {@})]

\* A node whose engine is behind its log does not campaign.
Elect(n) ==
  /\ ~leads[n] /\ ~Behind(n) /\ Len(log[n]) < MaxLog
  /\ \E Q \in SUBSET {q \in Node : UpToDate(log[n], log[q])} :
       LET t == 1 + Highest({term[q] : q \in Q}) IN
       /\ n \in Q /\ Majority(Q) /\ t <= MaxTerm
       /\ term' = [m \in Node |-> IF m \in Q THEN t ELSE term[m]]
       /\ leads' = [m \in Node |-> IF m \in Q THEN m = n ELSE leads[m]]
       /\ log' = [log EXCEPT ![n] = Append(@, NoOp(t))]
  /\ UNCHANGED <<logBase, committed, committedIn, applied, image, mark, clock, rd,
                 served, ops, cuts, processCrashes>>

Follow(n, m) ==
  /\ leads[n] /\ m # n /\ term[m] <= term[n]
  /\ term' = [term EXCEPT ![m] = term[n]] /\ leads' = [leads EXCEPT ![m] = FALSE]

\* maybe_advance_commit: the highest entry of n's term that a majority has.
Chosen(n) ==
  LET has == [q \in Node |-> IF term'[q] = term[n] THEN Agreed(log[n], log'[q]) ELSE 0]
  IN Highest({j \in 1 .. Len(log[n]) :
       log[n][j].term = term[n] /\ Majority({q \in Node : has[q] >= j})})

\* AppendEntries with all that m lacks of n's log.  An entry is committed with
\* its last copy of a majority; when a node hears of it is up to Apply.
Replicate(n, m) == LET same == Agreed(log[n], log[m])  i == Chosen(n) IN
  /\ Follow(n, m)
  /\ logBase[n] <= same /\ same < Len(log[n])
  /\ log' = [log EXCEPT ![m] = log[n]]
  /\ committed' = IF i > Len(committed) THEN SubSeq(log[n], 1, i) ELSE committed
  /\ committedIn' = [j \in 1 .. Len(committed') |->
                       IF j <= Len(committed) THEN committedIn[j] ELSE term[n]]
  /\ Witness(m, TsBetween(log[n], same, Len(log[n])))
  /\ UNCHANGED <<logBase, applied, image, mark, lastTs, lastCeil, absorbed, ceiling,
                 cache, rd, served, ops, cuts, processCrashes>>

\* What n may know to be committed: it heard so from a leader of a term it has
\* reached, about entries that its log shares with the leader's.
Known(n) ==
  Highest({j \in 1 .. Agreed(log[n], committed) : committedIn[j] <= term[n]})

\* A pass of the apply task: what the node knows to be committed is merged.
Apply(n) == LET i == Known(n) IN
  /\ ~Behind(n) /\ applied[n] < i
  /\ applied' = [applied EXCEPT ![n] = i]
  /\ ceiling' = [ceiling EXCEPT ![n] = Highest({@} \cup
       {log[n][j].ts : j \in {m \in applied[n] + 1 .. i : log[n][m].kind = "Ceiling"}})]
  /\ UNCHANGED <<term, leads, log, logBase, committed, committedIn, image, mark, hlc,
                 lastTs, lastCeil, absorbed, cache, rd, served, ops, cuts,
                 processCrashes>>

\* Bug: no mark is written, rows alone speak for the compacted entries.
MarkRowsOnly(n) == LatestVersion(n)

\* max_applied_ts, the row a compaction writes before it cuts the log.
HighWaterMark(n) == Highest({mark[n]} \cup TsBetween(log[n], logBase[n], applied[n]))

Compact(n) ==
  /\ logBase[n] < applied[n] /\ cuts < MaxCompact /\ cuts' = cuts + 1
  /\ logBase' = [logBase EXCEPT ![n] = applied[n]]
  /\ mark' = [mark EXCEPT ![n] = HighWaterMark(n)]
  /\ UNCHANGED <<term, leads, log, committed, committedIn, applied, image, clock, rd,
                 served, ops, processCrashes>>

\* The last chunk of a snapshot: the core of m moves its base at once, the
\* image waits for the apply task.
Install(n, m) ==
  /\ Follow(n, m)
  /\ logBase[n] > Agreed(log[n], log[m])
  /\ log' = [log EXCEPT ![m] = SubSeq(log[n], 1, logBase[n])]
  /\ logBase' = [logBase EXCEPT ![m] = logBase[n]]
  /\ image' = [image EXCEPT ![m] = Higher(mark[n], LatestVersion(n))]
  /\ UNCHANGED <<committed, committedIn, applied, mark, clock, rd, served, ops,
                 cuts, processCrashes>>

\* install_engine_image: rows, applied watermark and mark in one batch.
InstallEngine(n) ==
  /\ image[n] # NoImage
  /\ applied' = [applied EXCEPT ![n] = Higher(@, logBase[n])]
  /\ mark' = [mark EXCEPT ![n] = Higher(@, image[n])]
  /\ image' = [image EXCEPT ![n] = NoImage]
  /\ Witness(n, {image[n]})
  /\ UNCHANGED <<term, leads, log, logBase, committed, committedIn, lastTs, lastCeil,
                 absorbed, ceiling, cache, rd, served, ops, cuts, processCrashes>>

\* start_inner and drive after a crash: the clock is witnessed from the engine
\* and from the entries the WAL still has; an image not yet merged is lost.
ProcessCrash(n) ==
  /\ processCrashes < MaxProcessCrash /\ processCrashes' = processCrashes + 1
  /\ leads' = [leads EXCEPT ![n] = FALSE]
  /\ hlc' = [hlc EXCEPT ![n] =
       Highest({LatestVersion(n)} \cup TsBetween(log[n], logBase[n], Len(log[n])))]
  /\ lastTs' = [lastTs EXCEPT ![n] = 0] /\ lastCeil' = [lastCeil EXCEPT ![n] = 0]
  /\ absorbed' = [absorbed EXCEPT ![n] = NoTerm]
  /\ cache' = [cache EXCEPT ![n] = NoCache]
  /\ applied' = [applied EXCEPT ![n] = IF Behind(n) THEN @ ELSE logBase[n]]
  /\ image' = [image EXCEPT ![n] = NoImage]
  /\ rd' = [rd EXCEPT ![n] = NoRead]
  /\ UNCHANGED <<term, log, logBase, committed, committedIn, mark, ceiling, served,
                 ops, cuts>>

\* A node left with a base its engine does not reach asks for the snapshot again.
Resend(n, m) ==
  /\ Follow(n, m) /\ Behind(m) /\ image[m] = NoImage /\ logBase[n] >= logBase[m]
  /\ log' = [log EXCEPT ![m] = SubSeq(log[n], 1, Higher(logBase[n], Agreed(log[n], @)))]
  /\ logBase' = [logBase EXCEPT ![m] = logBase[n]]
  /\ image' = [image EXCEPT ![m] = Higher(mark[n], LatestVersion(n))]
  /\ UNCHANGED <<committed, committedIn, applied, mark, clock, rd, served, ops,
                 cuts, processCrashes>>

-----------------------------------------------------------------------------
\* A group that has elected its first leader; nothing else is in its log.
TsInit ==
  /\ term = [n \in Node |-> 1]
  /\ leads = [n \in Node |-> n = First]
  /\ log = [n \in Node |-> <<NoOp(1)>>] /\ logBase = [n \in Node |-> 0]
  /\ committed = <<NoOp(1)>> /\ committedIn = <<1>> /\ applied = [n \in Node |-> 1]
  /\ image = [n \in Node |-> NoImage] /\ mark = [n \in Node |-> 0]
  /\ hlc = [n \in Node |-> 0] /\ lastTs = [n \in Node |-> 0]
  /\ lastCeil = [n \in Node |-> 0] /\ absorbed = [n \in Node |-> NoTerm]
  /\ ceiling = [n \in Node |-> 0] /\ cache = [n \in Node |-> NoCache]
  /\ rd = [n \in Node |-> NoRead] /\ served = [k \in Keys |-> 0]
  /\ ops = 0 /\ cuts = 0 /\ processCrashes = 0

Read(n) ==
  \/ \E k \in Keys : ReadBarrier(n, k)
  \/ ReadMint(n) \/ ReadFloor(n) \/ ReadCeiling(n) \/ ReadCovered(n)
  \/ ReadFails(n) \/ ReadAt(n) \/ ReadServe(n)

TsNext == \E n \in Hosts :
  \/ \E k \in Keys : ProposeCommand(n, k)
  \/ Read(n)
  \/ Elect(n) \/ Apply(n) \/ Compact(n) \/ InstallEngine(n) \/ ProcessCrash(n)
  \/ \E m \in Node : Replicate(n, m) \/ Install(n, m) \/ Resend(n, m)

TsSpec == TsInit /\ [][TsNext]_tsVars
-----------------------------------------------------------------------------
(* Properties.                                                             *)

\* A write that commits was minted above every timestamp its key had been
\* served at when it was proposed, by whichever leader, since restarted or not.
NoWriteBelowRead == \A i \in 1 .. Len(committed) :
  committed[i].kind = "Write" => committed[i].ts > committed[i].floor

\* assert_ts_monotonic never fires: along the committed log timestamps increase
\* strictly, across leaders, restarts, compaction and snapshots.
TsIncreasing == \A i, j \in 1 .. Len(committed) :
  i < j /\ committed[i].ts > 0 /\ committed[j].ts > 0
    => committed[i].ts < committed[j].ts
=============================================================================
