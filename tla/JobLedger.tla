------------------------------ MODULE JobLedger ------------------------------
(***************************************************************************)
(* The ledger of one job over many worker passes: append-only sidecars in  *)
(* the object store, read by workers (run and the chunked executor in      *)
(* zenfleet-worker/src/lib.rs) and by the operator's tools (zenfleet-ctl:  *)
(* requeue, audit-blobs, compact).  A row carries the time its pass began  *)
(* and lands later, so rows reach readers out of order; a listing has no   *)
(* order a reader may rely on.                                             *)
(*                                                                         *)
(* The job is the only cell of its chunk.  Other jobs show through the     *)
(* newest timestamp of a snapshot.  Listed files never change, so a fold   *)
(* commutes with all other steps and runs to its end before they do.       *)
(***************************************************************************)
EXTENDS LedgerView, FiniteSets

CONSTANTS
  Workers,
  Margin,          \* the fold takes files as old as the snapshot minus this
  MaxNow,          \* bound: the clock stops here
  MaxRows,         \* bound: sidecars of this job
  MaxUnreadable,   \* bound: files one reading may skip
  Enabled,         \* the operator tools in use
  MaxUses,         \* bound: uses of them
  NoSnapshot, NoClaim

Tools == {"compact", "requeue-pardon", "audit-blobs"}

ASSUME ConfigAssumption ==
  /\ MaxAttempts \in Nat
  /\ TTL \in Nat \ {0}
  /\ {Margin, MaxNow, MaxRows, MaxUnreadable, MaxUses} \subseteq Nat
  /\ Enabled \subseteq Tools

\* A sidecar's row, with the time the object store received it.  A worker's name
\* is not told apart; only Failed rows have a class that anyone asks for.
Row == [status : {"Failed", "Poison", "Done"}, transient : BOOLEAN,
        attempts : Nat, ts : Nat, by : {"worker"} \cup Tools, mtime : Nat]

ASSUME SentinelAssumption ==
  /\ NoRow \notin Row
  /\ NoSnapshot \notin [row : Row \cup {NoRow}, max_ts : Nat]
  /\ NoClaim \notin [owner : Workers, ts : Nat]

VARIABLES
  now,        \* wall clock
  sidecars,   \* the rows of the files under ledger/
  snapshot,   \* ledger_snapshot.parquet: this job's row, the newest ts of any
  pass,       \* per worker: the pass it is in
  claim,      \* the claim object of the job's chunk
  tool,       \* the operator tool that runs, and what it has read
  uses        \* tool uses left

vars == <<now, sidecars, snapshot, pass, claim, tool, uses>>

NoPass == [phase |-> "idle", ts |-> 0, listed |-> {}, todo |-> {}, view |-> NoRow]
NoTool == [phase |-> "idle", kind |-> "compact", ts |-> 0, todo |-> {},
           view |-> NoRow, done |-> NoRow, bad |-> NoRow]

MaybeRow == sidecars \cup {NoRow}

TypeOK ==
  /\ now \in 0..MaxNow
  /\ sidecars \subseteq Row
  /\ snapshot \in [row : MaybeRow, max_ts : 0..now] \cup {NoSnapshot}
  /\ pass \in [Workers -> [phase : {"idle", "start", "fold", "enqueue", "run", "poison"},
                           ts : 0..now, listed : SUBSET sidecars,
                           todo : SUBSET sidecars, view : MaybeRow]]
  /\ claim \in [owner : Workers, ts : 0..now] \cup {NoClaim}
  /\ tool \in [phase : {"idle", "fold", "write"}, kind : Tools, ts : 0..now,
               todo : SUBSET sidecars, view : MaybeRow, done : MaybeRow, bad : MaybeRow]
  /\ uses \in Nat

Init ==
  /\ now = 0
  /\ sidecars = {}
  /\ snapshot = NoSnapshot
  /\ pass = [w \in Workers |-> NoPass]
  /\ claim = NoClaim
  /\ tool = NoTool
  /\ uses = MaxUses

\* No reader is in the middle of its files.
Quiet == tool.todo = {} /\ \A w \in Workers : pass[w].todo = {}

\* All files but a few unreadable ones.
Readable(files) ==
  {files \ bad : bad \in {b \in SUBSET files : Cardinality(b) <= MaxUnreadable}}

Set(w, p) == pass' = [pass EXCEPT ![w] = p]
Leave(w) == Set(w, NoPass)

-----------------------------------------------------------------------------
(* A worker pass.                                                          *)

\* The worker binary reads its clock: the timestamp of every row it writes.
StartPass(w) ==
  /\ Quiet
  /\ pass[w].phase = "idle"
  /\ Set(w, [NoPass EXCEPT !.phase = "start", !.ts = now])
  /\ UNCHANGED <<now, sidecars, snapshot, claim, tool, uses>>

SnapRow == IF snapshot = NoSnapshot THEN NoRow ELSE snapshot.row

\* Files the fold takes in beside the snapshot.
Window__by_ts ==
  {r \in sidecars : snapshot = NoSnapshot \/ r.ts + Margin >= snapshot.max_ts}
Window ==
  {r \in sidecars : snapshot = NoSnapshot \/ r.mtime + Margin >= snapshot.max_ts}

\* Fetch the snapshot, then list the sidecars.
Load(w) ==
  /\ Quiet
  /\ pass[w].phase = "start"
  /\ \E files \in Readable(Window) :
       Set(w, [pass[w] EXCEPT !.phase = "fold", !.view = SnapRow,
                              !.listed = files, !.todo = files])
  /\ UNCHANGED <<now, sidecars, snapshot, claim, tool, uses>>

Fold(w) ==
  /\ \E r \in pass[w].todo :
       Set(w, [pass[w] EXCEPT !.todo = @ \ {r}, !.view = apply(@, r)])
  /\ UNCHANGED <<now, sidecars, snapshot, claim, tool, uses>>

Plan(w) == reconcile_at(pass[w].view, pass[w].ts)

\* Reconcile.  The pass ends here if there is nothing to do for the job, or if the
\* run is paused or draining.
Reconcile(w) ==
  /\ Quiet
  /\ pass[w].phase = "fold"
  /\ \/ /\ Plan(w) \in {"enqueue", "poison"}
        /\ Set(w, [pass[w] EXCEPT !.phase = Plan(w), !.listed = {}])
     \/ Leave(w)
  /\ UNCHANGED <<now, sidecars, snapshot, claim, tool, uses>>

Stealable == claim # NoClaim => now >= claim.ts + TTL

\* Claim the chunk, or steal a stale claim.
Claim(w) ==
  /\ Quiet
  /\ pass[w].phase = "enqueue"
  /\ Stealable
  /\ claim' = [owner |-> w, ts |-> now]
  /\ Set(w, [pass[w] EXCEPT !.phase = "run"])
  /\ UNCHANGED <<now, sidecars, snapshot, tool, uses>>

\* Another worker holds the chunk.
Skip(w) ==
  /\ Quiet
  /\ pass[w].phase = "enqueue"
  /\ ~Stealable
  /\ Leave(w)
  /\ UNCHANGED <<now, sidecars, snapshot, claim, tool, uses>>

\* A count of the attempts left after this one.
Attempts__left(view) == IF view = NoRow THEN MaxAttempts - 1 ELSE view.attempts - 1
\* One more than the row the pass saw.
Attempts(view) == IF view = NoRow THEN 1 ELSE view.attempts + 1

\* The row a pass writes.
make(w, status, transient) ==
  [status |-> status, transient |-> transient, attempts |-> Attempts(pass[w].view),
   ts |-> pass[w].ts, by |-> "worker", mtime |-> now]

Publish(row) ==
  /\ Cardinality(sidecars) < MaxRows
  /\ sidecars' = sidecars \cup {row}

\* The last completion renews the claim, if it is still ours.  (The requests of a
\* renewal and what may be lost of them are ChunkClaim's.)
RenewClaim(w) ==
  claim' = IF claim # NoClaim /\ claim.owner = w THEN [claim EXCEPT !.ts = now] ELSE claim

\* The cell ends, well or not, and its row is flushed; or the flush fails.
Finish(w) ==
  /\ Quiet
  /\ pass[w].phase = "run"
  /\ \/ Publish(make(w, "Done", FALSE))
     \/ \E transient \in BOOLEAN : Publish(make(w, "Failed", transient))
     \/ UNCHANGED sidecars
  /\ RenewClaim(w)
  /\ Leave(w)
  /\ UNCHANGED <<now, snapshot, tool, uses>>

\* The reconciler's verdict becomes a row.
Poison(w) ==
  /\ Quiet
  /\ pass[w].phase = "poison"
  /\ Publish(make(w, "Poison", FALSE)) \/ UNCHANGED sidecars
  /\ Leave(w)
  /\ UNCHANGED <<now, snapshot, claim, tool, uses>>

\* The worker dies, or is told to stop and releases its claim.
Crash(w) ==
  /\ Quiet
  /\ pass[w].phase # "idle"
  /\ Leave(w)
  /\ \/ UNCHANGED claim
     \/ pass[w].phase = "run" /\ claim # NoClaim /\ claim.owner = w /\ claim' = NoClaim
  /\ UNCHANGED <<now, sidecars, snapshot, tool, uses>>

-----------------------------------------------------------------------------
(* The operator's tools.  Each reads the whole ledger directory first.     *)

ReadLedger(k) ==
  /\ Quiet
  /\ tool.phase = "idle"
  /\ k \in Enabled
  /\ uses > 0
  /\ uses' = uses - 1
  /\ \E files \in Readable(sidecars) :
       tool' = [NoTool EXCEPT !.phase = "fold", !.kind = k, !.ts = now, !.todo = files]
  /\ UNCHANGED <<now, sidecars, snapshot, pass, claim>>

\* The snapshot keeps the Done row it meets first ...
FirstDone(done, r) == IF r.status = "Done" /\ done = NoRow THEN r ELSE done

\* ... and the newest Failed or Poison row.
NewestBad(bad, r) ==
  IF r.status \in {"Failed", "Poison"} /\ (bad = NoRow \/ r.ts > bad.ts) THEN r ELSE bad

ToolFold ==
  /\ \E r \in tool.todo :
       tool' = [tool EXCEPT !.todo = @ \ {r}, !.view = apply(@, r),
                            !.done = FirstDone(@, r), !.bad = NewestBad(@, r)]
  /\ UNCHANGED <<now, sidecars, snapshot, pass, claim, uses>>

\* Of the two, the one whose kind the latest-wins view agrees with.
snapshot_rows ==
  IF tool.view = NoRow THEN NoRow
  ELSE IF tool.view.status = "Done" THEN tool.done ELSE tool.bad

Ready(k) == Quiet /\ tool.phase = "fold" /\ tool.kind = k

\* The upload of a compaction.  Rows of other jobs raise max_ts, at most to the
\* time the files were read; the tool's ts field carries that time.
Compact ==
  /\ Ready("compact")
  /\ \E m \in 0..tool.ts :
       /\ snapshot_rows # NoRow => m >= snapshot_rows.ts
       /\ snapshot' = [row |-> snapshot_rows, max_ts |-> m]
  /\ tool' = NoTool
  /\ UNCHANGED <<now, sidecars, pass, claim, uses>>

Eligible(k) ==
  IF k = "requeue-pardon" THEN {"Failed", "Poison"} ELSE {"Done"}

\* Requeue and audit-blobs pick the job by its latest status, and take the time.
Decide(k) ==
  /\ Ready(k)
  /\ k # "compact"
  /\ IF tool.view # NoRow /\ tool.view.status \in Eligible(k) /\ tool.view.by # k
       THEN tool' = [tool EXCEPT !.phase = "write", !.ts = now]
       ELSE tool' = NoTool
  /\ UNCHANGED <<now, sidecars, snapshot, pass, claim, uses>>

ToolAttempts__counted == tool.view.attempts
\* A pardon starts the count anew, an audit adds to it.
ToolAttempts == IF tool.kind = "requeue-pardon" THEN 0 ELSE tool.view.attempts + 1

\* The row is uploaded, or the upload fails.
WriteRow ==
  /\ Quiet
  /\ tool.phase = "write"
  /\ \/ Publish([status |-> "Failed", transient |-> TRUE, attempts |-> ToolAttempts,
                 ts |-> tool.ts, by |-> tool.kind, mtime |-> now])
     \/ UNCHANGED sidecars
  /\ tool' = NoTool
  /\ UNCHANGED <<now, snapshot, pass, claim, uses>>

Tick ==
  /\ Quiet
  /\ now < MaxNow
  /\ now' = now + 1
  /\ UNCHANGED <<sidecars, snapshot, pass, claim, tool, uses>>

Next ==
  \/ Tick
  \/ \E w \in Workers :
       \/ StartPass(w) \/ Load(w) \/ Fold(w) \/ Reconcile(w)
       \/ Claim(w) \/ Skip(w) \/ Finish(w) \/ Poison(w) \/ Crash(w)
  \/ \E k \in Tools : ReadLedger(k) \/ Decide(k)
  \/ ToolFold \/ Compact \/ WriteRow

Spec == Init /\ [][Next]_vars

-----------------------------------------------------------------------------
(* Properties.                                                             *)

\* A Poison row is earned: before it some pass wrote a Failed row with one
\* attempt less that is deterministic or used up the attempts (reconcile_at,
\* make).  Stale views, pardons and snapshots give a job no other way there.
PoisonEarned ==
  \A p \in sidecars : p.status = "Poison" =>
    \E f \in sidecars :
      /\ f.status = "Failed" /\ (~f.transient \/ f.attempts >= MaxAttempts)
      /\ f.mtime <= p.mtime /\ f.attempts + 1 = p.attempts

\* A retry is earned: the row of a run that was not the first comes after a
\* transient failure of the run before it, within the cap.  So no view, however
\* stale, lets a worker run a job more than MaxAttempts times in a row without
\* the rows to show for it.
RetryEarned ==
  \A r \in sidecars : (r.by = "worker" /\ r.status # "Poison" /\ r.attempts # 1) =>
    /\ r.attempts <= MaxAttempts
    /\ \E f \in sidecars :
         /\ f.status = "Failed" /\ f.transient
         /\ f.mtime <= r.mtime /\ f.attempts + 1 = r.attempts

\* Workers that have read all their files and not yet decided.
Readers == {w \in Workers : pass[w].phase = "fold" /\ pass[w].todo = {}}

\* Strictly the newest row of a set.
Latest(r, rows) == r \in rows /\ \A s \in rows \ {r} : s.ts < r.ts

\* The view of a finished fold is the newest row it read, in whatever order the
\* files came, unless that row is a Poison and a Done was read too
\* (LedgerView::apply).
LatestRowWins ==
  \A w \in Readers :
    \A r \in pass[w].listed :
      (/\ Latest(r, pass[w].listed)
       /\ snapshot = NoSnapshot
       /\ r.status = "Poison" => \A d \in pass[w].listed : d.status # "Done")
      => pass[w].view = r

\* Rows that landed before the pass of w began.
Landed(w) == {r \in sidecars : r.mtime < pass[w].ts}

\* Once a Done row has landed, every pass that begins later sees the job done, as
\* long as no Failed row is newer than a Done row: nothing the snapshot drops and
\* nothing the fold window leaves out brings the job back (run, snapshot_rows).
\* It asks that every file can be read: MaxUnreadable = 0.
DoneIsFinal ==
  \A w \in Readers :
    LET Dones == {d \in sidecars : d.status = "Done"}
    IN  (/\ Dones \cap Landed(w) # {}
         /\ \A f \in sidecars, d \in Dones : f.status = "Failed" => f.ts <= d.ts)
        => Plan(w) = "done"

\* A pardon works: if the newest row of all is a pardon that landed before the
\* pass began, the pass takes the job up again, snapshots or not (jobctl.rs,
\* requeue: "reconcile's transient-retry path enqueues them immediately").
PardonReopens ==
  \A w \in Readers :
    \A r \in Landed(w) :
      (Latest(r, sidecars) /\ r.by = "requeue-pardon") => Plan(w) = "enqueue"
=============================================================================
