--------------------------- MODULE JobLedgerProofs ---------------------------
(***************************************************************************)
(* The ledger of a job for every number of workers, passes, rows, attempts *)
(* and tool uses: verdicts and retries are earned, the newest row decides  *)
(* in whatever order the files are read, what is done stays done, and a    *)
(* pardon that is the newest row makes every later pass run the job again. *)
(***************************************************************************)
EXTENDS JobLedger, FiniteSetTheorems, TLAPS

\* A row landed in the past, and files are finitely many.
PastInv == IsFiniteSet(sidecars) /\ \A r \in sidecars : r.mtime <= now

\* A tool writes a row only about a row it read.
ToolInv == tool.phase = "write" => tool.view # NoRow

\* Files are left to read only in a fold.
FoldInv == \A w \in Workers : pass[w].todo # {} => pass[w].phase = "fold"

\* What a pass does next is what the reconciler said of its view.
PlanInv ==
  \A w \in Workers :
    /\ pass[w].phase \in {"enqueue", "run"} => Plan(w) = "enqueue"
    /\ pass[w].phase = "poison" => Plan(w) = "poison"

EarnedInv == PastInv /\ FoldInv /\ PlanInv /\ PoisonEarned /\ RetryEarned

-----------------------------------------------------------------------------
\* Every step changes sidecars by at most one row, which lands now.
LEMMA SidecarsGrow ==
  ASSUME TypeOK, ToolInv, [Next]_vars
  PROVE  \/ UNCHANGED sidecars
         \/ /\ UNCHANGED now
            /\ \E r \in Row : sidecars' = sidecars \cup {r} /\ r.mtime = now
<1>1. SUFFICES ASSUME sidecars' # sidecars
      PROVE  UNCHANGED now /\ \E r \in Row : sidecars' = sidecars \cup {r} /\ r.mtime = now
  OBVIOUS
<1>2. CASE \E w \in Workers : Finish(w)
  <2>1. PICK w \in Workers : Finish(w)
    BY <1>2
  <2>2. /\ pass[w].view # NoRow => pass[w].view \in Row
        /\ pass[w].ts \in Nat /\ now \in Nat
    BY DEF TypeOK, MaybeRow
  <2>3. Attempts(pass[w].view) \in Nat
    BY <2>2 DEF Attempts, Row
  <2>4. \A s \in {"Done", "Failed"}, b \in BOOLEAN : make(w, s, b) \in Row /\ make(w, s, b).mtime = now
    BY <2>2, <2>3 DEF make, Row
  <2> QED  BY <2>1, <2>4, <1>1 DEF Finish, Publish
<1>3. CASE \E w \in Workers : Poison(w)
  <2>1. PICK w \in Workers : Poison(w)
    BY <1>3
  <2>2. /\ pass[w].view # NoRow => pass[w].view \in Row
        /\ pass[w].ts \in Nat /\ now \in Nat
    BY DEF TypeOK, MaybeRow
  <2>3. Attempts(pass[w].view) \in Nat
    BY <2>2 DEF Attempts, Row
  <2>4. make(w, "Poison", FALSE) \in Row /\ make(w, "Poison", FALSE).mtime = now
    BY <2>2, <2>3 DEF make, Row
  <2> QED  BY <2>1, <2>4, <1>1 DEF Poison, Publish
<1>4. CASE WriteRow
  <2> DEFINE row == [status |-> "Failed", transient |-> TRUE, attempts |-> ToolAttempts,
                     ts |-> tool.ts, by |-> tool.kind, mtime |-> now]
  <2>1. tool.view \in Row /\ tool.kind \in Tools /\ tool.ts \in Nat /\ now \in Nat
    BY <1>4 DEF WriteRow, ToolInv, TypeOK, MaybeRow
  <2>2. ToolAttempts \in Nat
    BY <2>1 DEF ToolAttempts, Row
  <2>3. row \in Row /\ row.mtime = now
    BY <2>1, <2>2 DEF Row
  <2> QED  BY <1>4, <1>1, <2>3 DEF WriteRow, Publish
<1> QED
  BY <1>1, <1>2, <1>3, <1>4 DEF Next, vars, Tick, StartPass, Load, Fold, Reconcile,
     Claim, Skip, Crash, ReadLedger, Decide, ToolFold, Compact

\* A fold yields the old view or the row.
LEMMA ApplyEither ==
  ASSUME NEW cur, NEW row
  PROVE  apply(cur, row) \in {cur, row}
BY DEF apply

-----------------------------------------------------------------------------
\* Types and the tools' row.
LEMMA TypeInit == Init => TypeOK /\ ToolInv
<1>1. NoPass \in [phase : {"idle", "start", "fold", "enqueue", "run", "poison"},
                 ts : 0..0, listed : SUBSET {}, todo : SUBSET {}, view : {NoRow}]
  BY DEF NoPass
<1>2. NoTool \in [phase : {"idle", "fold", "write"}, kind : Tools, ts : 0..0,
                 todo : SUBSET {}, view : {NoRow}, done : {NoRow}, bad : {NoRow}]
  BY DEF NoTool, Tools
<1> SUFFICES ASSUME Init PROVE TypeOK /\ ToolInv
  OBVIOUS
<1>3. uses \in Nat
  BY ConfigAssumption DEF Init
<1>4. MaybeRow = {NoRow} /\ now = 0 /\ sidecars = {} /\ 0 \in 0..MaxNow
  BY ConfigAssumption DEF Init, MaybeRow
<1>5. ToolInv
  BY DEF Init, ToolInv, NoTool
<1>6. pass \in [Workers -> [phase : {"idle", "start", "fold", "enqueue", "run", "poison"},
                ts : 0..0, listed : SUBSET {}, todo : SUBSET {}, view : {NoRow}]]
  BY <1>1 DEF Init
<1> QED  BY <1>2, <1>3, <1>4, <1>5, <1>6 DEF Init, TypeOK

\* The type of pass, apart.
PassOK(p) ==
  p \in [phase : {"idle", "start", "fold", "enqueue", "run", "poison"}, ts : 0..now,
        listed : SUBSET sidecars, todo : SUBSET sidecars, view : MaybeRow]

LEMMA SetPass ==
  ASSUME TypeOK, NEW w \in Workers, NEW p, PassOK(p), Set(w, p)
  PROVE  \A v \in Workers : PassOK(pass'[v]) /\ pass'[v] = IF v = w THEN p ELSE pass[v]
BY DEF TypeOK, PassOK, Set

LEMMA NoPassOK == ASSUME TypeOK PROVE PassOK(NoPass)
BY DEF NoPass, PassOK, TypeOK, MaybeRow

\* What each step of a pass makes of it.
LEMMA PassSteps ==
  ASSUME TypeOK, NEW w \in Workers
  PROVE  /\ PassOK([NoPass EXCEPT !.phase = "start", !.ts = now])
         /\ \A files \in SUBSET sidecars :
              PassOK([pass[w] EXCEPT !.phase = "fold", !.view = SnapRow,
                                     !.listed = files, !.todo = files])
         /\ \A r \in pass[w].todo :
              PassOK([pass[w] EXCEPT !.todo = @ \ {r}, !.view = apply(@, r)])
         /\ \A ph \in {"enqueue", "poison"} :
              PassOK([pass[w] EXCEPT !.phase = ph, !.listed = {}])
         /\ PassOK([pass[w] EXCEPT !.phase = "run"])
<1>1. PassOK(pass[w])
  BY DEF TypeOK, PassOK
<1>2. PassOK([NoPass EXCEPT !.phase = "start", !.ts = now])
  <2>1. PassOK(NoPass) /\ now \in 0..now
    BY NoPassOK DEF TypeOK
  <2> QED  BY <2>1 DEF PassOK
<1>3. SnapRow \in MaybeRow
  BY DEF SnapRow, TypeOK, MaybeRow
<1>4. ASSUME NEW files \in SUBSET sidecars
      PROVE  PassOK([pass[w] EXCEPT !.phase = "fold", !.view = SnapRow,
                                    !.listed = files, !.todo = files])
  BY <1>1, <1>3, <1>4 DEF PassOK
<1>5. ASSUME NEW r \in pass[w].todo
      PROVE  PassOK([pass[w] EXCEPT !.todo = @ \ {r}, !.view = apply(@, r)])
  <2>1. apply(pass[w].view, r) \in MaybeRow
    BY <1>1, <1>5, ApplyEither DEF PassOK, MaybeRow
  <2> QED  BY <1>1, <2>1 DEF PassOK
<1> QED  BY <1>1, <1>2, <1>4, <1>5 DEF PassOK

\* The types of a pass and of the tool hold on as time and ledger grow.
LEMMA Time ==
  ASSUME TypeOK, ToolInv, [Next]_vars
  PROVE  /\ now' \in 0..MaxNow /\ 0..now \subseteq 0..now'
         /\ sidecars' \subseteq Row /\ sidecars \subseteq sidecars'
         /\ MaybeRow \subseteq MaybeRow'
<1>1. now' = now \/ (now < MaxNow /\ now' = now + 1)
  BY DEF Next, vars, Tick, StartPass, Load, Fold, Reconcile, Claim, Skip, Finish, Poison,
     Crash, ReadLedger, Decide, ToolFold, Compact, WriteRow
<1>2. now' \in 0..MaxNow /\ 0..now \subseteq 0..now'
  BY <1>1, ConfigAssumption DEF TypeOK
<1>3. sidecars' \subseteq Row /\ sidecars \subseteq sidecars'
  BY SidecarsGrow DEF TypeOK
<1> QED  BY <1>2, <1>3 DEF MaybeRow

\* A pass step leaves every pass well typed.
LEMMA PassType ==
  ASSUME TypeOK, ToolInv, [Next]_vars
  PROVE  pass' \in [Workers -> [phase : {"idle", "start", "fold", "enqueue", "run", "poison"},
                                ts : 0..now', listed : SUBSET sidecars',
                                todo : SUBSET sidecars', view : MaybeRow']]
<1>1. DOMAIN pass' = Workers /\ pass' = [v \in Workers |-> pass'[v]]
  BY DEF TypeOK, Next, vars, Tick, StartPass, Load, Fold, Reconcile, Claim, Skip, Finish,
     Poison, Crash, ReadLedger, Decide, ToolFold, Compact, WriteRow, Set, Leave
<1>2. ASSUME NEW w \in Workers, NEW p, PassOK(p), Set(w, p)
      PROVE  \A v \in Workers : PassOK(pass'[v])
  BY <1>2, SetPass
<1>3. ASSUME UNCHANGED pass PROVE \A v \in Workers : PassOK(pass'[v])
  BY <1>3 DEF TypeOK, PassOK
<1>4. ASSUME NEW w \in Workers, StartPass(w) PROVE \A v \in Workers : PassOK(pass'[v])
  BY <1>2, <1>4, PassSteps DEF StartPass
<1>5. ASSUME NEW w \in Workers, Load(w) PROVE \A v \in Workers : PassOK(pass'[v])
  <2>1. PICK files \in Readable(Window) :
          Set(w, [pass[w] EXCEPT !.phase = "fold", !.view = SnapRow,
                                 !.listed = files, !.todo = files])
    BY <1>5 DEF Load
  <2>2. files \in SUBSET sidecars
    BY <2>1 DEF Readable, Window
  <2> QED  BY <1>2, <2>1, <2>2, PassSteps
<1>6. ASSUME NEW w \in Workers, Fold(w) PROVE \A v \in Workers : PassOK(pass'[v])
  BY <1>2, <1>6, PassSteps DEF Fold
<1>7. ASSUME NEW w \in Workers, Reconcile(w) PROVE \A v \in Workers : PassOK(pass'[v])
  BY <1>2, <1>7, PassSteps, NoPassOK DEF Reconcile, Leave
<1>8. ASSUME NEW w \in Workers, Claim(w) PROVE \A v \in Workers : PassOK(pass'[v])
  BY <1>2, <1>8, PassSteps DEF Claim
<1>9. ASSUME NEW w \in Workers, Leave(w) PROVE \A v \in Workers : PassOK(pass'[v])
  BY <1>2, <1>9, NoPassOK DEF Leave
<1>10. \A v \in Workers : PassOK(pass'[v])
  BY <1>3, <1>4, <1>5, <1>6, <1>7, <1>8, <1>9 DEF Next, vars, Tick, Skip, Finish, Poison,
     Crash, ReadLedger, Decide, ToolFold, Compact, WriteRow
<1> QED  BY <1>1, <1>10, Time DEF PassOK

\* So does a tool's step with the tool.
LEMMA ToolType ==
  ASSUME TypeOK, ToolInv, [Next]_vars
  PROVE  /\ tool' \in [phase : {"idle", "fold", "write"}, kind : Tools, ts : 0..now',
                       todo : SUBSET sidecars', view : MaybeRow', done : MaybeRow',
                       bad : MaybeRow']
         /\ ToolInv'
<1> DEFINE OK(t) ==
      t \in [phase : {"idle", "fold", "write"}, kind : Tools, ts : 0..now,
            todo : SUBSET sidecars, view : MaybeRow, done : MaybeRow, bad : MaybeRow]
<1>1. OK(NoTool) /\ OK(tool)
  BY DEF NoTool, TypeOK, MaybeRow, Tools
<1>2. CASE UNCHANGED tool
  BY <1>1, <1>2, Time DEF ToolInv
<1>3. CASE tool' = NoTool
  BY <1>1, <1>3, Time DEF ToolInv, NoTool
<1>4. CASE \E k \in Tools : ReadLedger(k)
  <2>1. PICK k \in Tools, files \in Readable(sidecars) :
          tool' = [NoTool EXCEPT !.phase = "fold", !.kind = k, !.ts = now, !.todo = files]
    BY <1>4 DEF ReadLedger
  <2>2. files \in SUBSET sidecars /\ now \in 0..now
    BY <2>1 DEF Readable, TypeOK
  <2>3. tool'.phase = "fold"
    BY <2>1 DEF NoTool
  <2>4. OK(tool')
    BY <1>1, <2>1, <2>2
  <2> QED  BY <2>3, <2>4, Time DEF ToolInv
<1>5. CASE ToolFold
  <2>1. PICK r \in tool.todo :
          tool' = [tool EXCEPT !.todo = @ \ {r}, !.view = apply(@, r),
                               !.done = FirstDone(@, r), !.bad = NewestBad(@, r)]
    BY <1>5 DEF ToolFold
  <2>2. {apply(tool.view, r), FirstDone(tool.done, r), NewestBad(tool.bad, r)} \subseteq MaybeRow
    BY <1>1, <2>1, ApplyEither DEF FirstDone, NewestBad, MaybeRow
  <2>3. OK(tool')
    BY <1>1, <2>1, <2>2
  <2>4. apply(tool.view, r) # NoRow
    BY <1>1, <2>1, SentinelAssumption DEF apply, TypeOK
  <2>5. tool'.view = apply(tool.view, r)
    BY <1>1, <2>1
  <2> QED  BY <2>3, <2>4, <2>5, Time DEF ToolInv
<1>6. CASE \E k \in Tools : Decide(k)
  <2>1. \/ tool' = NoTool
        \/ tool' = [tool EXCEPT !.phase = "write", !.ts = now] /\ tool.view # NoRow
    BY <1>6 DEF Decide
  <2>2. CASE tool' = NoTool
    BY <2>2, <1>3
  <2>3. CASE tool' = [tool EXCEPT !.phase = "write", !.ts = now] /\ tool.view # NoRow
    <3>1. now \in 0..now
      BY DEF TypeOK
    <3>2. OK(tool') /\ tool'.view = tool.view
      BY <1>1, <2>3, <3>1
    <3> QED  BY <2>3, <3>2, Time DEF ToolInv
  <2> QED  BY <2>1, <2>2, <2>3
<1> QED
  BY <1>2, <1>3, <1>4, <1>5, <1>6 DEF Next, vars, Tick, StartPass, Load, Fold, Reconcile,
     Claim, Skip, Finish, Poison, Crash, Compact, WriteRow

LEMMA TypeStep == TypeOK /\ ToolInv /\ [Next]_vars => TypeOK' /\ ToolInv'
<1> SUFFICES ASSUME TypeOK, ToolInv, [Next]_vars PROVE TypeOK' /\ ToolInv'
  OBVIOUS
<1>1. uses' \in Nat
  <2>1. CASE UNCHANGED uses
    BY <2>1 DEF TypeOK
  <2>2. CASE \E k \in Tools : ReadLedger(k)
    BY <2>2 DEF ReadLedger, TypeOK
  <2> QED  BY <2>1, <2>2 DEF Next, vars, Tick, StartPass, Load, Fold, Reconcile, Claim, Skip, Finish,
     Poison, Crash, Decide, ToolFold, Compact, WriteRow
<1>2. snapshot' \in [row : MaybeRow', max_ts : 0..now'] \cup {NoSnapshot}
  <2>1. CASE UNCHANGED snapshot
    BY <2>1, Time DEF TypeOK
  <2>2. CASE Compact
    <3>1. snapshot_rows \in MaybeRow /\ tool.ts \in 0..now
      BY DEF snapshot_rows, TypeOK, MaybeRow
    <3>2. snapshot' \in [row : MaybeRow, max_ts : 0..now]
      BY <2>2, <3>1 DEF Compact, TypeOK
    <3> QED  BY <3>2, Time
  <2> QED
    BY <2>1, <2>2 DEF Next, vars, Tick, StartPass, Load, Fold, Reconcile, Claim, Skip,
       Finish, Poison, Crash, ReadLedger, Decide, ToolFold, WriteRow
<1>3. claim' \in [owner : Workers, ts : 0..now'] \cup {NoClaim}
  <2>1. CASE UNCHANGED claim \/ claim' = NoClaim
    BY <2>1, Time DEF TypeOK
  <2>2. CASE \E w \in Workers : Claim(w)
    BY <2>2 DEF Claim, TypeOK
  <2>3. CASE \E w \in Workers : RenewClaim(w) /\ UNCHANGED now
    BY <2>3 DEF RenewClaim, TypeOK
  <2> QED
    BY <2>1, <2>2, <2>3 DEF Next, vars, Tick, StartPass, Load, Fold, Reconcile, Skip,
       Finish, Poison, Crash, ReadLedger, Decide, ToolFold, Compact, WriteRow
<1> QED  BY <1>1, <1>2, <1>3, Time, PassType, ToolType DEF TypeOK

\* The ledger, the passes and the tools are well typed, for every number of
\* workers, rows and tool uses.
THEOREM TypeCorrect == Spec => []TypeOK
<1>1. Spec => [](TypeOK /\ ToolInv)
  BY TypeInit, TypeStep, PTL DEF Spec
<1> QED  BY <1>1, PTL

-----------------------------------------------------------------------------
(* Verdicts and retries are earned.                                        *)

LEMMA FoldStep ==
  ASSUME TypeOK, FoldInv, [Next]_vars
  PROVE  FoldInv'
<1> DEFINE OK(p) == p.todo # {} => p.phase = "fold"
<1>1. \A w \in Workers : OK(pass[w])
  BY DEF FoldInv
<1>2. ASSUME NEW w \in Workers, NEW p, Set(w, p), OK(p) PROVE \A v \in Workers : OK(pass'[v])
  <2>1. \A v \in Workers : pass'[v] = IF v = w THEN p ELSE pass[v]
    BY <1>2 DEF Set, TypeOK
  <2> QED  BY <1>1, <1>2, <2>1
<1>3. OK(NoPass)
  BY DEF NoPass
<1>4. ASSUME NEW w \in Workers, StartPass(w) PROVE \A v \in Workers : OK(pass'[v])
  BY <1>2, <1>4 DEF StartPass, NoPass
<1>5. ASSUME NEW w \in Workers, Load(w) PROVE \A v \in Workers : OK(pass'[v])
  <2>1. PICK files : Set(w, [pass[w] EXCEPT !.phase = "fold", !.view = SnapRow,
                                            !.listed = files, !.todo = files])
    BY <1>5 DEF Load
  <2>2. OK([pass[w] EXCEPT !.phase = "fold", !.view = SnapRow,
                           !.listed = files, !.todo = files])
    BY DEF TypeOK
  <2> QED  BY <1>2, <2>1, <2>2
<1>6. ASSUME NEW w \in Workers, Fold(w) PROVE \A v \in Workers : OK(pass'[v])
  <2>1. PICK r \in pass[w].todo :
          Set(w, [pass[w] EXCEPT !.todo = @ \ {r}, !.view = apply(@, r)])
    BY <1>6 DEF Fold
  <2>2. OK([pass[w] EXCEPT !.todo = @ \ {r}, !.view = apply(@, r)])
    BY <1>1, <2>1 DEF TypeOK
  <2> QED  BY <1>2, <2>1, <2>2
<1>7. ASSUME NEW w \in Workers, NEW ph, Quiet,
             \/ Set(w, [pass[w] EXCEPT !.phase = ph, !.listed = {}])
             \/ Set(w, [pass[w] EXCEPT !.phase = ph])
      PROVE  \A v \in Workers : OK(pass'[v])
  <2>1. /\ OK([pass[w] EXCEPT !.phase = ph, !.listed = {}])
        /\ OK([pass[w] EXCEPT !.phase = ph])
    BY <1>7 DEF TypeOK, Quiet
  <2> QED  BY <1>2, <1>7, <2>1
<1>8. ASSUME NEW w \in Workers, Leave(w) PROVE \A v \in Workers : OK(pass'[v])
  BY <1>2, <1>3, <1>8 DEF Leave
<1>9. ASSUME UNCHANGED pass PROVE \A v \in Workers : OK(pass'[v])
  BY <1>1, <1>9
<1> QED
  BY <1>4, <1>5, <1>6, <1>7, <1>8, <1>9 DEF Next, vars, Tick, Reconcile, Claim, Skip,
     Finish, Poison, Crash, ReadLedger, Decide, ToolFold, Compact, WriteRow, FoldInv

LEMMA PlanStep ==
  ASSUME TypeOK, FoldInv, PlanInv, [Next]_vars
  PROVE  PlanInv'
<1> DEFINE OK(p) ==
      /\ p.phase \in {"enqueue", "run"} => reconcile_at(p.view, p.ts) = "enqueue"
      /\ p.phase = "poison" => reconcile_at(p.view, p.ts) = "poison"
<1>1. \A w \in Workers : OK(pass[w])
  BY DEF PlanInv, Plan
<1>2. ASSUME NEW w \in Workers, NEW p, Set(w, p), OK(p) PROVE \A v \in Workers : OK(pass'[v])
  <2>1. \A v \in Workers : pass'[v] = IF v = w THEN p ELSE pass[v]
    BY <1>2 DEF Set, TypeOK
  <2> QED  BY <1>1, <1>2, <2>1
<1>3. OK(NoPass)
  BY DEF NoPass
<1>4. ASSUME NEW w \in Workers, StartPass(w) PROVE \A v \in Workers : OK(pass'[v])
  BY <1>2, <1>4 DEF StartPass, NoPass
<1>5. ASSUME NEW w \in Workers, Load(w) PROVE \A v \in Workers : OK(pass'[v])
  <2>1. PICK files : Set(w, [pass[w] EXCEPT !.phase = "fold", !.view = SnapRow,
                                            !.listed = files, !.todo = files])
    BY <1>5 DEF Load
  <2>2. [pass[w] EXCEPT !.phase = "fold", !.view = SnapRow,
                        !.listed = files, !.todo = files].phase = "fold"
    BY DEF TypeOK
  <2> QED  BY <1>2, <2>1, <2>2
<1>6. ASSUME NEW w \in Workers, Fold(w) PROVE \A v \in Workers : OK(pass'[v])
  <2>1. PICK r \in pass[w].todo :
          Set(w, [pass[w] EXCEPT !.todo = @ \ {r}, !.view = apply(@, r)])
    BY <1>6 DEF Fold
  <2>2. [pass[w] EXCEPT !.todo = @ \ {r}, !.view = apply(@, r)].phase = "fold"
    BY <2>1 DEF TypeOK, FoldInv
  <2> QED  BY <1>2, <2>1, <2>2
<1>7. ASSUME NEW w \in Workers, Reconcile(w) PROVE \A v \in Workers : OK(pass'[v])
  <2>1. CASE Leave(w)
    BY <1>2, <1>3, <2>1 DEF Leave
  <2>2. CASE Plan(w) \in {"enqueue", "poison"}
             /\ Set(w, [pass[w] EXCEPT !.phase = Plan(w), !.listed = {}])
    <3>1. OK([pass[w] EXCEPT !.phase = Plan(w), !.listed = {}])
      BY <2>2 DEF TypeOK, Plan
    <3> QED  BY <1>2, <2>2, <3>1
  <2> QED  BY <1>7, <2>1, <2>2 DEF Reconcile
<1>8. ASSUME NEW w \in Workers, Claim(w) PROVE \A v \in Workers : OK(pass'[v])
  <2>1. OK([pass[w] EXCEPT !.phase = "run"])
    BY <1>1, <1>8 DEF Claim, TypeOK
  <2> QED  BY <1>2, <1>8, <2>1 DEF Claim
<1>9. ASSUME NEW w \in Workers, Leave(w) PROVE \A v \in Workers : OK(pass'[v])
  BY <1>2, <1>3, <1>9 DEF Leave
<1>10. ASSUME UNCHANGED pass PROVE \A v \in Workers : OK(pass'[v])
  BY <1>1, <1>10
<1> QED
  BY <1>4, <1>5, <1>6, <1>7, <1>8, <1>9, <1>10 DEF Next, vars, Tick, Skip, Finish,
     Poison, Crash, ReadLedger, Decide, ToolFold, Compact, WriteRow, PlanInv, Plan

\* A view is of a row that landed.
LEMMA PastStep ==
  ASSUME TypeOK, ToolInv, PastInv, [Next]_vars
  PROVE  PastInv'
<1>1. now' \in Nat /\ now \in Nat /\ now <= now'
  BY Time, ConfigAssumption DEF TypeOK
<1>2. CASE UNCHANGED sidecars
  BY <1>1, <1>2 DEF PastInv, TypeOK, Row
<1>3. CASE UNCHANGED now /\ \E r \in Row : sidecars' = sidecars \cup {r} /\ r.mtime = now
  <2>1. PICK r \in Row : sidecars' = sidecars \cup {r} /\ r.mtime = now
    BY <1>3
  <2>2. IsFiniteSet(sidecars')
    BY <2>1, FS_AddElement DEF PastInv
  <2> QED  BY <1>1, <1>3, <2>1, <2>2 DEF PastInv
<1> QED  BY <1>2, <1>3, SidecarsGrow

\* What earns one row its verdict and its count.
Earned(p) ==
  /\ p.status = "Poison" =>
       \E f \in sidecars :
         /\ f.status = "Failed" /\ (~f.transient \/ f.attempts >= MaxAttempts)
         /\ f.mtime <= p.mtime /\ f.attempts + 1 = p.attempts
  /\ (p.by = "worker" /\ p.status # "Poison" /\ p.attempts # 1) =>
       /\ p.attempts <= MaxAttempts
       /\ \E f \in sidecars :
            /\ f.status = "Failed" /\ f.transient
            /\ f.mtime <= p.mtime /\ f.attempts + 1 = p.attempts

\* The view a pass decided on was a row that had landed, or none.
LEMMA EnqueuedView ==
  ASSUME TypeOK, PlanInv, NEW w \in Workers, pass[w].phase = "run"
  PROVE  \/ pass[w].view = NoRow
         \/ /\ pass[w].view \in sidecars /\ pass[w].view \in Row
            /\ pass[w].view.status = "Failed" /\ pass[w].view.transient
            /\ pass[w].view.attempts < MaxAttempts
<1>1. pass[w].view \in MaybeRow /\ sidecars \subseteq Row
  BY DEF TypeOK
<1>2. reconcile_at(pass[w].view, pass[w].ts) = "enqueue"
  BY DEF PlanInv, Plan
<1> QED  BY <1>1, <1>2 DEF MaybeRow, reconcile_at, RetryDue, Row

LEMMA PoisonedView ==
  ASSUME TypeOK, PlanInv, NEW w \in Workers, pass[w].phase = "poison"
  PROVE  /\ pass[w].view # NoRow
         /\ pass[w].view \in sidecars /\ pass[w].view \in Row
         /\ pass[w].view.status = "Failed"
         /\ ~pass[w].view.transient \/ pass[w].view.attempts >= MaxAttempts
<1>1. pass[w].view \in MaybeRow /\ sidecars \subseteq Row
  BY DEF TypeOK
<1>2. reconcile_at(pass[w].view, pass[w].ts) = "poison"
  BY DEF PlanInv, Plan
<1>3. pass[w].view # NoRow
  BY <1>2 DEF reconcile_at
<1>4. pass[w].view.status = "Failed" /\ ~RetryDue(pass[w].view)
  BY <1>1, <1>2, <1>3 DEF MaybeRow, reconcile_at, Row
<1>5. pass[w].view.attempts \in Nat
  BY <1>1, <1>3 DEF MaybeRow, Row
<1> QED  BY <1>1, <1>3, <1>4, <1>5, ConfigAssumption DEF MaybeRow, RetryDue

LEMMA EarnedRow ==
  ASSUME TypeOK, ToolInv, PastInv, PlanInv, [Next]_vars, sidecars' # sidecars
  PROVE  \E r : sidecars' = sidecars \cup {r} /\ Earned(r)
<1>1. now \in Nat /\ \A f \in sidecars : f.mtime <= now
  BY DEF TypeOK, PastInv
<1>2. ASSUME NEW w \in Workers, Finish(w)
      PROVE  \E r : sidecars' = sidecars \cup {r} /\ Earned(r)
  <2>1. PICK s \in {"Done", "Failed"}, b \in BOOLEAN :
          sidecars' = sidecars \cup {make(w, s, b)}
    BY <1>2 DEF Finish, Publish
  <2> DEFINE r == make(w, s, b)
  <2>2. /\ r.status # "Poison" /\ r.mtime = now
        /\ r.attempts = Attempts(pass[w].view)
    BY DEF make
  <2>3. CASE pass[w].view = NoRow
    BY <2>1, <2>2, <2>3 DEF Attempts, Earned
  <2>4. CASE pass[w].view # NoRow
    <3>1. /\ pass[w].view \in sidecars /\ pass[w].view \in Row
          /\ pass[w].view.status = "Failed" /\ pass[w].view.transient
          /\ pass[w].view.attempts < MaxAttempts
      BY <1>2, <2>4, EnqueuedView DEF Finish
    <3>2. r.attempts = pass[w].view.attempts + 1 /\ r.attempts <= MaxAttempts
      BY <2>2, <2>4, <3>1, ConfigAssumption DEF Attempts, Row
    <3>3. Earned(r)
      BY <1>1, <2>2, <3>1, <3>2 DEF Earned
    <3> QED  BY <2>1, <3>3
  <2> QED  BY <2>3, <2>4
<1>3. ASSUME NEW w \in Workers, Poison(w)
      PROVE  \E r : sidecars' = sidecars \cup {r} /\ Earned(r)
  <2> DEFINE r == make(w, "Poison", FALSE)
  <2>1. sidecars' = sidecars \cup {r}
    BY <1>3 DEF Poison, Publish
  <2>2. /\ r.status = "Poison" /\ r.mtime = now
        /\ r.attempts = Attempts(pass[w].view)
    BY DEF make
  <2>3. /\ pass[w].view # NoRow /\ pass[w].view \in sidecars
        /\ pass[w].view.status = "Failed"
        /\ ~pass[w].view.transient \/ pass[w].view.attempts >= MaxAttempts
    BY <1>3, PoisonedView DEF Poison
  <2>4. Earned(r)
    BY <1>1, <2>2, <2>3 DEF Attempts, Earned
  <2> QED  BY <2>1, <2>4
<1>4. CASE WriteRow
  <2> DEFINE r == [status |-> "Failed", transient |-> TRUE, attempts |-> ToolAttempts,
                   ts |-> tool.ts, by |-> tool.kind, mtime |-> now]
  <2>1. sidecars' = sidecars \cup {r}
    BY <1>4 DEF WriteRow, Publish
  <2>2. r.status = "Failed" /\ r.by = tool.kind /\ tool.kind # "worker"
    BY DEF TypeOK, Tools
  <2> QED  BY <2>1, <2>2 DEF Earned
<1> QED
  BY <1>2, <1>3, <1>4 DEF Next, vars, Tick, StartPass, Load, Fold, Reconcile,
     Claim, Skip, Crash, ReadLedger, Decide, ToolFold, Compact

LEMMA EarnedStep ==
  TypeOK /\ ToolInv /\ EarnedInv /\ [Next]_vars => EarnedInv'
<1> SUFFICES ASSUME TypeOK, ToolInv, EarnedInv, [Next]_vars PROVE EarnedInv'
  OBVIOUS
<1>1. PastInv' /\ FoldInv' /\ PlanInv'
  BY PastStep, FoldStep, PlanStep DEF EarnedInv
<1>2. \A p \in sidecars' : Earned(p)
  <2>1. \A p \in sidecars : Earned(p)
    BY DEF EarnedInv, PoisonEarned, RetryEarned, Earned
  <2> QED  BY <2>1, EarnedRow DEF EarnedInv
<1>3. sidecars \subseteq sidecars'
  BY Time
<1> QED  BY <1>1, <1>2, <1>3 DEF EarnedInv, PoisonEarned, RetryEarned, Earned

LEMMA EarnedAlways == Spec => [](TypeOK /\ ToolInv /\ EarnedInv)
<1>1. Init => EarnedInv
  BY FS_EmptySet DEF Init, EarnedInv, PastInv, FoldInv, PlanInv, PoisonEarned, RetryEarned,
     NoPass
<1> QED  BY <1>1, TypeInit, TypeStep, EarnedStep, PTL DEF Spec

\* No job is poisoned without a failure that cannot be retried.
THEOREM PoisonIsEarned == Spec => []PoisonEarned
<1>1. EarnedInv => PoisonEarned
  BY DEF EarnedInv
<1> QED  BY <1>1, EarnedAlways, PTL

\* No job is run again without a failure that can be retried.
THEOREM RetryIsEarned == Spec => []RetryEarned
<1>1. EarnedInv => RetryEarned
  BY DEF EarnedInv
<1> QED  BY <1>1, EarnedAlways, PTL

-----------------------------------------------------------------------------
(* The order of the files.                                                 *)

\* The newest row of a listing, where the fold's order cannot matter.
Decides(r, rows) ==
  /\ Latest(r, rows)
  /\ r.status = "Poison" => \A d \in rows : d.status # "Done"

\* Half way through a fold the view is a row already read, and the deciding row
\* once that is read.
FoldedOK(p) ==
  /\ p.todo \subseteq p.listed
  /\ p.view = NoRow => p.todo = p.listed
  /\ p.view # NoRow => p.view \in p.listed \ p.todo
  /\ \A r \in p.listed \ p.todo : Decides(r, p.listed) => p.view = r

OrderInv ==
  snapshot = NoSnapshot =>
    \A w \in Workers : pass[w].phase = "fold" => FoldedOK(pass[w])

\* One more file.
LEMMA FoldOrder ==
  ASSUME NEW listed \in SUBSET Row, NEW todo \in SUBSET listed, NEW r \in todo,
         NEW view \in (listed \ todo) \cup {NoRow},
         view = NoRow => todo = listed,
         \A x \in listed \ todo : Decides(x, listed) => view = x,
         NEW x \in listed \ (todo \ {r}), Decides(x, listed)
  PROVE  apply(view, r) = x
<1>1. CASE view = NoRow
  BY <1>1 DEF apply
<1>2. CASE view # NoRow /\ x = r
  <2>1. view \in Row /\ r \in Row /\ view \in listed /\ view # r /\ view.ts < r.ts
    BY <1>2 DEF Decides, Latest
  <2>2. ~(view.status = "Done" /\ r.status = "Poison")
    BY <1>2, <2>1 DEF Decides
  <2>3. Newer(r, view)
    BY <2>1 DEF Newer, Row
  <2>4. Keeps(view, r)
    BY <2>2, <2>3 DEF Keeps
  <2> QED  BY <1>2, <2>4 DEF apply
<1>3. CASE view # NoRow /\ x # r
  <2>1. view = x /\ x \in Row /\ r \in Row /\ r \in listed
    BY <1>3
  <2>2. r.ts < x.ts /\ r.ts \in Nat /\ x.ts \in Nat
    BY <1>3, <2>1 DEF Decides, Latest, Row
  <2>3. ~(x.status = "Poison" /\ r.status = "Done")
    BY <2>1 DEF Decides
  <2>4. ~Newer(r, x)
    BY <2>2 DEF Newer
  <2>5. ~Keeps(x, r)
    BY <2>3, <2>4 DEF Keeps
  <2> QED  BY <1>3, <2>1, <2>5 DEF apply
<1> QED  BY <1>1, <1>2, <1>3

LEMMA OrderStep ==
  ASSUME TypeOK, OrderInv, FoldInv, [Next]_vars
  PROVE  OrderInv'
<1> SUFFICES ASSUME snapshot' = NoSnapshot
             PROVE  \A w \in Workers : pass'[w].phase = "fold" => FoldedOK(pass'[w])
  BY DEF OrderInv
<1> DEFINE OK(p) == p.phase = "fold" => FoldedOK(p)
<1>1. ~Compact /\ snapshot = NoSnapshot
  <2>1. ASSUME Compact PROVE FALSE
    <3>1. PICK m \in 0..tool.ts : snapshot' = [row |-> snapshot_rows, max_ts |-> m]
      BY <2>1 DEF Compact
    <3>2. snapshot_rows \in Row \cup {NoRow} /\ m \in Nat
      BY DEF snapshot_rows, TypeOK, MaybeRow
    <3>3. snapshot' \in [row : Row \cup {NoRow}, max_ts : Nat]
      BY <3>1, <3>2
    <3> QED  BY <3>3, SentinelAssumption
  <2> QED
    BY <2>1 DEF Next, vars, Tick, StartPass, Load, Fold, Reconcile, Claim, Skip,
       Finish, Poison, Crash, ReadLedger, Decide, ToolFold, WriteRow
<1>2. \A w \in Workers : OK(pass[w])
  BY <1>1 DEF OrderInv
<1>3. ASSUME NEW w \in Workers, NEW p, Set(w, p), OK(p) PROVE \A v \in Workers : OK(pass'[v])
  <2>1. \A v \in Workers : pass'[v] = IF v = w THEN p ELSE pass[v]
    BY <1>3 DEF Set, TypeOK
  <2> QED  BY <1>2, <1>3, <2>1
<1>4. ASSUME NEW w \in Workers, StartPass(w) PROVE \A v \in Workers : OK(pass'[v])
  <2>1. [NoPass EXCEPT !.phase = "start", !.ts = now].phase = "start"
    BY DEF NoPass
  <2> QED  BY <1>3, <1>4, <2>1 DEF StartPass
<1>5. ASSUME NEW w \in Workers, Load(w) PROVE \A v \in Workers : OK(pass'[v])
  <2>1. PICK files \in Readable(Window) :
          Set(w, [pass[w] EXCEPT !.phase = "fold", !.view = SnapRow,
                                 !.listed = files, !.todo = files])
    BY <1>5 DEF Load
  <2> DEFINE p == [pass[w] EXCEPT !.phase = "fold", !.view = SnapRow,
                                  !.listed = files, !.todo = files]
  <2>2. p.todo = files /\ p.listed = files /\ p.view = NoRow
    BY <1>1 DEF TypeOK, SnapRow
  <2>3. FoldedOK(p)
    BY <2>2 DEF FoldedOK
  <2> QED  BY <1>3, <2>1, <2>3
<1>6. ASSUME NEW w \in Workers, Fold(w) PROVE \A v \in Workers : OK(pass'[v])
  <2>1. PICK r \in pass[w].todo :
          Set(w, [pass[w] EXCEPT !.todo = @ \ {r}, !.view = apply(@, r)])
    BY <1>6 DEF Fold
  <2> DEFINE p == [pass[w] EXCEPT !.todo = @ \ {r}, !.view = apply(@, r)]
  <2>2. /\ p.todo = pass[w].todo \ {r} /\ p.listed = pass[w].listed
        /\ p.view = apply(pass[w].view, r)
    BY DEF TypeOK
  <2>3. FoldedOK(pass[w])
    BY <1>2, <2>1 DEF FoldInv
  <2>4. pass[w].listed \in SUBSET Row /\ NoRow \notin Row
    BY SentinelAssumption DEF TypeOK
  <2>5. \A x \in p.listed \ p.todo : Decides(x, p.listed) => p.view = x
    BY <2>1, <2>2, <2>3, <2>4, FoldOrder DEF FoldedOK
  <2>6. apply(pass[w].view, r) \in {pass[w].view, r} /\ (pass[w].view = NoRow => apply(pass[w].view, r) = r)
    BY ApplyEither DEF apply
  <2>7. FoldedOK(p)
    BY <2>1, <2>2, <2>3, <2>4, <2>5, <2>6 DEF FoldedOK
  <2> QED  BY <1>3, <2>1, <2>7
<1>7. ASSUME NEW w \in Workers, NEW ph \in {"enqueue", "poison", "run"},
             \/ Set(w, [pass[w] EXCEPT !.phase = ph, !.listed = {}])
             \/ Set(w, [pass[w] EXCEPT !.phase = ph])
      PROVE  \A v \in Workers : OK(pass'[v])
  <2>1. /\ [pass[w] EXCEPT !.phase = ph, !.listed = {}].phase # "fold"
        /\ [pass[w] EXCEPT !.phase = ph].phase # "fold"
    BY DEF TypeOK
  <2> QED  BY <1>3, <1>7, <2>1
<1>8. ASSUME NEW w \in Workers, Leave(w) PROVE \A v \in Workers : OK(pass'[v])
  BY <1>3, <1>8 DEF Leave, NoPass
<1>9. ASSUME UNCHANGED pass PROVE \A v \in Workers : OK(pass'[v])
  BY <1>2, <1>9
<1> QED
  BY <1>1, <1>4, <1>5, <1>6, <1>7, <1>8, <1>9 DEF Next, vars, Tick, Reconcile, Claim, Skip,
     Finish, Poison, Crash, ReadLedger, Decide, ToolFold, WriteRow

\* In whatever order a pass reads the files, the newest row decides, for every
\* number of rows and workers.
THEOREM NewestRowDecides == Spec => []LatestRowWins
<1>1. Init => OrderInv
  BY DEF Init, OrderInv, NoPass
<1>2. TypeOK /\ EarnedInv /\ OrderInv /\ [Next]_vars => OrderInv'
  BY OrderStep DEF EarnedInv
<1>3. TypeOK /\ OrderInv => LatestRowWins
  BY DEF OrderInv, LatestRowWins, Readers, FoldedOK, Decides
<1> QED  BY <1>1, <1>2, <1>3, EarnedAlways, PTL DEF Spec

-----------------------------------------------------------------------------
(* What is done stays done.                                                *)

\* No failure is newer than a completion.
Calm ==
  \A f, d \in sidecars : (f.status = "Failed" /\ d.status = "Done") => f.ts <= d.ts

IsDone(view) == view # NoRow /\ view.status = "Done"

\* Every completion that landed before time t is still to be read, or shows.
Seen(t, todo, view) ==
  \A d \in sidecars : (d.status = "Done" /\ d.mtime < t) =>
    d \in todo \/ (Calm => IsDone(view))

PassSeen ==
  \A w \in Workers : pass[w].phase = "fold" => Seen(pass[w].ts, pass[w].todo, pass[w].view)

ToolSeen ==
  tool.phase = "fold" =>
    /\ Seen(tool.ts, tool.todo, tool.view)
    /\ tool.done # NoRow => tool.done.status = "Done"
    /\ IsDone(tool.view) => tool.done # NoRow

\* A completion that the fold window leaves out is in the snapshot.
SnapSeen ==
  snapshot # NoSnapshot =>
    \A d \in sidecars : (d.status = "Done" /\ d.mtime + Margin < snapshot.max_ts) =>
      (Calm => IsDone(snapshot.row))

SeenInv == PassSeen /\ ToolSeen /\ SnapSeen

\* In a calm ledger a fold that meets a completion shows it from then on.
LEMMA CalmFold ==
  ASSUME TypeOK, Calm, NEW r \in sidecars, NEW view \in MaybeRow,
         IsDone(view) \/ r.status = "Done"
  PROVE  IsDone(apply(view, r))
<1>1. r \in Row /\ r # NoRow
  BY SentinelAssumption DEF TypeOK
<1>2. CASE view = NoRow
  BY <1>1, <1>2 DEF apply, IsDone
<1>3. CASE view # NoRow /\ view.status = "Done" /\ r.status # "Done"
  <2>1. view \in sidecars /\ view \in Row
    BY <1>3 DEF MaybeRow, TypeOK
  <2>2. r.status \in {"Failed", "Poison"}
    BY <1>1, <1>3 DEF Row
  <2>3. ~Keeps(view, r)
    <3>1. CASE r.status = "Poison"
      BY <1>3, <3>1 DEF Keeps
    <3>2. CASE r.status = "Failed"
      <4>1. r.ts <= view.ts
        BY <1>3, <2>1, <3>2 DEF Calm
      <4>2. ~Newer(r, view)
        BY <1>1, <1>3, <2>1, <3>2, <4>1 DEF Newer, rank, Row
      <4> QED  BY <1>3, <3>2, <4>2 DEF Keeps
    <3> QED  BY <2>2, <3>1, <3>2
  <2> QED  BY <1>3, <2>3 DEF apply, IsDone
<1>4. CASE view # NoRow /\ r.status = "Done"
  <2>1. view \in sidecars /\ view \in Row
    BY <1>4 DEF MaybeRow, TypeOK
  <2>2. CASE view.status = "Done"
    BY <1>1, <1>4, <2>2 DEF apply, IsDone
  <2>3. CASE view.status = "Poison"
    BY <1>1, <1>4, <2>3 DEF apply, IsDone, Keeps
  <2>4. CASE view.status = "Failed"
    <3>1. view.ts <= r.ts
      BY <1>4, <2>1, <2>4 DEF Calm
    <3>2. Newer(r, view)
      BY <1>1, <1>4, <2>1, <2>4, <3>1 DEF Newer, rank, Row
    <3>3. Keeps(view, r)
      BY <1>4, <2>4, <3>2 DEF Keeps
    <3> QED  BY <1>1, <1>4, <3>3 DEF apply, IsDone
  <2> QED  BY <2>1, <2>2, <2>3, <2>4 DEF Row
<1> QED  BY <1>2, <1>3, <1>4 DEF IsDone

\* One more file read.
LEMMA SeenFold ==
  ASSUME TypeOK, NEW t, NEW todo \in SUBSET sidecars, NEW view \in MaybeRow,
         Seen(t, todo, view), NEW r \in todo
  PROVE  Seen(t, todo \ {r}, apply(view, r))
BY CalmFold DEF Seen

\* Time and new rows take nothing away from what was seen.
LEMMA SeenGrows ==
  ASSUME TypeOK, ToolInv, [Next]_vars, NEW t \in 0..now, NEW todo, NEW view,
         Seen(t, todo, view)
  PROVE  Seen(t, todo, view)'
<1>1. Calm' => Calm
  BY Time DEF Calm
<1>2. \A d \in sidecars' : d.mtime < t => d \in sidecars
  <2>1. now \in Nat
    BY DEF TypeOK
  <2> QED  BY <2>1, SidecarsGrow
<1> QED  BY <1>1, <1>2 DEF Seen, IsDone

\* All readable files are all files when none is unreadable.
LEMMA AllReadable ==
  ASSUME MaxUnreadable = 0, NEW files, IsFiniteSet(files), NEW some \in Readable(files)
  PROVE  some = files
<1>1. PICK bad \in SUBSET files : Cardinality(bad) <= 0 /\ some = files \ bad
  BY DEF Readable
<1>2. IsFiniteSet(bad)
  BY <1>1, FS_Subset
<1>3. Cardinality(bad) \in Nat
  BY <1>2, FS_CardinalityType
<1>4. bad = {}
  BY <1>1, <1>2, <1>3, FS_EmptySet
<1> QED  BY <1>1, <1>4

LEMMA SnapSeenStep ==
  ASSUME TypeOK, ToolInv, SeenInv, [Next]_vars
  PROVE  SnapSeen'
<1>1. Calm' => Calm
  BY Time DEF Calm
<1>2. now \in Nat /\ Margin \in Nat
  BY ConfigAssumption DEF TypeOK
<1>3. CASE UNCHANGED snapshot
  <2> SUFFICES ASSUME snapshot # NoSnapshot, NEW d \in sidecars', d.status = "Done",
                      d.mtime + Margin < snapshot.max_ts, Calm'
               PROVE  IsDone(snapshot.row)
    BY <1>3 DEF SnapSeen, IsDone
  <2>1. snapshot.max_ts \in 0..now
    BY DEF TypeOK
  <2>2. d \in sidecars
    <3>1. ASSUME NEW r \in Row, r.mtime = now, d = r PROVE FALSE
      BY <1>2, <2>1, <3>1
    <3> QED  BY <3>1, SidecarsGrow
  <2> QED  BY <1>1, <2>2 DEF SeenInv, SnapSeen
<1>4. CASE Compact
  <2>1. PICK m \in 0..tool.ts : snapshot' = [row |-> snapshot_rows, max_ts |-> m]
    BY <1>4 DEF Compact
  <2>2. sidecars' = sidecars /\ tool.phase = "fold" /\ tool.todo = {}
    BY <1>4 DEF Compact, Ready, Quiet
  <2> SUFFICES ASSUME NEW d \in sidecars, d.status = "Done", d.mtime + Margin < m, Calm
               PROVE  IsDone(snapshot_rows)
    BY <1>1, <2>1, <2>2 DEF SnapSeen, IsDone
  <2>3. d.mtime < tool.ts
    <3>1. d.mtime \in Nat /\ tool.ts \in Nat /\ m \in Nat /\ m <= tool.ts
      BY DEF TypeOK, Row
    <3> QED  BY <1>2, <3>1
  <2>4. IsDone(tool.view)
    BY <2>2, <2>3 DEF SeenInv, ToolSeen, Seen
  <2>5. tool.done # NoRow /\ tool.done.status = "Done"
    BY <2>2, <2>4 DEF SeenInv, ToolSeen
  <2> QED  BY <2>4, <2>5 DEF snapshot_rows, IsDone
<1> QED
  BY <1>3, <1>4 DEF Next, vars, Tick, StartPass, Load, Fold, Reconcile, Claim, Skip,
     Finish, Poison, Crash, ReadLedger, Decide, ToolFold, WriteRow

LEMMA ToolSeenStep ==
  ASSUME TypeOK, ToolInv, PastInv, SeenInv, [Next]_vars, MaxUnreadable = 0
  PROVE  ToolSeen'
<1>1. CASE UNCHANGED tool
  <2> SUFFICES ASSUME tool.phase = "fold" PROVE ToolSeen'
    BY <1>1 DEF ToolSeen
  <2>1. tool.ts \in 0..now /\ Seen(tool.ts, tool.todo, tool.view)
    BY DEF TypeOK, SeenInv, ToolSeen
  <2>2. ASSUME NEW t \in 0..now, NEW todo, NEW view, Seen(t, todo, view),
               tool' = tool, t = tool.ts, todo = tool.todo, view = tool.view
        PROVE  \A d \in sidecars' : (d.status = "Done" /\ d.mtime < t) =>
                 d \in todo \/ (Calm' => IsDone(view))
    BY <2>2, SeenGrows DEF Seen, IsDone
  <2> QED  BY <1>1, <2>1, <2>2 DEF ToolSeen, Seen, SeenInv, IsDone
<1>2. CASE tool' = NoTool
  BY <1>2 DEF ToolSeen, NoTool
<1>3. CASE \E k \in Tools : ReadLedger(k)
  <2>1. PICK k \in Tools, files \in Readable(sidecars) :
          /\ tool' = [NoTool EXCEPT !.phase = "fold", !.kind = k, !.ts = now, !.todo = files]
          /\ UNCHANGED sidecars
    BY <1>3 DEF ReadLedger
  <2>2. files = sidecars
    BY <2>1, AllReadable DEF PastInv
  <2>3. tool'.todo = sidecars' /\ tool'.view = NoRow /\ tool'.done = NoRow
    BY <2>1, <2>2 DEF NoTool
  <2> QED  BY <2>3 DEF ToolSeen, Seen, IsDone
<1>4. CASE ToolFold
  <2>1. PICK r \in tool.todo :
          tool' = [tool EXCEPT !.todo = @ \ {r}, !.view = apply(@, r),
                               !.done = FirstDone(@, r), !.bad = NewestBad(@, r)]
    BY <1>4 DEF ToolFold
  <2>2. /\ tool'.ts = tool.ts /\ tool'.todo = tool.todo \ {r}
        /\ tool'.view = apply(tool.view, r) /\ tool'.done = FirstDone(tool.done, r)
        /\ tool'.phase = tool.phase
    BY <2>1 DEF TypeOK
  <2>3. UNCHANGED sidecars
    BY <1>4 DEF ToolFold
  <2> SUFFICES ASSUME tool.phase = "fold" PROVE ToolSeen'
    BY <2>2 DEF ToolSeen
  <2>4. tool.todo \in SUBSET sidecars /\ tool.view \in MaybeRow
    BY DEF TypeOK
  <2>5. Seen(tool.ts, tool.todo \ {r}, apply(tool.view, r))
    BY <2>1, <2>4, SeenFold DEF SeenInv, ToolSeen
  <2>6. Seen(tool.ts, tool.todo, tool.view)'
    BY <2>2, <2>3, <2>5 DEF Seen, Calm, IsDone
  <2>7. r # NoRow
    BY <2>4, SentinelAssumption DEF TypeOK
  <2>8. /\ tool'.done # NoRow => tool'.done.status = "Done"
        /\ IsDone(tool'.view) => tool'.done # NoRow
    BY <2>2, <2>7, ApplyEither DEF SeenInv, ToolSeen, FirstDone, IsDone
  <2> QED  BY <2>6, <2>8 DEF ToolSeen, IsDone
<1>5. CASE \E k \in Tools : Decide(k)
  <2>1. tool' = NoTool \/ tool' = [tool EXCEPT !.phase = "write", !.ts = now]
    BY <1>5 DEF Decide
  <2>2. NoTool.phase # "fold" /\ [tool EXCEPT !.phase = "write", !.ts = now].phase # "fold"
    <3>1. DOMAIN tool = {"phase", "kind", "ts", "todo", "view", "done", "bad"}
      BY DEF TypeOK
    <3>2. [tool EXCEPT !.phase = "write", !.ts = now].phase = "write"
      BY <3>1
    <3> QED  BY <3>2 DEF NoTool
  <2>3. tool'.phase # "fold"
    BY <2>1, <2>2
  <2> QED  BY <2>3 DEF ToolSeen
<1> QED
  BY <1>1, <1>2, <1>3, <1>4, <1>5 DEF Next, vars, Tick, StartPass, Load, Fold, Reconcile,
     Claim, Skip, Finish, Poison, Crash, Compact, WriteRow

LEMMA PassSeenStep ==
  ASSUME TypeOK, ToolInv, PastInv, FoldInv, SeenInv, [Next]_vars, MaxUnreadable = 0
  PROVE  PassSeen'
<1> DEFINE OK(p) == p.phase = "fold" => Seen(p.ts, p.todo, p.view)
<1>1. \A w \in Workers : OK(pass[w])
  BY DEF SeenInv, PassSeen
<1>2. ASSUME NEW w \in Workers, NEW p, Set(w, p), OK(p), UNCHANGED sidecars
      PROVE  PassSeen'
  <2>1. \A v \in Workers : pass'[v] = IF v = w THEN p ELSE pass[v]
    BY <1>2 DEF Set, TypeOK
  <2> QED  BY <1>1, <1>2, <2>1 DEF PassSeen, Seen, Calm, IsDone
<1>3. ASSUME NEW w \in Workers, StartPass(w) PROVE PassSeen'
  <2>1. OK([NoPass EXCEPT !.phase = "start", !.ts = now])
    BY DEF NoPass
  <2> QED  BY <1>2, <1>3, <2>1 DEF StartPass
<1>4. ASSUME NEW w \in Workers, Load(w) PROVE PassSeen'
  <2>1. PICK files \in Readable(Window) :
          Set(w, [pass[w] EXCEPT !.phase = "fold", !.view = SnapRow,
                                 !.listed = files, !.todo = files])
    BY <1>4 DEF Load
  <2> DEFINE p == [pass[w] EXCEPT !.phase = "fold", !.view = SnapRow,
                                  !.listed = files, !.todo = files]
  <2>2. p.todo = files /\ p.view = SnapRow
    BY DEF TypeOK
  <2>3. files = Window
    <3>1. IsFiniteSet(Window)
      BY FS_Subset DEF PastInv, Window
    <3> QED  BY <2>1, <3>1, AllReadable
  <2>4. ASSUME NEW d \in sidecars, d.status = "Done", d \notin files, Calm
        PROVE  IsDone(SnapRow)
    <3>1. snapshot # NoSnapshot /\ ~(d.mtime + Margin >= snapshot.max_ts)
      BY <2>3, <2>4 DEF Window
    <3>2. d.mtime + Margin \in Nat /\ snapshot.max_ts \in Nat
      BY <3>1, ConfigAssumption DEF TypeOK, Row
    <3>3. d.mtime + Margin < snapshot.max_ts
      BY <3>1, <3>2
    <3> QED  BY <2>4, <3>1, <3>3 DEF SeenInv, SnapSeen, SnapRow
  <2>5. OK(p)
    BY <2>2, <2>4 DEF Seen
  <2> QED  BY <1>2, <1>4, <2>1, <2>5 DEF Load
<1>5. ASSUME NEW w \in Workers, Fold(w) PROVE PassSeen'
  <2>1. PICK r \in pass[w].todo :
          Set(w, [pass[w] EXCEPT !.todo = @ \ {r}, !.view = apply(@, r)])
    BY <1>5 DEF Fold
  <2> DEFINE p == [pass[w] EXCEPT !.todo = @ \ {r}, !.view = apply(@, r)]
  <2>2. /\ p.todo = pass[w].todo \ {r} /\ p.view = apply(pass[w].view, r)
        /\ p.ts = pass[w].ts
    BY DEF TypeOK
  <2>3. pass[w].todo \in SUBSET sidecars /\ pass[w].view \in MaybeRow
    BY DEF TypeOK
  <2>4. Seen(pass[w].ts, pass[w].todo, pass[w].view)
    BY <1>1, <2>1 DEF FoldInv
  <2>5. OK(p)
    BY <2>1, <2>2, <2>3, <2>4, SeenFold
  <2> QED  BY <1>2, <1>5, <2>1, <2>5 DEF Fold
<1>6. ASSUME NEW w \in Workers, NEW ph \in {"enqueue", "poison", "run"}, UNCHANGED sidecars,
             \/ Set(w, [pass[w] EXCEPT !.phase = ph, !.listed = {}])
             \/ Set(w, [pass[w] EXCEPT !.phase = ph])
      PROVE  PassSeen'
  <2>1. /\ [pass[w] EXCEPT !.phase = ph, !.listed = {}].phase # "fold"
        /\ [pass[w] EXCEPT !.phase = ph].phase # "fold"
    BY DEF TypeOK
  <2> QED  BY <1>2, <1>6, <2>1
<1>7. ASSUME \A w \in Workers : pass'[w] = pass[w] \/ pass'[w] = NoPass
      PROVE  PassSeen'
  <2> SUFFICES ASSUME NEW w \in Workers, pass'[w] = pass[w], pass[w].phase = "fold"
               PROVE  Seen(pass[w].ts, pass[w].todo, pass[w].view)'
    BY <1>7 DEF PassSeen, NoPass
  <2>1. pass[w].ts \in 0..now /\ Seen(pass[w].ts, pass[w].todo, pass[w].view)
    BY <1>1 DEF TypeOK
  <2>2. ASSUME NEW t \in 0..now, NEW todo, NEW view, Seen(t, todo, view)
        PROVE  \A d \in sidecars' : (d.status = "Done" /\ d.mtime < t) =>
                 d \in todo \/ (Calm' => IsDone(view))
    BY <2>2, SeenGrows DEF Seen, IsDone
  <2> QED  BY <2>1, <2>2 DEF Seen, IsDone
<1>8. ASSUME NEW w \in Workers, Leave(w) PROVE PassSeen'
  BY <1>7, <1>8 DEF Leave, Set, TypeOK
<1>9. ASSUME UNCHANGED pass PROVE PassSeen'
  BY <1>7, <1>9
<1> QED
  BY <1>3, <1>4, <1>5, <1>6, <1>8, <1>9 DEF Next, vars, Tick, Reconcile, Claim, Skip,
     Finish, Poison, Crash, ReadLedger, Decide, ToolFold, Compact, WriteRow

\* Where every file can be read, a job whose completion has landed is done for
\* every pass that begins later, unless a failure is newer than a completion:
\* for every number of workers, compactions and rows, and any margin.
THEOREM DoneStaysDone ==
  ASSUME MaxUnreadable = 0
  PROVE  Spec => []DoneIsFinal
<1>1. Init => SeenInv
  BY DEF Init, SeenInv, PassSeen, ToolSeen, SnapSeen, NoPass, NoTool
<1>2. TypeOK /\ ToolInv /\ EarnedInv /\ SeenInv /\ [Next]_vars => SeenInv'
  BY SnapSeenStep, ToolSeenStep, PassSeenStep DEF EarnedInv, SeenInv
<1>3. TypeOK /\ SeenInv => DoneIsFinal
  <2> SUFFICES ASSUME TypeOK, SeenInv, NEW w \in Readers,
                      NEW d \in Landed(w), d.status = "Done", Calm
               PROVE  Plan(w) = "done"
    BY DEF DoneIsFinal, Calm, Landed
  <2>1. /\ w \in Workers /\ pass[w].phase = "fold" /\ pass[w].todo = {}
        /\ d \in sidecars /\ d.mtime < pass[w].ts
    BY DEF Readers, Landed
  <2>2. IsDone(pass[w].view)
    BY <2>1 DEF SeenInv, PassSeen, Seen
  <2> QED  BY <2>2 DEF Plan, reconcile_at, IsDone
<1> QED  BY <1>1, <1>2, <1>3, EarnedAlways, PTL DEF Spec

-----------------------------------------------------------------------------
(* Pardons: the newest failure of a job reaches every later pass, whatever was  *)
(* compacted and in whatever order the files are read.                          *)

\* r is a failure, and newer than every other row.
NewestFailure(r) == r.status = "Failed" /\ Latest(r, sidecars)

\* The newest row, if a failure that landed before t, is still to be read, or it
\* is row itself.
Shown(t, todo, row) ==
  \A r \in sidecars : (NewestFailure(r) /\ r.mtime < t) => r \in todo \/ row = r

PassShown ==
  \A w \in Workers : pass[w].phase = "fold" => Shown(pass[w].ts, pass[w].todo, pass[w].view)

\* A tool keeps it twice: as the job's latest row and as its newest bad one.
ToolShown ==
  tool.phase = "fold" =>
    Shown(tool.ts, tool.todo, tool.view) /\ Shown(tool.ts, tool.todo, tool.bad)

\* What the fold window leaves out is in the snapshot.
SnapShown ==
  snapshot # NoSnapshot =>
    \A r \in sidecars :
      (NewestFailure(r) /\ r.mtime + Margin < snapshot.max_ts) => snapshot.row = r

ShownInv == PassShown /\ ToolShown /\ SnapShown

\* A pardon starts the count anew.
PardonInv ==
  \A r \in sidecars : r.by = "requeue-pardon" =>
    r.status = "Failed" /\ r.transient /\ r.attempts = 0

-----------------------------------------------------------------------------
LEMMA PardonRow ==
  ASSUME TypeOK, ToolInv, PardonInv, [Next]_vars
  PROVE  PardonInv'
<1>1. CASE UNCHANGED sidecars
  BY <1>1 DEF PardonInv
<1>2. CASE \E w \in Workers : Finish(w) \/ Poison(w)
  <2>1. \A w, s, b : make(w, s, b).by # "requeue-pardon"
    BY DEF make
  <2> QED  BY <1>2, <2>1 DEF Finish, Poison, Publish, PardonInv
<1>3. CASE WriteRow
  <2> DEFINE row == [status |-> "Failed", transient |-> TRUE, attempts |-> ToolAttempts,
                     ts |-> tool.ts, by |-> tool.kind, mtime |-> now]
  <2>1. row.by = "requeue-pardon" =>
          row.status = "Failed" /\ row.transient /\ row.attempts = 0
    BY DEF ToolAttempts
  <2> QED  BY <1>3, <2>1 DEF WriteRow, Publish, PardonInv
<1> QED
  BY <1>1, <1>2, <1>3 DEF Next, vars, Tick, StartPass, Load, Fold, Reconcile,
     Claim, Skip, Crash, ReadLedger, Decide, ToolFold, Compact

\* The newest failure replaces any other row and is replaced by none.
LEMMA NewestReigns ==
  ASSUME TypeOK, NEW r \in sidecars, NewestFailure(r), NEW x \in sidecars, NEW row \in MaybeRow,
         x = r \/ row = r
  PROVE  apply(row, x) = r
<1>1. /\ r \in Row /\ r # NoRow /\ r.status = "Failed"
      /\ \A s \in sidecars : s # r => s.ts < r.ts
  BY SentinelAssumption DEF TypeOK, NewestFailure, Latest
<1>2. \A s \in sidecars : s \in Row /\ s.ts \in Nat
  BY DEF TypeOK, Row
<1>3. CASE row = r /\ x = r
  BY <1>3, ApplyEither
<1>4. CASE row = r /\ x # r
  <2>1. x.ts < r.ts
    BY <1>1, <1>4
  <2>2. ~Newer(x, r)
    BY <1>2, <2>1 DEF Newer
  <2>3. ~Keeps(r, x)
    BY <1>1, <2>2 DEF Keeps
  <2> QED  BY <1>1, <1>4, <2>3 DEF apply
<1>5. CASE x = r /\ row # r
  <2>1. CASE row = NoRow
    BY <1>5, <2>1 DEF apply
  <2>2. CASE row # NoRow
    <3>1. row \in sidecars /\ row.ts < r.ts
      BY <1>1, <1>5, <2>2 DEF MaybeRow
    <3>2. Newer(r, row)
      BY <1>2, <3>1 DEF Newer
    <3>3. Keeps(row, r)
      BY <1>1, <3>2 DEF Keeps
    <3> QED  BY <1>5, <3>3 DEF apply
  <2> QED  BY <2>1, <2>2
<1> QED  BY <1>3, <1>4, <1>5

\* So it does among the bad rows a compaction looks at.
LEMMA NewestIsWorst ==
  ASSUME TypeOK, NEW r \in sidecars, NewestFailure(r), NEW x \in sidecars, NEW row \in MaybeRow,
         x = r \/ row = r
  PROVE  NewestBad(row, x) = r
<1>1. /\ r \in Row /\ r # NoRow /\ r.status = "Failed"
      /\ \A s \in sidecars : s # r => s.ts < r.ts
  BY SentinelAssumption DEF TypeOK, NewestFailure, Latest
<1>2. \A s \in sidecars : s.ts \in Nat
  BY DEF TypeOK, Row
<1>3. CASE x = r
  <2>1. row = NoRow \/ row = r \/ r.ts > row.ts
    BY <1>1, <1>2 DEF MaybeRow
  <2> QED  BY <1>1, <1>3, <2>1 DEF NewestBad
<1>4. CASE row = r /\ x # r
  <2>1. ~(x.ts > row.ts)
    BY <1>1, <1>2, <1>4
  <2> QED  BY <1>1, <1>4, <2>1 DEF NewestBad
<1> QED  BY <1>3, <1>4

\* One more file read.
LEMMA ShownFold ==
  ASSUME TypeOK, NEW t, NEW todo \in SUBSET sidecars, NEW row \in MaybeRow,
         Shown(t, todo, row), NEW x \in todo
  PROVE  Shown(t, todo \ {x}, apply(row, x))
BY NewestReigns DEF Shown

LEMMA ShownBadFold ==
  ASSUME TypeOK, NEW t, NEW todo \in SUBSET sidecars, NEW row \in MaybeRow,
         Shown(t, todo, row), NEW x \in todo
  PROVE  Shown(t, todo \ {x}, NewestBad(row, x))
BY NewestIsWorst DEF Shown

\* Time and new rows take nothing away from what was shown.
LEMMA ShownGrows ==
  ASSUME TypeOK, ToolInv, [Next]_vars, NEW t \in 0..now, NEW todo, NEW row,
         Shown(t, todo, row)
  PROVE  \A r \in sidecars' : (NewestFailure(r)' /\ r.mtime < t) => r \in todo \/ row = r
<1>1. \A r \in sidecars' : r.mtime < t => r \in sidecars
  <2>1. now \in Nat
    BY DEF TypeOK
  <2> QED  BY <2>1, SidecarsGrow
<1>2. \A r \in sidecars : NewestFailure(r)' => NewestFailure(r)
  BY Time DEF NewestFailure, Latest
<1> QED  BY <1>1, <1>2 DEF Shown

LEMMA SnapShownStep ==
  ASSUME TypeOK, ToolInv, ShownInv, [Next]_vars
  PROVE  SnapShown'
<1>1. now \in Nat /\ Margin \in Nat
  BY ConfigAssumption DEF TypeOK
<1>2. \A r \in sidecars : NewestFailure(r)' => NewestFailure(r)
  BY Time DEF NewestFailure, Latest
<1>3. CASE UNCHANGED snapshot
  <2> SUFFICES ASSUME snapshot # NoSnapshot, NEW r \in sidecars', NewestFailure(r)',
                      r.mtime + Margin < snapshot.max_ts
               PROVE  snapshot.row = r
    BY <1>3 DEF SnapShown
  <2>1. snapshot.max_ts \in 0..now
    BY DEF TypeOK
  <2>2. r \in sidecars
    <3>1. ASSUME NEW x \in Row, x.mtime = now, r = x PROVE FALSE
      BY <1>1, <2>1, <3>1
    <3> QED  BY <3>1, SidecarsGrow
  <2> QED  BY <1>2, <2>2 DEF ShownInv, SnapShown
<1>4. CASE Compact
  <2>1. PICK m \in 0..tool.ts : snapshot' = [row |-> snapshot_rows, max_ts |-> m]
    BY <1>4 DEF Compact
  <2>2. sidecars' = sidecars /\ tool.phase = "fold" /\ tool.todo = {}
    BY <1>4 DEF Compact, Ready, Quiet
  <2> SUFFICES ASSUME NEW r \in sidecars, NewestFailure(r), r.mtime + Margin < m
               PROVE  snapshot_rows = r
    BY <1>2, <2>1, <2>2 DEF SnapShown
  <2>3. r.mtime < tool.ts
    <3>1. r.mtime \in Nat /\ tool.ts \in Nat /\ m \in Nat /\ m <= tool.ts
      BY DEF TypeOK, Row
    <3> QED  BY <1>1, <3>1
  <2>4. tool.view = r /\ tool.bad = r
    BY <2>2, <2>3 DEF ShownInv, ToolShown, Shown
  <2>5. r # NoRow /\ r.status = "Failed"
    BY SentinelAssumption DEF TypeOK, NewestFailure
  <2> QED  BY <2>4, <2>5 DEF snapshot_rows
<1> QED
  BY <1>3, <1>4 DEF Next, vars, Tick, StartPass, Load, Fold, Reconcile, Claim, Skip,
     Finish, Poison, Crash, ReadLedger, Decide, ToolFold, WriteRow

LEMMA ToolShownStep ==
  ASSUME TypeOK, ToolInv, PastInv, ShownInv, [Next]_vars, MaxUnreadable = 0
  PROVE  ToolShown'
<1>1. CASE UNCHANGED tool
  <2> SUFFICES ASSUME tool.phase = "fold" PROVE ToolShown'
    BY <1>1 DEF ToolShown
  <2>1. /\ tool.ts \in 0..now
        /\ Shown(tool.ts, tool.todo, tool.view) /\ Shown(tool.ts, tool.todo, tool.bad)
    BY DEF TypeOK, ShownInv, ToolShown
  <2>2. /\ Shown(tool.ts, tool.todo, tool.view)'
        /\ Shown(tool.ts, tool.todo, tool.bad)'
    <3>1. \A r \in sidecars' : (NewestFailure(r)' /\ r.mtime < tool.ts) =>
            r \in tool.todo \/ tool.view = r
      BY <2>1, ShownGrows
    <3>2. \A r \in sidecars' : (NewestFailure(r)' /\ r.mtime < tool.ts) =>
            r \in tool.todo \/ tool.bad = r
      BY <2>1, ShownGrows
    <3> QED  BY <1>1, <3>1, <3>2 DEF Shown
  <2> QED  BY <2>2 DEF ToolShown
<1>2. CASE tool' = NoTool
  BY <1>2 DEF ToolShown, NoTool
<1>3. CASE \E k \in Tools : ReadLedger(k)
  <2>1. PICK k \in Tools, files \in Readable(sidecars) :
          /\ tool' = [NoTool EXCEPT !.phase = "fold", !.kind = k, !.ts = now, !.todo = files]
          /\ UNCHANGED sidecars
    BY <1>3 DEF ReadLedger
  <2>2. files = sidecars
    BY <2>1, AllReadable DEF PastInv
  <2>3. tool'.todo = sidecars'
    BY <2>1, <2>2 DEF NoTool
  <2> QED  BY <2>3 DEF ToolShown, Shown
<1>4. CASE ToolFold
  <2>1. PICK x \in tool.todo :
          tool' = [tool EXCEPT !.todo = @ \ {x}, !.view = apply(@, x),
                               !.done = FirstDone(@, x), !.bad = NewestBad(@, x)]
    BY <1>4 DEF ToolFold
  <2>2. /\ tool'.ts = tool.ts /\ tool'.todo = tool.todo \ {x}
        /\ tool'.view = apply(tool.view, x) /\ tool'.bad = NewestBad(tool.bad, x)
        /\ tool'.phase = tool.phase
    BY <2>1 DEF TypeOK
  <2>3. UNCHANGED sidecars
    BY <1>4 DEF ToolFold
  <2> SUFFICES ASSUME tool.phase = "fold" PROVE ToolShown'
    BY <2>2 DEF ToolShown
  <2>4. tool.todo \in SUBSET sidecars /\ tool.view \in MaybeRow /\ tool.bad \in MaybeRow
    BY DEF TypeOK
  <2>5. /\ Shown(tool.ts, tool.todo \ {x}, apply(tool.view, x))
        /\ Shown(tool.ts, tool.todo \ {x}, NewestBad(tool.bad, x))
    BY <2>1, <2>4, ShownFold, ShownBadFold DEF ShownInv, ToolShown
  <2> QED  BY <2>2, <2>3, <2>5 DEF ToolShown, Shown, NewestFailure, Latest
<1>5. CASE \E k \in Tools : Decide(k)
  <2>1. tool' = NoTool \/ tool' = [tool EXCEPT !.phase = "write", !.ts = now]
    BY <1>5 DEF Decide
  <2>2. NoTool.phase # "fold" /\ [tool EXCEPT !.phase = "write", !.ts = now].phase # "fold"
    <3>1. DOMAIN tool = {"phase", "kind", "ts", "todo", "view", "done", "bad"}
      BY DEF TypeOK
    <3>2. [tool EXCEPT !.phase = "write", !.ts = now].phase = "write"
      BY <3>1
    <3> QED  BY <3>2 DEF NoTool
  <2>3. tool'.phase # "fold"
    BY <2>1, <2>2
  <2> QED  BY <2>3 DEF ToolShown
<1> QED
  BY <1>1, <1>2, <1>3, <1>4, <1>5 DEF Next, vars, Tick, StartPass, Load, Fold, Reconcile,
     Claim, Skip, Finish, Poison, Crash, Compact, WriteRow

LEMMA PassShownStep ==
  ASSUME TypeOK, ToolInv, PastInv, FoldInv, ShownInv, [Next]_vars, MaxUnreadable = 0
  PROVE  PassShown'
<1> DEFINE OK(p) == p.phase = "fold" => Shown(p.ts, p.todo, p.view)
<1>1. \A w \in Workers : OK(pass[w])
  BY DEF ShownInv, PassShown
<1>2. ASSUME NEW w \in Workers, NEW p, Set(w, p), OK(p), UNCHANGED sidecars
      PROVE  PassShown'
  <2>1. \A v \in Workers : pass'[v] = IF v = w THEN p ELSE pass[v]
    BY <1>2 DEF Set, TypeOK
  <2>2. \A v \in Workers : OK(pass'[v])
    BY <1>1, <1>2, <2>1
  <2> QED  BY <1>2, <2>2 DEF PassShown, Shown, NewestFailure, Latest
<1>3. ASSUME NEW w \in Workers, StartPass(w) PROVE PassShown'
  <2>1. OK([NoPass EXCEPT !.phase = "start", !.ts = now])
    BY DEF NoPass
  <2> QED  BY <1>2, <1>3, <2>1 DEF StartPass
<1>4. ASSUME NEW w \in Workers, Load(w) PROVE PassShown'
  <2>1. PICK files \in Readable(Window) :
          Set(w, [pass[w] EXCEPT !.phase = "fold", !.view = SnapRow,
                                 !.listed = files, !.todo = files])
    BY <1>4 DEF Load
  <2> DEFINE p == [pass[w] EXCEPT !.phase = "fold", !.view = SnapRow,
                                  !.listed = files, !.todo = files]
  <2>2. p.todo = files /\ p.view = SnapRow
    BY DEF TypeOK
  <2>3. files = Window
    <3>1. IsFiniteSet(Window)
      BY FS_Subset DEF PastInv, Window
    <3> QED  BY <2>1, <3>1, AllReadable
  <2>4. ASSUME NEW r \in sidecars, NewestFailure(r), r \notin files
        PROVE  SnapRow = r
    <3>1. snapshot # NoSnapshot /\ ~(r.mtime + Margin >= snapshot.max_ts)
      BY <2>3, <2>4 DEF Window
    <3>2. r.mtime + Margin \in Nat /\ snapshot.max_ts \in Nat
      BY <3>1, ConfigAssumption DEF TypeOK, Row
    <3>3. r.mtime + Margin < snapshot.max_ts
      BY <3>1, <3>2
    <3> QED  BY <2>4, <3>1, <3>3 DEF ShownInv, SnapShown, SnapRow
  <2>5. OK(p)
    BY <2>2, <2>4 DEF Shown
  <2> QED  BY <1>2, <1>4, <2>1, <2>5 DEF Load
<1>5. ASSUME NEW w \in Workers, Fold(w) PROVE PassShown'
  <2>1. PICK x \in pass[w].todo :
          Set(w, [pass[w] EXCEPT !.todo = @ \ {x}, !.view = apply(@, x)])
    BY <1>5 DEF Fold
  <2> DEFINE p == [pass[w] EXCEPT !.todo = @ \ {x}, !.view = apply(@, x)]
  <2>2. /\ p.todo = pass[w].todo \ {x} /\ p.view = apply(pass[w].view, x)
        /\ p.ts = pass[w].ts
    BY DEF TypeOK
  <2>3. pass[w].todo \in SUBSET sidecars /\ pass[w].view \in MaybeRow
    BY DEF TypeOK
  <2>4. Shown(pass[w].ts, pass[w].todo, pass[w].view)
    BY <1>1, <2>1 DEF FoldInv
  <2>5. OK(p)
    BY <2>1, <2>2, <2>3, <2>4, ShownFold
  <2> QED  BY <1>2, <1>5, <2>1, <2>5 DEF Fold
<1>6. ASSUME NEW w \in Workers, NEW ph \in {"enqueue", "poison", "run"}, UNCHANGED sidecars,
             \/ Set(w, [pass[w] EXCEPT !.phase = ph, !.listed = {}])
             \/ Set(w, [pass[w] EXCEPT !.phase = ph])
      PROVE  PassShown'
  <2>1. /\ [pass[w] EXCEPT !.phase = ph, !.listed = {}].phase # "fold"
        /\ [pass[w] EXCEPT !.phase = ph].phase # "fold"
    BY DEF TypeOK
  <2> QED  BY <1>2, <1>6, <2>1
<1>7. ASSUME \A w \in Workers : pass'[w] = pass[w] \/ pass'[w] = NoPass
      PROVE  PassShown'
  <2> SUFFICES ASSUME NEW w \in Workers, pass'[w] = pass[w], pass[w].phase = "fold"
               PROVE  Shown(pass[w].ts, pass[w].todo, pass[w].view)'
    BY <1>7 DEF PassShown, NoPass
  <2>1. pass[w].ts \in 0..now /\ Shown(pass[w].ts, pass[w].todo, pass[w].view)
    BY <1>1 DEF TypeOK
  <2>2. \A r \in sidecars' : (NewestFailure(r)' /\ r.mtime < pass[w].ts) =>
          r \in pass[w].todo \/ pass[w].view = r
    BY <2>1, ShownGrows
  <2> QED  BY <2>2 DEF Shown
<1>8. ASSUME NEW w \in Workers, Leave(w) PROVE PassShown'
  BY <1>7, <1>8 DEF Leave, Set, TypeOK
<1>9. ASSUME UNCHANGED pass PROVE PassShown'
  BY <1>7, <1>9
<1> QED
  BY <1>3, <1>4, <1>5, <1>6, <1>8, <1>9 DEF Next, vars, Tick, Reconcile, Claim, Skip,
     Finish, Poison, Crash, ReadLedger, Decide, ToolFold, Compact, WriteRow

\* Where every file can be read and a job may be tried at all, a pardon that is the
\* newest row and has landed makes every pass that begins later run the job again
\* (requeue, snapshot_rows): for every number of workers, compactions and rows, and
\* any margin.
THEOREM PardonsReopen ==
  ASSUME MaxUnreadable = 0, MaxAttempts > 0
  PROVE  Spec => []PardonReopens
<1>1. Init => ShownInv /\ PardonInv
  BY DEF Init, ShownInv, PassShown, ToolShown, SnapShown, PardonInv, NoPass, NoTool
<1>2. TypeOK /\ ToolInv /\ EarnedInv /\ ShownInv /\ [Next]_vars => ShownInv'
  BY SnapShownStep, ToolShownStep, PassShownStep DEF EarnedInv, ShownInv
<1>3. TypeOK /\ ToolInv /\ PardonInv /\ [Next]_vars => PardonInv'
  BY PardonRow
<1>4. TypeOK /\ ShownInv /\ PardonInv => PardonReopens
  <2> SUFFICES ASSUME TypeOK, ShownInv, PardonInv, NEW w \in Readers, NEW r \in Landed(w),
                      Latest(r, sidecars), r.by = "requeue-pardon"
               PROVE  Plan(w) = "enqueue"
    BY DEF PardonReopens
  <2>1. /\ w \in Workers /\ pass[w].phase = "fold" /\ pass[w].todo = {}
        /\ r \in sidecars /\ r.mtime < pass[w].ts
    BY DEF Readers, Landed
  <2>2. r.status = "Failed" /\ r.transient /\ r.attempts = 0 /\ r # NoRow
    BY <2>1, SentinelAssumption DEF PardonInv, TypeOK
  <2>3. pass[w].view = r
    BY <2>1, <2>2 DEF ShownInv, PassShown, Shown, NewestFailure
  <2> QED  BY <2>2, <2>3 DEF Plan, reconcile_at, RetryDue
<1> QED  BY <1>1, <1>2, <1>3, <1>4, EarnedAlways, PTL DEF Spec
=============================================================================
