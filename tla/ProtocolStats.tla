----------------------------- MODULE ProtocolStats -----------------------------
(***************************************************************************)
(* What the application reports about the protocol: the hourly snapshot    *)
(* (api/cron/protocol-snapshot), the statistics and charts made from       *)
(* snapshots (api/protocol-stats), the administrator's dashboard, loan and *)
(* liquidity pages (api/admin/dashboard, loans, liquidity) and the pool    *)
(* figures of the liquidity pages (use-liquidity-pool.ts).                 *)
(*                                                                         *)
(* Every report is put together from several reads, some of the contracts  *)
(* and some of the indexed bills, each made at its own moment while loans  *)
(* are paid and settled and the indexer follows behind.  A handler is a    *)
(* job: it makes the reads of one stage in any order, then those of the    *)
(* next.  The chain and the indexer are external: a bill's row goes        *)
(* through the statuses of its loan one by one, at any distance.  Late     *)
(* fees and the small payments of a liquidation are left out of the pool.  *)
(***************************************************************************)
EXTENDS Integers, Sequences, Functions, FiniteSets

CONSTANTS
  Loans,
  Principal,      \* what each bill lends
  Deposit,        \* what liquidity providers put in or take out at a time
  Jobs,           \* handlers that may run at once
  MaxCash, MaxDay, MaxSnapshots   \* bounds

ASSUME StatsAssumption ==
  /\ IsFiniteSet(Loans)
  /\ Principal \in [Loans -> Nat \ {0}] /\ Deposit \in Nat \ {0}
  /\ MaxCash \in Nat /\ MaxDay \in Nat /\ MaxSnapshots \in Nat

VARIABLES
  cash,       \* USDC the pool holds
  lent,       \* total_borrowed of the LP token
  chain,      \* each bill's status in BNPL Core
  row,        \* its status in parsed_bills
  paidOn,     \* the day of its payment: paidAt
  firstOn,    \* the day the first bill was indexed
  day,        \* the clock: days
  jobs,       \* each handler: NoReport or the report it is making
  snapshots   \* protocol_snapshots, oldest first

poolVars == <<cash, lent>>
billVars == <<chain, row, paidOn, firstOn>>
statsVars == <<poolVars, billVars, day, jobs, snapshots>>

Statuses == {"none", "CREATED", "PAID", "REPAID", "LIQUIDATED"}
NoReport == [report |-> "none"]
Never == -1

(* One bill's fee of 1.5 percent, and the pool's 70 percent of fees.       *)
Fee(volume) == (volume * 15) \div 1000
FeeToLp(fees) == (fees * 7) \div 10

Among(bills, amount) == SumFunction([b \in Loans |-> IF b \in bills THEN amount[b] ELSE 0])
PrincipalOf(bills) == Among(bills, Principal)
With(statuses) == {b \in Loans : row[b] \in statuses}
Lent == {"PAID", "REPAID", "LIQUIDATED"}
PaidSince(d) == {b \in With(Lent) : paidOn[b] >= d}

StatsInit ==
  /\ cash = Deposit /\ lent = 0
  /\ chain = [b \in Loans |-> "none"] /\ row = chain
  /\ paidOn = [b \in Loans |-> 0] /\ firstOn = Never
  /\ day = 0
  /\ jobs = [j \in Jobs |-> NoReport]
  /\ snapshots = <<>>

-----------------------------------------------------------------------------
(* What happens while reports are made.  A report is still while nothing   *)
(* has moved since it began.                                               *)
Disturbed == [j \in Jobs |-> IF jobs[j] = NoReport THEN NoReport
                             ELSE [jobs[j] EXCEPT !.still = FALSE]]
Moves == jobs' = Disturbed /\ UNCHANGED snapshots

SetChain(b, status) ==
  /\ chain' = [chain EXCEPT ![b] = status]
  /\ Moves /\ UNCHANGED <<row, firstOn, day>>

CreateOnChain(b) ==
  chain[b] = "none" /\ SetChain(b, "CREATED") /\ UNCHANGED <<poolVars, paidOn>>
PayOnChain(b) ==
  /\ chain[b] = "CREATED" /\ cash >= Principal[b]
  /\ SetChain(b, "PAID")
  /\ cash' = cash - Principal[b] + FeeToLp(Fee(Principal[b]))
  /\ lent' = lent + Principal[b]
  /\ paidOn' = [paidOn EXCEPT ![b] = day]
RepayOnChain(b) ==
  /\ chain[b] = "PAID" /\ SetChain(b, "REPAID")
  /\ cash' = cash + Principal[b] /\ lent' = lent - Principal[b]
  /\ UNCHANGED paidOn
LiquidateOnChain(b) ==
  /\ chain[b] = "PAID" /\ SetChain(b, "LIQUIDATED")
  /\ lent' = lent - Principal[b]
  /\ UNCHANGED <<cash, paidOn>>
MoveDeposit ==
  /\ \/ cash + Deposit <= MaxCash /\ cash' = cash + Deposit
     \/ cash >= Deposit /\ cash' = cash - Deposit
  /\ Moves /\ UNCHANGED <<lent, billVars, day>>

(* The indexer applies the next event of a bill.                           *)
NextStatus(b) ==
  CASE row[b] = "none" -> "CREATED"
    [] row[b] = "CREATED" -> "PAID"
    [] row[b] = "PAID" -> chain[b]
IndexEvent(b) ==
  /\ row[b] # chain[b]
  /\ row' = [row EXCEPT ![b] = NextStatus(b)]
  /\ firstOn' = IF firstOn = Never THEN day ELSE firstOn
  /\ Moves /\ UNCHANGED <<poolVars, chain, paidOn, day>>

DayPasses ==
  /\ day < MaxDay /\ day' = day + 1
  /\ Moves /\ UNCHANGED <<poolVars, billVars>>

-----------------------------------------------------------------------------
(* The reads of each report: one set for each await, its members sent      *)
(* together.  The snapshot's first are fetchLPPoolState; the pool page     *)
(* asks the contracts one after the other, and total_borrowed once more in *)
(* a query of its own.                                                     *)
SnapshotReads == <<{"cash", "lent"}, {"volume"}, {"volumeDay"}, {"open"}, {"first"}>>
StatsReads == <<{"latest"}, {"history"}>>
DashboardReads == <<{"all", "open"}, {"repaid"}>>
LoansReads == <<{"all", "open"}>>
LiquidityReads == <<{"repaid", "open"}>>
PoolReads == <<{"cash"}, {"lent"}, {"borrowed"}>>

Reads(report) ==
  CASE report = "snapshot" -> SnapshotReads
    [] report = "stats" -> StatsReads
    [] report = "dashboard" -> DashboardReads
    [] report = "loans" -> LoansReads
    [] report = "liquidity" -> LiquidityReads
    [] report = "pool" -> PoolReads
Reports == {"snapshot", "stats", "dashboard", "loans", "liquidity", "pool"}

(* Volume is every bill that was ever paid, by the time it was paid.       *)
VolumeOf(statuses) == PrincipalOf(With(statuses))
Volume_OpenOnly == VolumeOf({"PAID"})                   \* mutant
Volume == VolumeOf(Lent)
VolumeSince(days) == PrincipalOf(PaidSince(day - days))

(* Outstanding is what was paid and neither repaid nor liquidated.         *)
Outstanding_NotRepaid == VolumeOf({"PAID", "LIQUIDATED"})   \* mutant
Outstanding == VolumeOf({"PAID"})

(* The newest snapshot, and those of the period the page asks for (here    *)
(* the last day), by their places.                                         *)
LastSnapshot == Len(snapshots)
History == {i \in DOMAIN snapshots : snapshots[i].day >= day - 1}

Figure(f) ==
  CASE f = "cash" -> cash
    [] f = "lent" -> lent
    [] f = "borrowed" -> lent
    [] f = "volume" -> Volume
    [] f = "all" -> PrincipalOf(With(Lent \union {"CREATED"}))
    [] f = "volumeDay" -> VolumeSince(1)
    [] f = "open" -> Outstanding
    [] f = "repaid" -> VolumeOf({"REPAID"})
    [] f = "first" -> firstOn
    [] f = "latest" -> LastSnapshot
    [] f = "history" -> History

-----------------------------------------------------------------------------
(* The handlers.  Anyone may ask for a snapshot at any time: the route     *)
(* answers GET too, and its secret is asked for in production only.        *)
Begin(report, j) ==
  [report |-> report, stage |-> 1, left |-> Reads(report)[1], got |-> <<>>,
   day |-> day, after |-> Len(snapshots), still |-> row = chain]

Start(j, report) ==
  /\ jobs[j] = NoReport
  /\ report # "snapshot" => \A k \in Jobs : jobs[k] = NoReport
  /\ jobs' = [jobs EXCEPT ![j] = Begin(report, j)]
  /\ UNCHANGED <<poolVars, billVars, day, snapshots>>

(* The reads of a stage are all answered before the next stage is sent.    *)
NextStage(job) ==
  IF job.left = {} /\ job.stage < Len(Reads(job.report))
  THEN [job EXCEPT !.stage = @ + 1, !.left = Reads(job.report)[job.stage + 1]]
  ELSE job

GotFigure(job, f) ==
  [job EXCEPT !.left = @ \ {f},
              !.got = [x \in DOMAIN @ \union {f} |-> IF x = f THEN Figure(f) ELSE @[x]]]
ReadFigure(j, f) ==
  /\ jobs[j] # NoReport /\ f \in jobs[j].left
  /\ jobs' = [jobs EXCEPT ![j] = NextStage(GotFigure(@, f))]
  /\ UNCHANGED <<poolVars, billVars, day, snapshots>>

(* A contract call of the snapshot fails: fetchLPPoolState answers null    *)
(* and the snapshot goes on without the pool.                              *)
PoolUnknown(j) ==
  /\ jobs[j] # NoReport /\ jobs[j].report = "snapshot" /\ jobs[j].stage = 1
  /\ jobs' = [jobs EXCEPT ![j] = NextStage([@ EXCEPT !.left = {}, !.got = <<>>])]
  /\ UNCHANGED <<poolVars, billVars, day, snapshots>>

(* Any other read that fails ends the request with an error; the page      *)
(* keeps what it showed.                                                   *)
RequestFails(j) ==
  /\ jobs[j] # NoReport
  /\ jobs[j].left # {}
  /\ jobs' = [jobs EXCEPT ![j] = NoReport]
  /\ UNCHANGED <<poolVars, billVars, day, snapshots>>

Answered(j) == jobs[j] # NoReport /\ jobs[j].left = {}

-----------------------------------------------------------------------------
(* The snapshot.  An unknown or empty pool counts as the outstanding loans.*)
PoolTvl(got) ==
  IF "cash" \in DOMAIN got /\ got["cash"] + got["lent"] # 0
  THEN got["cash"] + got["lent"]
  ELSE got["open"]

(* A yield or utilisation its Decimal column cannot hold fails the create: *)
(* 10,000 percent a year of the fees of a day or of all days, and          *)
(* 1,000 percent where utilisation is estimated from the indexed bills.    *)
YieldTooHigh(fees, tvl, days) == 511 * fees >= 200 * tvl * days
DaysSinceStart(job) ==
  IF job.day - job.got["first"] > 1 THEN job.day - job.got["first"] ELSE 1
ColumnOverflows(job) ==
  LET got == job.got
      tvl == PoolTvl(got)
      tooHigh(volume, days) == Fee(volume) > 0 /\ YieldTooHigh(Fee(volume), tvl, days)
  IN  \/ /\ tvl > 0
         /\ \/ tooHigh(got["volumeDay"], 1)
            \/ got["first"] # Never /\ tooHigh(got["volume"], DaysSinceStart(job))
      \/ /\ "cash" \notin DOMAIN got /\ got["volume"] > 0
         /\ got["open"] >= 10 * got["volume"]

Snapshot(job) ==
  [day |-> day, after |-> job.after, volume |-> job.got["volume"]]

StoreSnapshot(j) ==
  /\ Answered(j) /\ jobs[j].report = "snapshot"
  /\ ~ColumnOverflows(jobs[j]) /\ Len(snapshots) < MaxSnapshots
  /\ snapshots' = Append(snapshots, Snapshot(jobs[j]))
  /\ jobs' = [jobs EXCEPT ![j] = NoReport]
  /\ UNCHANGED <<poolVars, billVars, day>>

SnapshotFails(j) ==
  /\ Answered(j) /\ jobs[j].report = "snapshot" /\ ColumnOverflows(jobs[j])
  /\ jobs' = [jobs EXCEPT ![j] = NoReport]
  /\ UNCHANGED <<poolVars, billVars, day, snapshots>>

(* What each answer says, and what its page makes of it.  The dashboard    *)
(* takes its revenue for 5 percent of what was repaid, the liquidity page  *)
(* its pending revenue for 3 percent of what is lent.                      *)
DashboardAnswer(got) ==
  [tvl |-> got["all"], borrowed |-> got["open"], revenue |-> (got["repaid"] * 5) \div 100]
LoansAnswer(got) ==
  [locked |-> got["open"], listed |-> got["all"]]
LiquidityAnswer(got) ==
  [borrowed |-> got["open"], repaid |-> got["repaid"], pending |-> (got["open"] * 3) \div 100]
PoolAnswer(got) ==
  [assets |-> got["cash"] + got["lent"], available |-> got["cash"], borrowed |-> got["lent"]]

(* The liquidity page subtracts the loans of the one query from the assets *)
(* of the other.                                                           *)
LiquidityPage(got) ==
  LET pool == PoolAnswer(got)
      borrowed == IF got["borrowed"] # 0 THEN got["borrowed"] ELSE pool.borrowed
  IN  [borrowed |-> borrowed,
       available |-> IF pool.assets > borrowed THEN pool.assets - borrowed ELSE 0]

(* What a report says is out on loan.                                      *)
OnLoan(job) ==
  CASE job.report = "snapshot" -> job.got["open"]
    [] job.report = "dashboard" -> DashboardAnswer(job.got).borrowed
    [] job.report = "loans" -> LoansAnswer(job.got).locked
    [] job.report = "liquidity" -> LiquidityAnswer(job.got).borrowed
    [] job.report = "pool" -> LiquidityPage(job.got).borrowed

(* A page takes the answer.                                                *)
ShowAnswer(j) ==
  /\ Answered(j) /\ jobs[j].report # "snapshot"
  /\ jobs' = [jobs EXCEPT ![j] = NoReport]
  /\ UNCHANGED <<poolVars, billVars, day, snapshots>>

JobStep(j) ==
  \/ \E report \in Reports : Start(j, report)
  \/ jobs[j] # NoReport /\ \E f \in jobs[j].left : ReadFigure(j, f)
  \/ PoolUnknown(j) \/ RequestFails(j)
  \/ StoreSnapshot(j) \/ SnapshotFails(j) \/ ShowAnswer(j)

StatsNext ==
  \/ \E b \in Loans :
       \/ CreateOnChain(b) \/ PayOnChain(b) \/ RepayOnChain(b) \/ LiquidateOnChain(b)
       \/ IndexEvent(b)
  \/ MoveDeposit \/ DayPasses
  \/ \E j \in Jobs : JobStep(j)

StatsSpec == StatsInit /\ [][StatsNext]_statsVars

-----------------------------------------------------------------------------
EverPaid == {b \in Loans : chain[b] \in Lent}
ChargedOnChain == Among(EverPaid, [b \in Loans |-> Fee(Principal[b])])
PaidOnChain == PrincipalOf(EverPaid)

(* What a finished report says is true of the chain.  However far the      *)
(* indexer is behind and whatever moves meanwhile, a snapshot claims no    *)
(* volume and no fees that were not paid (rounding its fees once, where    *)
(* the contract rounds each bill's); and one made while nothing moved and  *)
(* the indexer had caught up finds every report telling the same loans,    *)
(* the pool's own, and the cash that is in the pool                        *)
(* (protocol-snapshot L138-184, dashboard L120-211, loans, liquidity,      *)
(* admin/liquidity/page.tsx L82-86).                                       *)
ReportsTrue ==
  \A j \in Jobs : Answered(j) =>
    LET job == jobs[j]
    IN  /\ job.report = "snapshot" =>
             /\ job.got["volume"] <= PaidOnChain
             /\ Fee(job.got["volume"]) <= ChargedOnChain + Cardinality(Loans)
        /\ job.still /\ job.report # "stats" => OnLoan(job) = lent
        /\ job.still /\ job.report = "pool" => LiquidityPage(job.got).available = cash
        /\ job.still /\ job.report = "snapshot" /\ "cash" \in DOMAIN job.got =>
             PoolTvl(job.got) = cash + lent

(* The volume and the fees shown do not fall: a bill that was paid counts  *)
(* for good, whatever becomes of it, so a snapshot shows no less than any  *)
(* that was stored before its handler began.  Two handlers that overlap    *)
(* can store theirs in the other order (protocol-snapshot L138-147, L390). *)
VolumeNeverFalls ==
  \A k \in DOMAIN snapshots : \A i \in 1 .. snapshots[k].after :
    snapshots[i].volume <= snapshots[k].volume
=============================================================================
