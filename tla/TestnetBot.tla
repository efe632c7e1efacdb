----------------------------- MODULE TestnetBot -----------------------------
(***************************************************************************)
(* The testnet bot's process: the chain of timers that starts scenarios    *)
(* (core/scheduler.ts), the engine that counts failures and cools down     *)
(* (core/engine.ts), the two counters of the day (core/goal-tracker.ts and *)
(* core/state-manager.ts), and the document they are saved in, which       *)
(* remote commands are written to.  What a scenario does on the ledger is  *)
(* another module's subject; here it has an outcome.                       *)
(***************************************************************************)
EXTENDS Naturals, FiniteSets

CONSTANTS
    MaxFailures,   \* MAX_CONSECUTIVE_FAILURES
    DailyGoal,     \* config.goals.dailyTx
    MaxDay,        \* bound: the last day
    MaxEvents      \* bound: remote commands, crashes and shutdowns, failed checks, midnights,
                   \* and runs of another command of the bot's package

ASSUME BotAssumption ==
    /\ MaxFailures \in Nat \ {0}
    /\ DailyGoal \in Nat \ {0}
    /\ MaxDay \in Nat
    /\ MaxEvents \in Nat

VARIABLES
    process,    \* "down", "up", or "stopping" between scheduler.stop and exit
    paused,     \* scheduler.isPaused
    handle,     \* the timer timeoutId refers to: "none", "pending" or "spent"
    orphans,    \* pending timers that timeoutId no longer refers to
    choosing,   \* callbacks awaiting the recommended action
    executing,  \* callbacks awaiting their scenario
    failures,   \* consecutiveFailures, up to MaxFailures
    cooldowns,  \* pending cooldown timers
    poll,       \* "idle", or the answer of a remote check on its way
    stats,      \* dailyStats
    goal,       \* the goal tracker's date and count
    doc,        \* the bot's row of bot_state
    tool,       \* the stats of another command of the package, and whether it is yet
                \* to run the bootstrap scenario
    today,      \* the clock's day
    events,     \* counts what MaxEvents bounds
    ordered,    \* history: the last command written to the document
    boots,      \* history: bootstraps that another command ran and counted
    races,      \* history: resumes that found a callback at work
    carried     \* history: scenarios at work when the day changed

scheduler == <<paused, handle, orphans, choosing, executing>>
counters == <<stats, goal>>
outside == <<tool, boots, today, events, ordered>>
vars == <<process, scheduler, failures, cooldowns, poll, counters, doc, outside,
          races, carried>>

Busy == choosing + executing
NoDoc == [isRunning |-> FALSE, date |-> MaxDay + 1, tx |-> 0]
NoTool == [date |-> MaxDay + 1, tx |-> 0, due |-> FALSE]

Init ==
    /\ process = "down"
    /\ paused = FALSE
    /\ handle = "none"
    /\ orphans = 0 /\ choosing = 0 /\ executing = 0
    /\ failures = 0
    /\ cooldowns = 0
    /\ poll = "idle"
    /\ stats = [date |-> 0, tx |-> 0]
    /\ goal = [date |-> 0, tx |-> 0]
    /\ doc = NoDoc
    /\ tool = NoTool /\ boots = 0
    /\ today = 0
    /\ events = 0
    /\ ordered = "none"
    /\ races = 0
    /\ carried = 0

-----------------------------------------------------------------------------
(* The chain of timers.                                                    *)

\* scheduleNext: a timer that timeoutId still refers to is forgotten, not cleared.
ScheduleNext ==
    IF process = "up" /\ ~paused'
    THEN /\ handle' = "pending"
         /\ orphans' = orphans + (IF handle = "pending" THEN 1 ELSE 0)
    ELSE UNCHANGED <<handle, orphans>>

\* Mutant: resume trusts the old timer to be still there.
Resume_NoSchedule ==
    IF paused THEN paused' = FALSE /\ UNCHANGED <<handle, races>>
    ELSE UNCHANGED <<paused, handle, races>>

\* resume: clears the timer timeoutId refers to, if it has not fired, and schedules.
Resume ==
    IF paused
    THEN /\ paused' = FALSE
         /\ handle' = IF process = "up" THEN "pending" ELSE handle
         /\ races' = races + (IF process = "up" /\ Busy > 0 THEN 1 ELSE 0)
    ELSE UNCHANGED <<paused, handle, races>>

\* getProgress: the tracker's count starts anew with the first look of a day.
Progress == IF goal.date = today THEN goal ELSE [date |-> today, tx |-> 0]

\* Mutant: setInterval in place of setTimeout, a timer that stays.
TimerFires_Interval ==
    /\ process # "down"
    /\ handle = "pending" \/ orphans > 0
    /\ IF process = "up" /\ ~paused
       THEN choosing' = choosing + 1 /\ goal' = Progress
       ELSE UNCHANGED <<choosing, goal>>
    /\ UNCHANGED <<process, paused, handle, orphans, executing, failures, cooldowns, poll,
                   stats, doc, outside, races, carried>>

\* A timer fires: a paused or stopped scheduler lets the chain end here.
TimerFires ==
    /\ process # "down"
    /\ \/ handle = "pending" /\ handle' = "spent" /\ UNCHANGED orphans
       \/ orphans > 0 /\ orphans' = orphans - 1 /\ UNCHANGED handle
    /\ IF process = "up" /\ ~paused
       THEN choosing' = choosing + 1 /\ goal' = Progress
       ELSE UNCHANGED <<choosing, goal>>
    /\ UNCHANGED <<process, paused, executing, failures, cooldowns, poll, stats, doc,
                   outside, races, carried>>

-----------------------------------------------------------------------------
(* A scenario.                                                             *)

\* Mutant: one more once the goal is reached.
Choose_OneMore ==
    /\ process # "down"
    /\ choosing > 0
    /\ choosing' = choosing - 1
    /\ UNCHANGED paused
    /\ IF goal.tx > DailyGoal
       THEN ScheduleNext /\ UNCHANGED executing
       ELSE executing' = executing + 1 /\ UNCHANGED <<handle, orphans>>
    /\ UNCHANGED <<process, failures, cooldowns, poll, counters, doc, outside, races, carried>>

\* getRecommendedAction after its await: nothing is done once the daily goal is reached.
Choose ==
    /\ process # "down"
    /\ choosing > 0
    /\ choosing' = choosing - 1
    /\ UNCHANGED paused
    /\ IF goal.tx >= DailyGoal
       THEN ScheduleNext /\ UNCHANGED executing
       ELSE executing' = executing + 1 /\ UNCHANGED <<handle, orphans>>
    /\ UNCHANGED <<process, failures, cooldowns, poll, counters, doc, outside, races, carried>>

\* recordActivity and recordTransaction: each counter has a date of its own, and only
\* the first of them looks at it.
Counted(s) == [s EXCEPT !.date = today, !.tx = 1 + IF s.date = today THEN s.tx ELSE 0]

RecordActivity ==
    /\ stats' = Counted(stats)
    /\ goal' = [goal EXCEPT !.tx = @ + 1]

\* executeScenario after its scenario: success, failure, an exception of canRun, an
\* alternative scenario (whatever its result), or no scenario that can run.
Finish(outcome) ==
    /\ process # "down"
    /\ executing > 0
    /\ executing' = executing - 1
    /\ IF outcome = "nothing" THEN UNCHANGED counters ELSE RecordActivity
    /\ failures' = CASE outcome = "success" -> 0
                     [] outcome \in {"failure", "exception"} /\ failures < MaxFailures -> failures + 1
                     [] OTHER -> failures
    /\ IF outcome = "failure" /\ failures' = MaxFailures
       THEN paused' = TRUE /\ cooldowns' = cooldowns + 1
       ELSE UNCHANGED <<paused, cooldowns>>
    /\ ScheduleNext
    /\ UNCHANGED <<process, choosing, poll, doc, outside, races, carried>>

\* The timer that executeScenario sets when it pauses: it resumes whatever the reason
\* the scheduler is paused for by then.
CooldownOver ==
    /\ process # "down"
    /\ cooldowns > 0
    /\ cooldowns' = cooldowns - 1
    /\ failures' = 0
    /\ Resume
    /\ UNCHANGED <<process, orphans, choosing, executing, poll, counters, doc, outside, carried>>

-----------------------------------------------------------------------------
(* Remote control and the saved state.                                     *)

\* stateManager.checkRemoteControlState: the row's isRunning, "run" without a row ...
PollReads ==
    /\ process = "up"
    /\ poll = "idle"
    /\ poll' = IF doc = NoDoc \/ doc.isRunning THEN "run" ELSE "pause"
    /\ UNCHANGED <<process, scheduler, failures, cooldowns, counters, doc, outside, races, carried>>

\* ... and "run" when the database cannot be asked.
PollFails ==
    /\ process = "up"
    /\ poll = "idle"
    /\ events < MaxEvents
    /\ events' = events + 1
    /\ poll' = "run"
    /\ UNCHANGED <<process, scheduler, failures, cooldowns, counters, doc, tool, boots, today,
                   ordered, races, carried>>

\* Mutant: commands to resume are followed and commands to pause are not.
PollActs_ResumeOnly ==
    /\ process # "down"
    /\ poll # "idle"
    /\ poll' = "idle"
    /\ IF poll = "run" THEN Resume ELSE UNCHANGED <<paused, handle, races>>
    /\ UNCHANGED <<process, orphans, choosing, executing, failures, cooldowns, counters,
                   doc, outside, carried>>

\* scheduler.checkRemoteControlState once it has the answer.
PollActs ==
    /\ process # "down"
    /\ poll # "idle"
    /\ poll' = "idle"
    /\ IF poll = "run" THEN Resume
       ELSE paused' = TRUE /\ UNCHANGED <<handle, races>>
    /\ UNCHANGED <<process, orphans, choosing, executing, failures, cooldowns, counters,
                   doc, outside, carried>>

\* The row that saveState writes: isRunning is TRUE whatever the scheduler does.
Saved(s) == [isRunning |-> TRUE, date |-> s.date, tx |-> s.tx]

SaveState ==
    /\ process # "down"
    /\ goal' = Progress
    /\ doc' = Saved(stats)
    /\ UNCHANGED <<process, scheduler, failures, cooldowns, poll, stats, outside, races, carried>>

\* restoreState: the counts of another day are not restored, and when the row cannot be
\* read a process goes on without.
Fresh == [date |-> today, tx |-> 0]
Restored(failed) ==
    IF doc.date = today /\ ~failed THEN [date |-> today, tx |-> doc.tx] ELSE Fresh

\* initialize and start: connect, restore, look at the progress, schedule.
Start(failed) ==
    /\ process = "down"
    /\ process' = "up"
    /\ stats' = Restored(failed)
    /\ goal' = Restored(failed)
    /\ handle' = "pending"
    /\ UNCHANGED <<paused, orphans, choosing, executing, failures, cooldowns, poll, doc,
                   outside, races, carried>>

\* stop, up to its first await: the timer of timeoutId is cleared, others are not.
StopScheduler ==
    /\ process = "up"
    /\ events < MaxEvents
    /\ events' = events + 1
    /\ process' = "stopping"
    /\ handle' = "none"
    /\ UNCHANGED <<paused, orphans, choosing, executing, failures, cooldowns, poll,
                   counters, doc, tool, boots, today, ordered, races, carried>>

\* What a new process starts from.
MemoryGone ==
    /\ process' = "down"
    /\ paused' = FALSE
    /\ handle' = "none"
    /\ orphans' = 0 /\ choosing' = 0 /\ executing' = 0
    /\ failures' = 0
    /\ cooldowns' = 0
    /\ poll' = "idle"
    /\ stats' = [date |-> 0, tx |-> 0]
    /\ goal' = [date |-> 0, tx |-> 0]
    /\ UNCHANGED <<races, carried>>

\* The rest of stop: the state is saved, the process exits.
Exit ==
    /\ process = "stopping"
    /\ MemoryGone
    /\ doc' = Saved(stats)
    /\ UNCHANGED outside

\* The process ends by itself, or PM2 restarts it for its memory.
Crash ==
    /\ process # "down"
    /\ events < MaxEvents
    /\ events' = events + 1
    /\ MemoryGone
    /\ UNCHANGED <<doc, tool, boots, today, ordered>>

-----------------------------------------------------------------------------
(* Everybody else.                                                         *)

\* pnpm status, sync-merchants, bootstrap-step and bootstrap are processes of their own:
\* they restore the state when they start, ...
ToolStarts(failed) ==
    /\ tool = NoTool
    /\ events < MaxEvents
    /\ events' = events + 1
    /\ \E due \in BOOLEAN :
         tool' = [date |-> today, tx |-> Restored(failed).tx, due |-> due]
    /\ UNCHANGED <<process, scheduler, failures, cooldowns, poll, counters, doc, boots,
                   today, ordered, races, carried>>

\* ... the last of them counts the scenario it runs, as the bot would, ...
ToolBootstraps ==
    /\ tool.due
    /\ tool' = [Counted(tool) EXCEPT !.due = FALSE]
    /\ boots' = boots + 1
    /\ UNCHANGED <<process, scheduler, failures, cooldowns, poll, counters, doc, today,
                   events, ordered, races, carried>>

\* ... and they save what they have, over what the bot has saved meanwhile.
ToolEnds ==
    /\ tool # NoTool /\ ~tool.due
    /\ tool' = NoTool
    /\ doc' = Saved(tool)
    /\ UNCHANGED <<process, scheduler, failures, cooldowns, poll, counters, boots, today,
                   events, ordered, races, carried>>

\* A command written to the row the bot reads, as the bot's README describes it.
RemoteCommand(c) ==
    /\ doc # NoDoc
    /\ events < MaxEvents
    /\ events' = events + 1
    /\ doc' = [doc EXCEPT !.isRunning = (c = "run")]
    /\ ordered' = c
    /\ UNCHANGED <<process, scheduler, failures, cooldowns, poll, counters, tool, boots, today,
                   races, carried>>

Midnight ==
    /\ today < MaxDay
    /\ events < MaxEvents
    /\ today' = today + 1
    /\ events' = events + 1
    /\ carried' = carried + Busy
    /\ UNCHANGED <<process, scheduler, failures, cooldowns, poll, counters, doc, tool, boots,
                   ordered, races>>

-----------------------------------------------------------------------------
\* A scenario reports success or failure of its calls and throws nothing (the deposits
\* and withdrawals of lp-flow.ts, the bills of bnpl-cycle.ts); its canRun may throw.
ScenarioOutcomes == {"success", "failure"}
AlternativeOutcomes == {"alternative", "nothing"}
Outcomes == ScenarioOutcomes \cup AlternativeOutcomes \cup {"exception"}
Commands == {"run", "pause"}

Next ==
    \/ TimerFires \/ Choose \/ CooldownOver
    \/ \E o \in Outcomes : Finish(o)
    \/ \E c \in Commands : RemoteCommand(c)
    \/ PollReads \/ PollFails \/ PollActs \/ SaveState
    \/ StopScheduler \/ Exit \/ Crash
    \/ \E failed \in BOOLEAN : Start(failed) \/ ToolStarts(failed)
    \/ ToolBootstraps \/ ToolEnds
    \/ Midnight

Spec == Init /\ [][Next]_vars

\* Node runs what it has started and keeps polling.  Nobody has to send commands, and clocks and saves may take their time.
BotFairness ==
    /\ WF_vars(TimerFires) /\ WF_vars(Choose)
    /\ WF_vars(\E o \in Outcomes : Finish(o))
    /\ WF_vars(PollReads) /\ WF_vars(PollActs)

FairBotSpec == Spec /\ BotFairness

-----------------------------------------------------------------------------
BotTypeOK ==
    /\ process \in {"down", "up", "stopping"}
    /\ paused \in BOOLEAN
    /\ handle \in {"none", "pending", "spent"}
    /\ orphans \in Nat /\ choosing \in Nat /\ executing \in Nat
    /\ failures \in 0..MaxFailures
    /\ cooldowns \in Nat
    /\ poll \in {"idle"} \cup Commands
    /\ stats \in [date : Nat, tx : Nat]
    /\ goal \in [date : Nat, tx : Nat]
    /\ doc \in [isRunning : BOOLEAN, date : Nat, tx : Nat]
    /\ tool \in [date : Nat, tx : Nat, due : BOOLEAN] /\ boots \in Nat
    /\ today \in Nat /\ events \in Nat
    /\ ordered \in {"none"} \cup Commands
    /\ races \in Nat /\ carried \in Nat

\* The bot runs one scenario at a time (scheduler.ts:177 starts the next timer after the
\* callback has ended), except that every resume that finds a callback at work
\* (scheduler.ts:67-78) may start one more chain of timers beside the one it continues.
ChainsBounded ==
    orphans + Busy + (IF handle = "pending" THEN 1 ELSE 0) <= 1 + races

\* A bot that runs and is not paused always has a timer or a callback that will set one:
\* no order of pauses, resumes, cooldowns and fired timers leaves it idle for good.
NeverStalls ==
    process = "up" /\ ~paused => handle = "pending" \/ orphans > 0 \/ Busy > 0

\* The daily goal (goal-tracker.ts:119-122) is looked at before a scenario and counted
\* after it, and restored from the other counter, which other processes save too: the
\* day's count exceeds it by no more than the chains beside the first, the scenarios
\* carried over a midnight, and the bootstraps that another process counted.
DailyGoalBounded == goal.tx <= DailyGoal + races + carried + boots

\* The goal tracker's count and the daily statistics, reset by different rules at
\* different moments (goal-tracker.ts:49-53, state-manager.ts:196-199), agree on a day
\* that both have begun, up to the scenarios at work when the day began.
CountersAgree ==
    process # "down" /\ stats.date = today /\ goal.date = today =>
        stats.tx - goal.tx \in 0..carried

\* Both: the day's work is counted and limited, across restarts, races and midnights.
DailyGoalKept == DailyGoalBounded /\ CountersAgree

\* A pause written to the bot's row reaches the scheduler, unless the row is written over
\* (by the bot's own save, or by a tool) or the bot ends first.
PauseReaches ==
    (process = "up" /\ doc # NoDoc /\ ~doc.isRunning)
        ~> (paused \/ doc.isRunning \/ process # "up")

\* "Responds to pause/resume commands from the admin UI" (packages/testnet-bot/README.md:16):
\* a bot paused by a command stays paused until the next command.
PausedUntilCommanded ==
    [][paused /\ ordered = "pause" /\ process' # "down" => paused' \/ ordered' # ordered]_vars
=============================================================================
