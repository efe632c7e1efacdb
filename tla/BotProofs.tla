------------------------------ MODULE BotProofs ------------------------------
(***************************************************************************)
(* The bot: its timers are bounded by the races there were and never run   *)
(* out while it runs, its daily goal is kept, and what its saved pool says *)
(* of a merchant did happen on chain or in the database.                   *)
(***************************************************************************)
EXTENDS TestnetBot, BotSetup, Integers, FiniteSetTheorems, TLAPS

(* What is counted is counted in natural numbers, and a process that is    *)
(* down has left nothing behind.                                           *)
TimersTyped ==
  /\ process \in {"down", "up", "stopping"} /\ paused \in BOOLEAN
  /\ orphans \in Nat /\ choosing \in Nat /\ executing \in Nat /\ races \in Nat
  /\ process = "down" => orphans = 0 /\ choosing = 0 /\ executing = 0 /\ handle = "none"

(* A resume that finds no callback at work sets a timer and counts no      *)
(* race, so that where neither is there, one more must be allowed for.     *)
RoomForATimer == handle # "pending" /\ Busy = 0 => orphans <= races

TimersInv == TimersTyped /\ ChainsBounded /\ RoomForATimer /\ NeverStalls

LEMMA TimersInit == Init => TimersInv
<1> SUFFICES ASSUME Init PROVE TimersInv
  OBVIOUS
<1>1. /\ process = "down" /\ handle = "none" /\ paused \in BOOLEAN
      /\ orphans = 0 /\ choosing = 0 /\ executing = 0 /\ races = 0
  BY DEF Init
<1> QED
  BY <1>1 DEF TimersInv, TimersTyped, ChainsBounded, RoomForATimer, NeverStalls, Busy

(* Steps that leave the timers and the callbacks alone.                    *)
LEMMA OthersKeepTimers ==
  ASSUME TimersInv, UNCHANGED <<process, scheduler, races>>
  PROVE  TimersInv'
BY DEF TimersInv, TimersTyped, ChainsBounded, RoomForATimer, NeverStalls, Busy, scheduler

(* A resume: by the cooldown, or by an answer of the remote control.       *)
LEMMA ResumeKeepsTimers ==
  ASSUME TimersInv, Resume, process # "down",
         UNCHANGED <<process, orphans, choosing, executing>>
  PROVE  TimersInv'
<1>1. paused' \in BOOLEAN
  BY DEF Resume, TimersInv, TimersTyped
<1>2. CASE paused /\ process = "up"
  <2>1. /\ handle' = "pending"
        /\ races' = races + (IF Busy > 0 THEN 1 ELSE 0)
    BY <1>2 DEF Resume
  <2> QED
    BY <1>1, <1>2, <2>1
    DEF TimersInv, TimersTyped, ChainsBounded, RoomForATimer, NeverStalls, Busy
<1>3. CASE paused /\ process # "up"
  <2>1. handle' = handle /\ races' = races + 0
    BY <1>3 DEF Resume
  <2> QED
    BY <1>1, <1>3, <2>1
    DEF TimersInv, TimersTyped, ChainsBounded, RoomForATimer, NeverStalls, Busy
<1>4. CASE ~ paused
  <2>1. UNCHANGED <<paused, handle, races>>
    BY <1>4 DEF Resume
  <2> QED
    BY <1>4, <2>1
    DEF TimersInv, TimersTyped, ChainsBounded, RoomForATimer, NeverStalls, Busy
<1> QED BY <1>2, <1>3, <1>4

LEMMA FiringKeepsTimers ==
  ASSUME TimersInv, TimerFires
  PROVE  TimersInv'
<1> USE DEF TimersInv, TimersTyped, ChainsBounded, RoomForATimer, NeverStalls, Busy
<1>1. CASE handle = "pending" /\ handle' = "spent" /\ UNCHANGED orphans
  BY <1>1 DEF TimerFires
<1>2. CASE orphans > 0 /\ orphans' = orphans - 1 /\ UNCHANGED handle
  BY <1>2 DEF TimerFires
<1> QED BY <1>1, <1>2 DEF TimerFires

(* The end of a callback, which sets the next timer if it may.             *)
LEMMA CallbackEnds ==
  ASSUME TimersInv, process # "down", ScheduleNext, process' = process, races' = races,
         paused' \in BOOLEAN,
         \/ choosing > 0 /\ choosing' = choosing - 1 /\ executing' = executing
         \/ executing > 0 /\ executing' = executing - 1 /\ choosing' = choosing
  PROVE  TimersInv'
<1>1. /\ process \in {"up", "stopping"} /\ orphans \in Nat /\ races \in Nat
      /\ Busy > 0 /\ choosing' \in Nat /\ executing' \in Nat /\ Busy' = Busy - 1
      /\ Busy \in Nat /\ orphans + Busy + (IF handle = "pending" THEN 1 ELSE 0) <= 1 + races
  BY DEF TimersInv, TimersTyped, ChainsBounded, Busy
<1>2. CASE process = "up" /\ ~ paused'
  <2>1. handle' = "pending"
    BY <1>2 DEF ScheduleNext
  <2>2. orphans' \in Nat /\ orphans' + Busy' + 1 <= 1 + races
    <3>1. CASE handle = "pending"
      <4>1. orphans' = orphans + 1
        BY <1>2, <3>1 DEF ScheduleNext
      <4> QED BY <1>1, <3>1, <4>1
    <3>2. CASE handle # "pending"
      <4>1. orphans' = orphans + 0
        BY <1>2, <3>2 DEF ScheduleNext
      <4> QED BY <1>1, <3>2, <4>1
    <3> QED BY <3>1, <3>2
  <2>3. TimersTyped' /\ ChainsBounded'
    BY <1>1, <1>2, <2>1, <2>2 DEF TimersTyped, ChainsBounded
  <2> QED
    BY <2>1, <2>3 DEF TimersInv, RoomForATimer, NeverStalls
<1>3. CASE ~ (process = "up" /\ ~ paused')
  <2>1. handle' = handle /\ orphans' = orphans
    BY <1>3 DEF ScheduleNext
  <2>2. TimersTyped' /\ ChainsBounded' /\ RoomForATimer'
    BY <1>1, <2>1 DEF TimersTyped, ChainsBounded, RoomForATimer
  <2>3. NeverStalls'
    BY <1>3 DEF NeverStalls
  <2> QED BY <2>2, <2>3 DEF TimersInv
<1> QED BY <1>2, <1>3

LEMMA ChooseKeepsTimers ==
  ASSUME TimersInv, Choose
  PROVE  TimersInv'
<1>1. CASE goal.tx >= DailyGoal
  BY <1>1, CallbackEnds DEF Choose, TimersInv, TimersTyped
<1>2. CASE ~ (goal.tx >= DailyGoal)
  BY <1>2 DEF Choose, TimersInv, TimersTyped, ChainsBounded, RoomForATimer, NeverStalls, Busy
<1> QED BY <1>1, <1>2

LEMMA FinishKeepsTimers ==
  ASSUME TimersInv, NEW o \in Outcomes, Finish(o)
  PROVE  TimersInv'
<1>1. paused' \in BOOLEAN
  BY DEF Finish, TimersInv, TimersTyped
<1>2. /\ process # "down" /\ ScheduleNext /\ process' = process /\ races' = races
      /\ executing > 0 /\ executing' = executing - 1 /\ choosing' = choosing
  BY DEF Finish
<1> QED BY <1>1, <1>2, CallbackEnds

LEMMA PollKeepsTimers ==
  ASSUME TimersInv, PollActs
  PROVE  TimersInv'
<1>1. CASE poll = "run"
  BY <1>1, ResumeKeepsTimers DEF PollActs
<1>2. CASE poll # "run"
  BY <1>2 DEF PollActs, TimersInv, TimersTyped, ChainsBounded, RoomForATimer, NeverStalls, Busy
<1> QED BY <1>1, <1>2

(* The process begins and ends.                                            *)
Starts == \E failed \in BOOLEAN : Start(failed)
ToolBegins == \E failed \in BOOLEAN : ToolStarts(failed)

LEMMA ProcessKeepsTimers ==
  ASSUME TimersInv, Starts \/ StopScheduler \/ Exit \/ Crash
  PROVE  TimersInv'
<1> USE DEF TimersInv, TimersTyped, ChainsBounded, RoomForATimer, NeverStalls, Busy
<1>1. CASE Starts
  BY <1>1 DEF Starts, Start
<1>2. CASE StopScheduler
  BY <1>2 DEF StopScheduler
<1>3. CASE Exit \/ Crash
  <2>1. /\ process' = "down" /\ handle' = "none" /\ paused' \in BOOLEAN
        /\ orphans' = 0 /\ choosing' = 0 /\ executing' = 0 /\ races' = races
    BY <1>3 DEF Exit, Crash, MemoryGone
  <2> QED BY <2>1
<1> QED BY <1>1, <1>2, <1>3

LEMMA BotStepKeeps ==
  ASSUME TimersInv, [Next]_vars
  PROVE  TimersInv'
<1>1. CASE PollReads \/ PollFails \/ SaveState
  BY <1>1, OthersKeepTimers DEF PollReads, PollFails, SaveState
<1>2. CASE \/ ToolBegins \/ ToolBootstraps \/ ToolEnds \/ Midnight
            \/ \E c \in Commands : RemoteCommand(c)
  BY <1>2, OthersKeepTimers
     DEF ToolBegins, ToolStarts, ToolBootstraps, ToolEnds, Midnight, RemoteCommand
<1>3. CASE CooldownOver
  BY <1>3, ResumeKeepsTimers DEF CooldownOver
<1>4. CASE UNCHANGED vars
  BY <1>4, OthersKeepTimers DEF vars, scheduler
<1> QED
  BY <1>1, <1>2, <1>3, <1>4, FiringKeepsTimers, ChooseKeepsTimers, FinishKeepsTimers,
     PollKeepsTimers, ProcessKeepsTimers
  DEF Next, Starts, ToolBegins

(* However many pauses, resumes, cooldowns and restarts there are, there   *)
(* is at most one chain of timers more than resumes that raced a callback. *)
THEOREM ChainsAlwaysBounded == Spec => []ChainsBounded
<1>1. TimersInv => ChainsBounded
  BY DEF TimersInv
<1> QED BY TimersInit, BotStepKeeps, <1>1, PTL DEF Spec

(* And a bot that runs and is not paused never has nothing left to do.     *)
THEOREM NeverStallsAlways == Spec => []NeverStalls
<1>1. TimersInv => NeverStalls
  BY DEF TimersInv
<1> QED BY TimersInit, BotStepKeeps, <1>1, PTL DEF Spec

-----------------------------------------------------------------------------
(* The counters of the day.  Once the tracker has begun the day, the two   *)
(* differ by what scenarios of the day before had counted in the one only; *)
(* until then, by no more than are still at work or already counted.  A    *)
(* day's count includes the scenarios at work, and survives in the row.    *)
Limit == DailyGoal + races + carried + boots
TodaysTx(c) == IF c.date = today THEN c.tx ELSE 0

DayTyped ==
  /\ stats \in [date : Nat, tx : Nat] /\ goal \in [date : Nat, tx : Nat]
  /\ tool \in [date : Nat, tx : Nat, due : BOOLEAN] /\ boots \in Nat
  /\ doc \in [isRunning : BOOLEAN, date : Nat, tx : Nat]
  /\ today \in 0 .. MaxDay /\ carried \in Nat
  /\ stats.date <= today /\ goal.date <= today
  /\ doc.date <= today \/ doc.date = MaxDay + 1
  /\ tool.date <= today \/ tool.date = MaxDay + 1
BothCounted ==
  IF goal.date = today THEN TodaysTx(stats) - goal.tx \in 0 .. carried
                       ELSE TodaysTx(stats) + Busy <= carried
GoalWithin == goal.tx + executing <= Limit
StatsWithin ==
  TodaysTx(stats) + executing <= Limit /\ TodaysTx(doc) <= Limit /\ TodaysTx(tool) <= Limit

DayInv == TimersInv /\ DayTyped /\ BothCounted /\ GoalWithin /\ StatsWithin

LEMMA DayInit == Init => DayInv
<1> SUFFICES ASSUME Init PROVE DayInv
  OBVIOUS
<1>1. /\ stats = [date |-> 0, tx |-> 0] /\ goal = [date |-> 0, tx |-> 0]
      /\ tool.date = MaxDay + 1 /\ tool.tx = 0 /\ doc.date = MaxDay + 1 /\ doc.tx = 0
      /\ tool \in [date : Nat, tx : Nat, due : BOOLEAN]
      /\ doc \in [isRunning : BOOLEAN, date : Nat, tx : Nat]
      /\ today = 0 /\ carried = 0 /\ races = 0 /\ boots = 0 /\ executing = 0 /\ choosing = 0
  BY BotAssumption DEF Init, NoDoc, NoTool
<1>2. DayTyped
  BY <1>1, BotAssumption DEF DayTyped
<1>3. BothCounted /\ GoalWithin /\ StatsWithin
  BY <1>1, BotAssumption DEF BothCounted, GoalWithin, StatsWithin, TodaysTx, Limit
<1> QED BY <1>2, <1>3, TimersInit DEF DayInv

(* Steps that count nothing and start no scenario.                         *)
LEMMA OthersKeepDay ==
  ASSUME DayInv, TimersInv', UNCHANGED <<counters, doc, tool, boots, today, carried>>,
         executing' <= executing, Busy' <= Busy, races' >= races
  PROVE  DayInv'
<1>1. /\ executing \in Nat /\ executing' \in Nat /\ Busy \in Nat /\ Busy' \in Nat
      /\ races \in Nat /\ races' \in Nat /\ carried \in Nat /\ DailyGoal \in Nat
      /\ stats \in [date : Nat, tx : Nat] /\ goal \in [date : Nat, tx : Nat]
      /\ boots \in Nat /\ tool \in [date : Nat, tx : Nat, due : BOOLEAN]
      /\ doc \in [isRunning : BOOLEAN, date : Nat, tx : Nat]
  <2>1. /\ executing \in Nat /\ choosing \in Nat /\ races \in Nat
        /\ executing' \in Nat /\ choosing' \in Nat /\ races' \in Nat
    BY DEF DayInv, TimersInv, TimersTyped
  <2>2. Busy \in Nat /\ Busy' \in Nat
    <3>1. PICK c \in Nat, e \in Nat : c = choosing' /\ e = executing'
      BY <2>1
    <3>2. Busy = choosing + executing /\ Busy' = c + e
      BY <3>1 DEF Busy
    <3> QED BY <2>1, <3>2
  <2>3. /\ carried \in Nat /\ DailyGoal \in Nat
        /\ stats \in [date : Nat, tx : Nat] /\ goal \in [date : Nat, tx : Nat]
        /\ boots \in Nat /\ tool \in [date : Nat, tx : Nat, due : BOOLEAN]
        /\ doc \in [isRunning : BOOLEAN, date : Nat, tx : Nat]
    BY BotAssumption DEF DayInv, DayTyped
  <2> QED BY <2>1, <2>2, <2>3
<1>2. DayTyped'
  BY DEF DayInv, DayTyped, counters
<1>3. BothCounted' /\ GoalWithin' /\ StatsWithin'
  <2>1. UNCHANGED <<stats, goal, doc, tool, boots, today, carried>>
    BY DEF counters
  <2>2. /\ TodaysTx(stats)' = TodaysTx(stats) /\ TodaysTx(doc)' = TodaysTx(doc)
        /\ TodaysTx(tool)' = TodaysTx(tool)
        /\ TodaysTx(stats) \in Nat /\ TodaysTx(doc) \in Nat /\ TodaysTx(tool) \in Nat
    BY <1>1, <2>1 DEF TodaysTx
  <2>3. Limit \in Nat /\ Limit' \in Nat /\ Limit' >= Limit
    <3>1. PICK r \in Nat : r = races' /\ r >= races
      BY <1>1
    <3>2. Limit = DailyGoal + races + carried + boots /\ Limit' = DailyGoal + r + carried + boots
      BY <2>1, <3>1 DEF Limit
    <3>3. /\ r >= races /\ races \in Nat /\ carried \in Nat /\ DailyGoal \in Nat
          /\ boots \in Nat
      BY <1>1, <3>1
    <3> QED BY <3>2, <3>3
  <2>4. BothCounted /\ GoalWithin /\ StatsWithin
    BY DEF DayInv
  <2>5. BothCounted'
    BY <1>1, <2>1, <2>2, <2>4 DEF BothCounted
  <2>6. GoalWithin' /\ StatsWithin'
    BY <1>1, <2>1, <2>2, <2>3, <2>4 DEF GoalWithin, StatsWithin
  <2> QED BY <2>5, <2>6
<1> QED BY <1>2, <1>3 DEF DayInv

(* What the proofs of the other steps start from.                          *)
LEMMA DayFacts ==
  ASSUME DayInv
  PROVE  /\ executing \in Nat /\ choosing \in Nat /\ races \in Nat /\ carried \in Nat
         /\ Busy = choosing + executing /\ DailyGoal \in Nat \ {0}
         /\ today \in Nat /\ today <= MaxDay /\ MaxDay \in Nat
         /\ stats \in [date : Nat, tx : Nat] /\ goal \in [date : Nat, tx : Nat]
         /\ boots \in Nat /\ tool \in [date : Nat, tx : Nat, due : BOOLEAN]
         /\ doc \in [isRunning : BOOLEAN, date : Nat, tx : Nat]
         /\ Busy <= 1 + races /\ Limit = DailyGoal + races + carried + boots
         /\ TodaysTx(stats) \in Nat
<1>1. /\ executing \in Nat /\ choosing \in Nat /\ races \in Nat /\ carried \in Nat
      /\ orphans \in Nat /\ today \in Nat /\ today <= MaxDay /\ MaxDay \in Nat
      /\ stats \in [date : Nat, tx : Nat] /\ goal \in [date : Nat, tx : Nat]
      /\ boots \in Nat /\ tool \in [date : Nat, tx : Nat, due : BOOLEAN]
      /\ doc \in [isRunning : BOOLEAN, date : Nat, tx : Nat]
      /\ DailyGoal \in Nat \ {0}
  BY BotAssumption DEF DayInv, TimersInv, TimersTyped, DayTyped
<1>2. Busy <= 1 + races
  <2>1. orphans + Busy + (IF handle = "pending" THEN 1 ELSE 0) <= 1 + races
    BY DEF DayInv, TimersInv, ChainsBounded
  <2>2. Busy \in Nat
    BY <1>1 DEF Busy
  <2>3. CASE handle = "pending"
    BY <1>1, <2>1, <2>2, <2>3
  <2>4. CASE handle # "pending"
    BY <1>1, <2>1, <2>2, <2>4
  <2> QED BY <2>3, <2>4
<1> QED BY <1>1, <1>2 DEF Busy, Limit, TodaysTx

(* The row keeps what it had, or has what was saved.                       *)
LEMMA RowSaved ==
  ASSUME DayInv, doc' = doc \/ doc' = Saved(stats)
  PROVE  /\ doc' \in [isRunning : BOOLEAN, date : Nat, tx : Nat]
         /\ doc'.date <= today \/ doc'.date = MaxDay + 1
         /\ \/ doc'.date = doc.date /\ doc'.tx = doc.tx
            \/ doc'.date = stats.date /\ doc'.tx = stats.tx
<1>1. /\ stats.date <= today /\ (doc.date <= today \/ doc.date = MaxDay + 1)
      /\ stats.date \in Nat /\ stats.tx \in Nat
      /\ doc \in [isRunning : BOOLEAN, date : Nat, tx : Nat]
  BY DEF DayInv, DayTyped
<1>2. CASE doc' = doc
  BY <1>1, <1>2
<1>3. CASE doc' = Saved(stats)
  <2>1. doc' = [isRunning |-> TRUE, date |-> stats.date, tx |-> stats.tx]
    BY <1>3 DEF Saved
  <2> QED BY <1>1, <2>1
<1> QED BY <1>2, <1>3

(* Looking at the progress begins the tracker's day.                       *)
LEMMA LookKeepsDay ==
  ASSUME DayInv, TimersInv', goal' = Progress,
         UNCHANGED <<stats, tool, boots, today, carried, executing, races>>,
         doc' = doc \/ doc' = Saved(stats),
         goal.date = today => Busy' \in Nat
  PROVE  DayInv'
<1>1. /\ stats.date <= today /\ goal.date <= today
      /\ doc.date <= today \/ doc.date = MaxDay + 1
      /\ tool.date <= today \/ tool.date = MaxDay + 1
  BY DEF DayInv, DayTyped
<1>2. /\ doc' \in [isRunning : BOOLEAN, date : Nat, tx : Nat]
      /\ doc'.date <= today \/ doc'.date = MaxDay + 1
  BY RowSaved
<1>3. goal' \in [date : Nat, tx : Nat] /\ goal'.date = today
  BY DayFacts DEF Progress
<1>4. DayTyped'
  BY <1>1, <1>2, <1>3, DayFacts DEF DayInv, DayTyped
<1>5. BothCounted'
  BY <1>3, DayFacts DEF DayInv, BothCounted, Progress, TodaysTx
<1>6. GoalWithin'
  BY <1>3, DayFacts DEF DayInv, GoalWithin, Progress, Limit
<1>7. StatsWithin'
  <2>1. /\ TodaysTx(stats)' = TodaysTx(stats) /\ TodaysTx(tool)' = TodaysTx(tool)
        /\ TodaysTx(doc)' \in {TodaysTx(doc), TodaysTx(stats)} /\ Limit' = Limit
    BY RowSaved DEF TodaysTx, Limit
  <2> QED BY <2>1, DayFacts DEF DayInv, StatsWithin
<1> QED BY <1>4, <1>5, <1>6, <1>7 DEF DayInv

LEMMA TimerKeepsDay ==
  ASSUME DayInv, TimerFires
  PROVE  DayInv'
<1>1. TimersInv'
  BY FiringKeepsTimers DEF DayInv
<1>2. CASE process = "up" /\ ~ paused
  BY <1>1, <1>2, LookKeepsDay DEF TimerFires, outside, DayInv, TimersInv, TimersTyped, Busy
<1>3. CASE ~ (process = "up" /\ ~ paused)
  <2>1. Busy' = Busy /\ executing' = executing /\ races' = races
        /\ executing \in Nat /\ Busy \in Nat /\ races \in Nat
    BY <1>3, DayFacts DEF TimerFires, Busy
  <2> QED BY <1>1, <1>3, <2>1, OthersKeepDay DEF TimerFires, outside, counters
<1> QED BY <1>2, <1>3

(* A scenario is chosen only below the goal, of which one process at most  *)
(* chooses beside the races.                                               *)
LEMMA ChooseKeepsDay ==
  ASSUME DayInv, Choose
  PROVE  DayInv'
<1>1. TimersInv'
  BY ChooseKeepsTimers DEF DayInv
<1>2. CASE goal.tx >= DailyGoal
  <2>1. Busy' <= Busy /\ executing' <= executing /\ races' >= races
    BY <1>2, DayFacts DEF Choose, Busy
  <2> QED BY <1>1, <1>2, <2>1, OthersKeepDay DEF Choose, outside
<1>3. CASE ~ (goal.tx >= DailyGoal)
  <2>1. /\ choosing > 0 /\ choosing' = choosing - 1 /\ executing' = executing + 1
        /\ UNCHANGED <<stats, goal, doc, tool, boots, today, carried, races>>
    BY <1>3 DEF Choose, counters, outside
  <2>2. DayTyped'
    BY <2>1 DEF DayInv, DayTyped
  <2>3. BothCounted'
    <3>1. Busy' = Busy
      BY <2>1, DayFacts DEF Busy
    <3> QED BY <2>1, <3>1 DEF DayInv, BothCounted, TodaysTx
  <2>4. GoalWithin'
    BY <1>3, <2>1, DayFacts DEF GoalWithin, Limit
  <2>5. TodaysTx(stats) + executing + 1 <= Limit
    BY <1>3, <2>1, DayFacts DEF DayInv, BothCounted
  <2>6. StatsWithin'
    BY <2>1, <2>5, DayFacts DEF DayInv, StatsWithin, TodaysTx, Limit
  <2> QED BY <1>1, <2>2, <2>3, <2>4, <2>6 DEF DayInv
<1> QED BY <1>2, <1>3

(* A scenario that was at work is counted, once in each counter.           *)
LEMMA FinishKeepsDay ==
  ASSUME DayInv, NEW o \in Outcomes, Finish(o)
  PROVE  DayInv'
<1>1. TimersInv'
  BY FinishKeepsTimers DEF DayInv
<1>2. /\ executing > 0 /\ executing' = executing - 1 /\ choosing' = choosing
      /\ UNCHANGED <<doc, tool, boots, today, carried, races>>
      /\ Busy' = Busy - 1 /\ Busy \in Nat
  BY DayFacts DEF Finish, outside, Busy
<1>3. CASE o = "nothing"
  BY <1>1, <1>2, <1>3, DayFacts, OthersKeepDay DEF Finish
<1>4. CASE o # "nothing"
  <2>1. /\ stats' = [date |-> today, tx |-> 1 + TodaysTx(stats)]
        /\ goal'.date = goal.date /\ goal'.tx = goal.tx + 1
        /\ goal' \in [date : Nat, tx : Nat]
    <3>1. stats' = Counted(stats) /\ goal' = [goal EXCEPT !.tx = @ + 1]
      BY <1>4 DEF Finish, RecordActivity
    <3>2. Counted(stats) = [date |-> today, tx |-> 1 + TodaysTx(stats)]
      <4>1. PICK d \in Nat, n \in Nat : stats = [date |-> d, tx |-> n]
        BY DayFacts
      <4>2. PICK r : r = [stats EXCEPT !.date = today]
        OBVIOUS
      <4>3. r = [date |-> today, tx |-> n]
        BY <4>1, <4>2
      <4>4. Counted(stats) = [r EXCEPT !.tx = 1 + TodaysTx(stats)]
        BY <4>2 DEF Counted, TodaysTx
      <4> QED BY <4>3, <4>4
    <3> QED BY <3>1, <3>2, DayFacts
  <2>2. stats' \in [date : Nat, tx : Nat] /\ stats'.date = today
        /\ TodaysTx(stats)' = TodaysTx(stats) + 1
    BY <1>2, <2>1, DayFacts DEF TodaysTx
  <2>3. DayTyped'
    BY <1>2, <2>1, <2>2, DayFacts DEF DayInv, DayTyped
  <2>4. BothCounted'
    BY <1>2, <2>1, <2>2, DayFacts DEF DayInv, BothCounted
  <2>5. GoalWithin'
    BY <1>2, <2>1, DayFacts DEF DayInv, GoalWithin, Limit
  <2>6. StatsWithin'
    <3>1. TodaysTx(stats)' + executing' <= Limit'
      BY <1>2, <2>2, DayFacts DEF DayInv, StatsWithin, Limit
    <3>2. TodaysTx(doc)' <= Limit' /\ TodaysTx(tool)' <= Limit'
      BY <1>2 DEF DayInv, StatsWithin, Limit, TodaysTx
    <3> QED BY <3>1, <3>2 DEF StatsWithin
  <2> QED BY <1>1, <2>3, <2>4, <2>5, <2>6 DEF DayInv
<1> QED BY <1>3, <1>4

(* A resume races a callback or does not, and counts nothing.              *)
LEMMA ResumeKeepsDay ==
  ASSUME DayInv, CooldownOver \/ PollActs
  PROVE  DayInv'
<1>1. TimersInv'
  BY ResumeKeepsTimers, PollKeepsTimers DEF DayInv, CooldownOver
<1>2. Busy' = Busy /\ executing' = executing
  BY DEF CooldownOver, PollActs, Busy
<1>3. races' >= races
  BY DayFacts DEF CooldownOver, PollActs, Resume
<1> QED
  BY <1>1, <1>2, <1>3, DayFacts, OthersKeepDay DEF CooldownOver, PollActs, outside

(* The process starts with the day's count of the row, and ends having     *)
(* forgotten both counters.                                                *)
LEMMA ProcessKeepsDay ==
  ASSUME DayInv, Starts \/ StopScheduler \/ Exit \/ Crash
  PROVE  DayInv'
<1>1. TimersInv'
  BY ProcessKeepsTimers DEF DayInv
<1>2. CASE StopScheduler
  <2>1. Busy' = Busy /\ executing' = executing /\ races' = races
    BY <1>2 DEF StopScheduler, Busy
  <2> QED BY <1>1, <1>2, <2>1, DayFacts, OthersKeepDay DEF StopScheduler
<1>3. CASE Starts
  <2>1. PICK n \in {0, TodaysTx(doc)} :
        /\ executing = 0 /\ choosing = 0
        /\ UNCHANGED <<doc, tool, boots, today, carried, races, executing, choosing>>
        /\ stats' = [date |-> today, tx |-> n] /\ goal' = stats'
    BY <1>3 DEF Starts, Start, Restored, Fresh, TodaysTx, outside, DayInv, TimersInv, TimersTyped
  <2>2. n \in Nat /\ n <= Limit /\ Limit' = Limit
    BY <2>1, DayFacts DEF DayInv, StatsWithin, TodaysTx, Limit
  <2>3. TodaysTx(stats)' = n
    BY <2>1 DEF TodaysTx
  <2>4. DayTyped'
    BY <2>1, <2>2, DayFacts DEF DayInv, DayTyped
  <2>5. BothCounted'
    BY <2>1, <2>2, <2>3, DayFacts DEF BothCounted
  <2>6. GoalWithin' /\ StatsWithin'
    <3>1. TodaysTx(doc)' = TodaysTx(doc) /\ TodaysTx(tool)' = TodaysTx(tool)
      BY <2>1 DEF TodaysTx
    <3> QED BY <2>1, <2>2, <2>3, <3>1 DEF DayInv, GoalWithin, StatsWithin
  <2> QED BY <1>1, <2>4, <2>5, <2>6 DEF DayInv
<1>4. CASE Exit \/ Crash
  <2>1. /\ executing' = 0 /\ choosing' = 0
        /\ stats' = [date |-> 0, tx |-> 0] /\ goal' = [date |-> 0, tx |-> 0]
        /\ UNCHANGED <<tool, boots, today, carried, races>>
        /\ doc' = doc \/ doc' = Saved(stats)
    BY <1>4 DEF Exit, Crash, MemoryGone, outside
  <2>2. DayTyped'
    BY <2>1, RowSaved, DayFacts DEF DayInv, DayTyped
  <2>3. TodaysTx(stats)' = 0 /\ Busy' = 0 /\ Limit' = Limit
    BY <2>1 DEF TodaysTx, Busy, Limit
  <2>4. BothCounted'
    BY <2>1, <2>3, DayFacts DEF BothCounted
  <2>5. GoalWithin'
    BY <2>1, <2>3, DayFacts DEF GoalWithin
  <2>6. StatsWithin'
    <3>1. TodaysTx(tool)' = TodaysTx(tool)
          /\ TodaysTx(doc)' \in {TodaysTx(doc), TodaysTx(stats)}
      BY <2>1, RowSaved DEF TodaysTx
    <3>2. TodaysTx(stats) <= Limit
      BY DayFacts DEF DayInv, StatsWithin
    <3> QED BY <2>1, <2>3, <3>1, <3>2, DayFacts DEF DayInv, StatsWithin
  <2> QED BY <1>1, <2>2, <2>4, <2>5, <2>6 DEF DayInv
<1> QED BY <1>2, <1>3, <1>4

(* Other commands restore the row, count the bootstrap that they run, and  *)
(* write it back; and the day ends.                                        *)
LEMMA OutsideKeepsDay ==
  ASSUME DayInv,
         \/ ToolBegins \/ ToolBootstraps \/ ToolEnds \/ Midnight
         \/ \E c \in Commands : RemoteCommand(c)
  PROVE  DayInv'
<1>1. TimersInv'
  BY OthersKeepTimers
     DEF DayInv, ToolBegins, ToolStarts, ToolBootstraps, ToolEnds, Midnight, RemoteCommand
<1>2. CASE ToolBegins \/ ToolEnds \/ \E c \in Commands : RemoteCommand(c)
  <2>1. UNCHANGED <<stats, goal, boots, today, carried, races, executing, choosing>>
    BY <1>2 DEF ToolBegins, ToolStarts, ToolEnds, RemoteCommand, counters, scheduler
  <2>2. /\ doc' \in [isRunning : BOOLEAN, date : Nat, tx : Nat]
        /\ tool' \in [date : Nat, tx : Nat, due : BOOLEAN]
        /\ doc'.date <= today \/ doc'.date = MaxDay + 1
        /\ tool'.date <= today \/ tool'.date = MaxDay + 1
        /\ TodaysTx(doc)' \in {TodaysTx(doc), TodaysTx(tool)}
        /\ TodaysTx(tool)' \in {0, TodaysTx(doc), TodaysTx(tool)}
    <3>1. CASE ToolBegins
      <4>1. PICK n \in {0, TodaysTx(doc)}, due \in BOOLEAN :
              tool' = [date |-> today, tx |-> n, due |-> due] /\ doc' = doc
        BY <3>1 DEF ToolBegins, ToolStarts, Restored, Fresh, TodaysTx
      <4>2. n \in Nat
        BY DayFacts DEF TodaysTx
      <4> QED BY <4>1, <4>2, <2>1, DayFacts DEF TodaysTx, DayInv, DayTyped
    <3>2. CASE ToolEnds
      BY <3>2, <2>1, DayFacts DEF ToolEnds, Saved, NoTool, TodaysTx, DayInv, DayTyped
    <3>3. CASE \E c \in Commands : RemoteCommand(c)
      <4>1. PICK c \in Commands : doc' = [doc EXCEPT !.isRunning = (c = "run")] /\ tool' = tool
        BY <3>3 DEF RemoteCommand
      <4> QED BY <4>1, <2>1, DayFacts DEF TodaysTx, DayInv, DayTyped
    <3> QED BY <1>2, <3>1, <3>2, <3>3
  <2>3. DayTyped'
    BY <2>1, <2>2 DEF DayInv, DayTyped
  <2>4. TodaysTx(stats)' = TodaysTx(stats) /\ Busy' = Busy /\ Limit' = Limit
    BY <2>1 DEF TodaysTx, Busy, Limit
  <2>5. BothCounted' /\ GoalWithin'
    BY <2>1, <2>4 DEF DayInv, BothCounted, GoalWithin
  <2>6. StatsWithin'
    BY <2>1, <2>2, <2>4, DayFacts DEF DayInv, StatsWithin
  <2> QED BY <1>1, <2>3, <2>5, <2>6 DEF DayInv
<1>3. CASE ToolBootstraps
  <2>1. /\ UNCHANGED <<stats, goal, doc, today, carried, races, executing, choosing>>
        /\ boots' = boots + 1
        /\ tool' = [date |-> today, tx |-> 1 + TodaysTx(tool), due |-> FALSE]
    <3>1. tool \in [date : Nat, tx : Nat, due : BOOLEAN]
      BY DayFacts
    <3> QED BY <1>3, <3>1 DEF ToolBootstraps, Counted, TodaysTx, counters, scheduler
  <2>2. TodaysTx(tool) \in Nat
    BY DayFacts DEF TodaysTx
  <2>3. DayTyped'
    BY <2>1, <2>2, DayFacts DEF DayInv, DayTyped
  <2>4. /\ TodaysTx(stats)' = TodaysTx(stats) /\ TodaysTx(doc)' = TodaysTx(doc)
        /\ TodaysTx(tool)' = 1 + TodaysTx(tool) /\ Busy' = Busy /\ Limit' = Limit + 1
    BY <2>1, DayFacts DEF TodaysTx, Busy, Limit
  <2>5. BothCounted' /\ GoalWithin'
    BY <2>1, <2>4, DayFacts DEF DayInv, BothCounted, GoalWithin
  <2>6. StatsWithin'
    <3>1. TodaysTx(doc) \in Nat
      BY DayFacts DEF TodaysTx
    <3> QED BY <2>1, <2>2, <2>4, <3>1, DayFacts DEF DayInv, StatsWithin
  <2> QED BY <1>1, <2>3, <2>5, <2>6 DEF DayInv
<1>4. CASE Midnight
  <2>1. /\ UNCHANGED <<stats, goal, doc, tool, boots, races, executing, choosing>>
        /\ today < MaxDay /\ today' = today + 1 /\ carried' = carried + Busy
    BY <1>4 DEF Midnight, counters, scheduler
  <2>2. DayTyped'
    BY <2>1, DayFacts DEF DayInv, DayTyped
  <2>3. /\ stats.date # today' /\ goal.date # today' /\ doc.date # today' /\ tool.date # today'
    BY <2>1, DayFacts DEF DayInv, DayTyped
  <2>4. /\ TodaysTx(stats)' = 0 /\ TodaysTx(doc)' = 0 /\ TodaysTx(tool)' = 0
        /\ Busy' = Busy /\ Limit' = Limit + Busy
    BY <2>1, <2>3, DayFacts DEF TodaysTx, Busy, Limit
  <2>5. BothCounted'
    BY <2>1, <2>3, <2>4, DayFacts DEF BothCounted
  <2>6. GoalWithin' /\ StatsWithin'
    BY <2>1, <2>4, DayFacts DEF DayInv, GoalWithin, StatsWithin
  <2> QED BY <1>1, <2>2, <2>5, <2>6 DEF DayInv
<1> QED BY <1>2, <1>3, <1>4

LEMMA BotStepKeepsDay ==
  ASSUME DayInv, [Next]_vars
  PROVE  DayInv'
<1>1. CASE PollReads \/ PollFails \/ UNCHANGED vars
  <2>1. TimersInv'
    BY <1>1, BotStepKeeps DEF DayInv, Next
  <2>2. /\ Busy' = Busy /\ executing' = executing /\ races' = races
        /\ UNCHANGED <<counters, doc, tool, boots, today, carried>>
    BY <1>1 DEF PollReads, PollFails, vars, scheduler, outside, counters, Busy
  <2> QED BY <2>1, <2>2, DayFacts, OthersKeepDay
<1>2. CASE SaveState
  <2>1. TimersInv'
    BY <1>2, BotStepKeeps DEF DayInv, Next
  <2>2. UNCHANGED <<stats, tool, boots, today, carried, executing, races, choosing>>
    BY <1>2 DEF SaveState, scheduler, outside
  <2> QED BY <1>2, <2>1, <2>2, DayFacts, LookKeepsDay DEF SaveState, Busy
<1> QED
  BY <1>1, <1>2, TimerKeepsDay, ChooseKeepsDay, FinishKeepsDay, ResumeKeepsDay,
     ProcessKeepsDay, OutsideKeepsDay
  DEF Next, Starts, ToolBegins

(* For any goal, any number of restarts, midnights and other commands: the *)
(* day's scenarios exceed the goal by no more than the chains of timers    *)
(* beside the first, what a midnight carried over, and the bootstraps that *)
(* another process counted; and the two counters of a day, which reset     *)
(* each on its own, differ by no more than what was carried over           *)
(* (goal-tracker.ts, state-manager.ts).                                    *)
THEOREM DailyGoalAlwaysKept == Spec => []DailyGoalKept
<1>1. DayInv => DailyGoalKept
  <2> SUFFICES ASSUME DayInv PROVE DailyGoalKept
    OBVIOUS
  <2>1. DailyGoalBounded
    BY DayFacts DEF DayInv, GoalWithin, DailyGoalBounded
  <2>2. CountersAgree
    BY DayFacts DEF DayInv, BothCounted, TodaysTx, CountersAgree
  <2> QED BY <2>1, <2>2 DEF DailyGoalKept
<1> QED BY DayInit, BotStepKeepsDay, <1>1, PTL DEF Spec

-----------------------------------------------------------------------------
(* The set-up.  Every memory of the merchants is a pool, numbered from 1,  *)
(* and records what has happened; a process that enrolls a merchant has    *)
(* sent its application, and a cycle knows its bill's status.              *)
Phases == {"down", "ended", "run", "pay", "repay", "accounts", "onboard", "enroll", "approve",
           "approveOnChain", "sync"}
Job == [command : ToolCommands \cup {"run", "none"}, phase : Phases, at : Nat \ {0}]

IsPool(f) == \E k \in 0 .. N : f \in [1 .. k -> Entry]
Truthful(f) ==
  \A m \in DOMAIN f :
    /\ f[m].mongoId => applications[m] # "none"
    /\ f[m].merchantStatus = "pending" => chain[m] # "Absent"
    /\ f[m].merchantStatus = "approved" => m \in approved \/ misused
Memory(f) == IsPool(f) /\ Truthful(f)

Statuses == {"Absent", "Pending", "Approved"} \cup Verdicts
PlacesTyped ==
  /\ applications \in [1 .. N -> {"none", "SUBMITTED", "APPROVED"}]
  /\ chain \in [1 .. N -> Statuses]
  /\ misused \in BOOLEAN
  /\ job \in [Processes -> Job]
  /\ activeBills \in [Processes -> BOOLEAN] /\ saved.active \in BOOLEAN
  /\ pool = [p \in Processes |-> pool[p]]
AccountsNumbered ==
  /\ \E a \in 0 .. N : accounts = 1 .. a
  /\ \A p \in Processes : DOMAIN pool[p] \subseteq accounts
PoolsTruthful == Memory(saved.pool) /\ \A p \in Processes : Memory(pool[p])
EnrollsApplicants ==
  \A p \in Processes : At(p, "enroll") =>
    job[p].at \in 1 .. N /\ applications[job[p].at] # "none"

AnyActive == saved.active \/ \E p \in Processes : activeBills[p]
CycleKnows ==
  /\ AnyActive => loan \in {"Paid", "Liquidated"}
  /\ At("bot", "pay") => loan = "Created"
  /\ At("bot", "repay") => loan \in {"Paid", "Liquidated"} /\ ~ AnyActive

SetupInv ==
  PlacesTyped /\ AccountsNumbered /\ PoolsTruthful /\ EnrollsApplicants /\ CycleKnows

LEMMA SetupInitially == SetupInit => SetupInv
<1> SUFFICES ASSUME SetupInit PROVE SetupInv
  OBVIOUS
<1>1. Memory(NoPool)
  <2>1. NoPool \in [1 .. 0 -> Entry] /\ DOMAIN NoPool = {}
    BY DEF NoPool
  <2> QED BY <2>1, BotSetupAssumption DEF Memory, IsPool, Truthful
<1>2. PlacesTyped
  <2>1. Down \in Job
    BY DEF Job, Down, Phases
  <2>2. pool = [p \in Processes |-> pool[p]]
    BY DEF SetupInit
  <2>3. /\ job \in [Processes -> Job] /\ activeBills \in [Processes -> BOOLEAN]
        /\ saved.active \in BOOLEAN
    BY <2>1 DEF SetupInit
  <2> QED BY <2>2, <2>3 DEF SetupInit, PlacesTyped, Statuses
<1>3. AccountsNumbered
  <2>1. accounts = 1 .. 0
    BY DEF SetupInit
  <2>2. \A p \in Processes : DOMAIN pool[p] = {}
    BY DEF SetupInit, NoPool
  <2> QED BY <2>1, <2>2, BotSetupAssumption DEF AccountsNumbered
<1>4. PoolsTruthful
  BY <1>1 DEF SetupInit, PoolsTruthful
<1>5. EnrollsApplicants /\ CycleKnows
  BY DEF SetupInit, EnrollsApplicants, CycleKnows, AnyActive, At, Down, Processes
<1> QED BY <1>2, <1>3, <1>4, <1>5 DEF SetupInv

(* The size of a pool is its last merchant.                                *)
LEMMA PoolSize ==
  ASSUME NEW f, IsPool(f)
  PROVE  /\ Cardinality(DOMAIN f) \in 0 .. N
         /\ f \in [1 .. Cardinality(DOMAIN f) -> Entry]
<1>1. PICK k \in 0 .. N : f \in [1 .. k -> Entry]
  BY DEF IsPool
<1>2. Cardinality(1 .. k) = k
  <2>1. 1 \in Int /\ k \in Int /\ k >= 0 /\ k \in Nat
    BY <1>1
  <2> QED BY <2>1, FS_Interval
<1>3. DOMAIN f = 1 .. k
  BY <1>1
<1> QED BY <1>1, <1>2, <1>3

(* What happened stays so.                                                 *)
History ==
  /\ \A m \in 1 .. N : /\ applications[m] # "none" => applications'[m] # "none"
                       /\ chain[m] # "Absent" => chain'[m] # "Absent"
  /\ approved \subseteq approved' /\ (misused => misused')

LEMMA MemoryStays ==
  ASSUME NEW f, Memory(f), History
  PROVE  Memory(f)'
<1>1. \A m \in DOMAIN f : m \in 1 .. N
  BY BotSetupAssumption DEF Memory, IsPool
<1> QED BY <1>1 DEF Memory, IsPool, Truthful, History

(* A pool of which one entry is written, truthfully.                       *)
LEMMA EntryWritten ==
  ASSUME NEW f, Memory(f), History, NEW m \in Nat, NEW e,
         m \in DOMAIN f =>
           /\ e \in Entry
           /\ e.mongoId => applications'[m] # "none"
           /\ e.merchantStatus = "pending" => chain'[m] # "Absent"
           /\ e.merchantStatus = "approved" => m \in approved' \/ misused'
  PROVE  Memory([f EXCEPT ![m] = e])'
<1> DEFINE g == [f EXCEPT ![m] = e]
<1>1. Memory(f)'
  BY MemoryStays
<1>2. IsPool(g)
  BY DEF Memory, IsPool
<1>3. DOMAIN g = DOMAIN f /\ \A n \in DOMAIN g : g[n] = IF n = m THEN e ELSE f[n]
  OBVIOUS
<1> HIDE DEF g
<1>4. Memory(g)'
  BY <1>1, <1>2, <1>3 DEF Memory, IsPool, Truthful
<1> QED BY <1>4 DEF g

(* The pools of a step that changes one of them, or none.                  *)
LEMMA PoolsStay ==
  ASSUME SetupInv, History, saved' = saved, pool' = pool
  PROVE  PoolsTruthful'
<1>1. PICK s : s = saved.pool
  OBVIOUS
<1>2. Memory(s)'
  BY <1>1, MemoryStays DEF SetupInv, PoolsTruthful
<1>3. ASSUME NEW p \in Processes PROVE Memory(pool[p])'
  <2>1. PICK f : f = pool[p]
    OBVIOUS
  <2>2. Memory(f)'
    BY <2>1, MemoryStays DEF SetupInv, PoolsTruthful
  <2> QED BY <2>1, <2>2
<1> QED BY <1>1, <1>2, <1>3 DEF PoolsTruthful

LEMMA PoolWritten ==
  ASSUME SetupInv, History, saved' = saved, NEW q \in Processes, NEW g, Memory(g)',
         pool' = [pool EXCEPT ![q] = g]
  PROVE  PoolsTruthful' /\ pool' = [p \in Processes |-> pool'[p]]
<1>1. PICK s : s = saved.pool
  OBVIOUS
<1>2. Memory(s)'
  BY <1>1, MemoryStays DEF SetupInv, PoolsTruthful
<1>3. /\ pool'[q] = g /\ \A p \in Processes \ {q} : pool'[p] = pool[p]
      /\ pool' = [p \in Processes |-> pool'[p]]
  BY DEF SetupInv, PlacesTyped
<1>4. ASSUME NEW p \in Processes PROVE Memory(pool[p])'
  <2>1. CASE p = q
    BY <1>3, <2>1
  <2>2. CASE p # q
    <3>1. PICK f : f = pool[p]
      OBVIOUS
    <3>2. Memory(f)'
      BY <3>1, MemoryStays DEF SetupInv, PoolsTruthful
    <3> QED BY <1>3, <2>2, <3>1, <3>2
  <2> QED BY <2>1, <2>2
<1> QED BY <1>1, <1>2, <1>3, <1>4 DEF PoolsTruthful

(* A process moves to a phase that is none of the three that know more.    *)
LEMMA JobMoves ==
  ASSUME SetupInv, NEW q \in Processes, NEW v \in Job, job' = [job EXCEPT ![q] = v],
         History, v.phase \notin {"pay", "repay"},
         v.phase = "enroll" => v.at \in 1 .. N /\ applications'[v.at] # "none"
  PROVE  /\ job' \in [Processes -> Job] /\ EnrollsApplicants'
         /\ At("bot", "pay")' => At("bot", "pay")
         /\ At("bot", "repay")' => At("bot", "repay")
<1>1. /\ job' \in [Processes -> Job] /\ job'[q] = v
      /\ \A p \in Processes \ {q} : job'[p] = job[p]
  BY DEF SetupInv, PlacesTyped
<1>2. EnrollsApplicants'
  BY <1>1 DEF SetupInv, EnrollsApplicants, At, History
<1> QED BY <1>1, <1>2 DEF At, Processes

(* A process goes on in phase f, with the same merchant or another.        *)
Going(q, f, a) == [command |-> job[q].command, phase |-> f, at |-> a]

InPhase(r, f) == [r EXCEPT !.phase = f]
With(r, a) == [r EXCEPT !.at = a]

LEMMA WithWritten ==
  ASSUME NEW c, NEW f, NEW n, NEW a, NEW r, r = [command |-> c, phase |-> f, at |-> n]
  PROVE  With(r, a) = [command |-> c, phase |-> f, at |-> a]
BY DEF With

LEMMA RecordMoves ==
  ASSUME NEW r \in Job, NEW f \in Phases, NEW a \in Nat \ {0}
  PROVE  /\ InPhase(r, f) = [command |-> r.command, phase |-> f, at |-> r.at]
         /\ With(InPhase(r, f), a) = [command |-> r.command, phase |-> f, at |-> a]
         /\ [command |-> r.command, phase |-> f, at |-> a] \in Job
<1>1. PICK c \in ToolCommands \cup {"run", "none"}, h \in Phases, n \in Nat \ {0} :
        r = [command |-> c, phase |-> h, at |-> n]
  BY DEF Job
<1>2. r.command = c /\ r.at = n
  BY <1>1
<1>3. InPhase(r, f) = [command |-> c, phase |-> f, at |-> n]
  BY <1>1 DEF InPhase
<1>4. With(InPhase(r, f), a) = [command |-> c, phase |-> f, at |-> a]
  BY <1>3, WithWritten
<1>5. [command |-> c, phase |-> f, at |-> a] \in Job
  BY DEF Job
<1> QED BY <1>2, <1>3, <1>4, <1>5

(* Two writes of one place are the second.                                 *)
LEMMA WrittenTwice ==
  ASSUME NEW D, NEW R, NEW F \in [D -> R], NEW q \in D, NEW x, NEW y
  PROVE  /\ [F EXCEPT ![q] = x][q] = x
         /\ [[F EXCEPT ![q] = x] EXCEPT ![q] = y] = [F EXCEPT ![q] = y]
<1>1. PICK G : G = [F EXCEPT ![q] = x]
  OBVIOUS
<1>2. /\ G = [d \in D |-> G[d]] /\ G[q] = x
      /\ \A d \in D \ {q} : G[d] = F[d]
  BY <1>1
<1>3. [G EXCEPT ![q] = y] = [F EXCEPT ![q] = y]
  BY <1>2
<1> QED BY <1>1, <1>2, <1>3

LEMMA PhaseMoves ==
  ASSUME SetupInv, NEW q \in Processes, NEW f \in Phases
  PROVE  /\ job[q].at \in Nat \ {0}
         /\ \A a \in Nat \ {0} :
              Going(q, f, a) \in Job /\ Going(q, f, a).phase = f /\ Going(q, f, a).at = a
         /\ Goto(q, f) => job' = [job EXCEPT ![q] = Going(q, f, job[q].at)]
         /\ NextMerchant(q, f) => job' = [job EXCEPT ![q] = Going(q, f, job[q].at + 1)]
         /\ job' = [job EXCEPT ![q].phase = f, ![q].at = 1] =>
              job' = [job EXCEPT ![q] = Going(q, f, 1)]
<1>1. job[q] \in Job /\ job \in [Processes -> Job]
  BY DEF SetupInv, PlacesTyped
<1>2. job[q].at \in Nat \ {0}
  BY <1>1 DEF Job
<1>3. PICK n \in Nat \ {0} : n = job[q].at
  BY <1>2
<1>4. PICK x : x = InPhase(job[q], f)
  OBVIOUS
<1>5. /\ x = Going(q, f, n)
      /\ \A a \in Nat \ {0} : With(x, a) = Going(q, f, a) /\ Going(q, f, a) \in Job
  BY <1>1, <1>3, <1>4, RecordMoves DEF Going
<1>6. ASSUME Goto(q, f) PROVE job' = [job EXCEPT ![q] = Going(q, f, n)]
  <2>1. job' = [job EXCEPT ![q] = x]
    BY <1>4, <1>6 DEF Goto, InPhase
  <2> QED BY <2>1, <1>5
<1>7. ASSUME NextMerchant(q, f) PROVE job' = [job EXCEPT ![q] = Going(q, f, n + 1)]
  <2>1. job' = [[job EXCEPT ![q] = x] EXCEPT ![q] = With([job EXCEPT ![q] = x][q], n + 1)]
    BY <1>3, <1>4, <1>7 DEF NextMerchant, InPhase, With
  <2>2. job' = [job EXCEPT ![q] = With(x, n + 1)]
    BY <1>1, <2>1, WrittenTwice
  <2>3. n + 1 \in Nat \ {0}
    OBVIOUS
  <2>4. With(x, n + 1) = Going(q, f, n + 1)
    BY <2>3, <1>5
  <2> QED BY <2>2, <2>4
<1>8. ASSUME job' = [job EXCEPT ![q].phase = f, ![q].at = 1]
      PROVE  job' = [job EXCEPT ![q] = Going(q, f, 1)]
  <2>1. job' = [[job EXCEPT ![q] = x] EXCEPT ![q] = With([job EXCEPT ![q] = x][q], 1)]
    BY <1>4, <1>8 DEF InPhase, With
  <2>2. job' = [job EXCEPT ![q] = With(x, 1)]
    BY <1>1, <2>1, WrittenTwice
  <2>3. With(x, 1) = Going(q, f, 1)
    BY <1>5
  <2> QED BY <2>2, <2>3
<1>9. \A a \in Nat \ {0} : Going(q, f, a).phase = f /\ Going(q, f, a).at = a
  BY DEF Going
<1>10. \A a \in Nat \ {0} :
         Going(q, f, a) \in Job /\ Going(q, f, a).phase = f /\ Going(q, f, a).at = a
  BY <1>5, <1>9
<1>11. NextMerchant(q, f) => job' = [job EXCEPT ![q] = Going(q, f, job[q].at + 1)]
  BY <1>3, <1>7
<1>12. Goto(q, f) => job' = [job EXCEPT ![q] = Going(q, f, job[q].at)]
  BY <1>3, <1>6
<1> QED BY <1>2, <1>8, <1>10, <1>11, <1>12, Zenon

LEMMA GotoMoves ==
  ASSUME SetupInv, NEW q \in Processes, NEW f \in Phases, Goto(q, f)
  PROVE  \E v \in Job : /\ v.phase = f /\ v.at = job[q].at
                         /\ job' = [job EXCEPT ![q] = v]
<1>1. job[q].at \in Nat \ {0} /\ job' = [job EXCEPT ![q] = Going(q, f, job[q].at)]
  BY PhaseMoves, Zenon
<1>2. \A a \in Nat \ {0} :
        Going(q, f, a) \in Job /\ Going(q, f, a).phase = f /\ Going(q, f, a).at = a
  BY PhaseMoves, Zenon
<1> QED BY <1>1, <1>2

(* The moves together, to a phase other than the knowing ones.             *)
PlainPhases == Phases \ {"pay", "repay", "enroll"}
Moves(q, f) ==
  \/ Goto(q, f) \/ NextMerchant(q, f)
  \/ job' = [job EXCEPT ![q].phase = f, ![q].at = 1]
  \/ job' = [job EXCEPT ![q] = Going(q, f, 1)]

LEMMA OverMoves ==
  ASSUME NEW q, Over(q)
  PROVE  \E f \in PlainPhases : Moves(q, f)
<1>1. PICK f : f = IF job[q].command = "run" THEN "run" ELSE "ended"
  OBVIOUS
<1>2. f \in PlainPhases
  BY <1>1 DEF PlainPhases, Phases
<1>3. job' = [job EXCEPT ![q] = Going(q, f, 1)]
  BY <1>1 DEF Over, Going
<1> QED BY <1>2, <1>3 DEF Moves

LEMMA PlainMove ==
  ASSUME SetupInv, NEW q \in Processes, History, \E f \in PlainPhases : Moves(q, f)
  PROVE  /\ job' \in [Processes -> Job] /\ EnrollsApplicants'
         /\ At("bot", "pay")' => At("bot", "pay")
         /\ At("bot", "repay")' => At("bot", "repay")
<1>0. PICK f \in PlainPhases : Moves(q, f)
  OBVIOUS
<1>1. f \in Phases /\ f \notin {"pay", "repay", "enroll"}
  BY DEF PlainPhases
<1>2. \E a \in Nat \ {0} : job' = [job EXCEPT ![q] = Going(q, f, a)]
  <2>1. PICK n \in Nat \ {0} : n = job[q].at
    BY <1>1, PhaseMoves
  <2>2. n + 1 \in Nat \ {0} /\ 1 \in Nat \ {0}
    OBVIOUS
  <2>3. \/ job' = [job EXCEPT ![q] = Going(q, f, n)]
        \/ job' = [job EXCEPT ![q] = Going(q, f, n + 1)]
        \/ job' = [job EXCEPT ![q] = Going(q, f, 1)]
    BY <1>0, <1>1, <2>1, PhaseMoves DEF Moves
  <2> QED BY <2>1, <2>2, <2>3
<1>3. PICK a \in Nat \ {0} : job' = [job EXCEPT ![q] = Going(q, f, a)]
  BY <1>2
<1>4. Going(q, f, a) \in Job /\ Going(q, f, a).phase = f
  <2>1. f \in Phases
    BY <1>1
  <2>2. \A b \in Nat \ {0} :
          Going(q, f, b) \in Job /\ Going(q, f, b).phase = f /\ Going(q, f, b).at = b
    BY <2>1, PhaseMoves, Zenon
  <2> QED BY <1>3, <2>2
<1>5. PICK v \in Job : v = Going(q, f, a)
  BY <1>4
<1>6. v.phase \notin {"pay", "repay", "enroll"} /\ job' = [job EXCEPT ![q] = v]
  BY <1>1, <1>3, <1>4, <1>5
<1> QED BY <1>6, JobMoves

LEMMA JobStays ==
  ASSUME SetupInv, History, job' = job
  PROVE  /\ job' \in [Processes -> Job] /\ EnrollsApplicants'
         /\ At("bot", "pay")' => At("bot", "pay")
         /\ At("bot", "repay")' => At("bot", "repay")
BY DEF SetupInv, PlacesTyped, EnrollsApplicants, At, History

(* Where no bill and no note of one moves, the cycle knows what it knew.   *)
LEMMA CycleStays ==
  ASSUME SetupInv, loan' = loan, AnyActive' => AnyActive,
         At("bot", "pay")' => At("bot", "pay"),
         At("bot", "repay")' => At("bot", "repay")
  PROVE  CycleKnows'
BY DEF SetupInv, CycleKnows

LEMMA AccountsStay ==
  ASSUME SetupInv, accounts' = accounts,
         \A p \in Processes : DOMAIN pool'[p] \subseteq accounts
  PROVE  AccountsNumbered'
BY DEF SetupInv, AccountsNumbered

(* A step leaves the invariant if it leaves its parts.                     *)
LEMMA SetupKept ==
  ASSUME SetupInv, History,
         applications' \in [1 .. N -> {"none", "SUBMITTED", "APPROVED"}],
         chain' \in [1 .. N -> Statuses],
         misused' \in BOOLEAN, activeBills' \in [Processes -> BOOLEAN],
         saved'.active \in BOOLEAN,
         pool' = [p \in Processes |-> pool'[p]], AccountsNumbered', PoolsTruthful',
         job' \in [Processes -> Job], EnrollsApplicants',
         CycleKnows'
  PROVE  SetupInv'
BY DEF SetupInv, PlacesTyped

(* Of the merchants of a pool.                                             *)
LEMMA OfPool ==
  ASSUME SetupInv, NEW p \in Processes
  PROVE  /\ Memory(pool[p]) /\ Cardinality(DOMAIN pool[p]) \in 0 .. N
         /\ pool[p] \in [1 .. Cardinality(DOMAIN pool[p]) -> Entry]
         /\ DOMAIN pool[p] = 1 .. Cardinality(DOMAIN pool[p])
         /\ \A m \in DOMAIN pool[p] : m \in 1 .. N
         /\ DOMAIN pool[p] \subseteq accounts
<1>1. Memory(pool[p]) /\ DOMAIN pool[p] \subseteq accounts
  BY DEF SetupInv, PoolsTruthful, AccountsNumbered
<1>2. /\ Cardinality(DOMAIN pool[p]) \in 0 .. N
      /\ pool[p] \in [1 .. Cardinality(DOMAIN pool[p]) -> Entry]
  BY <1>1, PoolSize DEF Memory
<1> QED BY <1>1, <1>2, BotSetupAssumption

(* The steps that write no memory.                                         *)
LEMMA KilledKeeps ==
  ASSUME SetupInv, NEW p \in Processes, Killed(p)
  PROVE  SetupInv'
<1>1. History /\ saved' = saved /\ pool' = pool
  BY DEF Killed, History, places, memory
<1>2. PoolsTruthful' /\ AccountsNumbered'
  BY <1>1, PoolsStay, AccountsStay DEF Killed, places, SetupInv, AccountsNumbered
<1>3. Down \in Job /\ Down.phase = "down"
  BY DEF Down, Job, Phases
<1>4. /\ job' \in [Processes -> Job] /\ EnrollsApplicants'
      /\ At("bot", "pay")' => At("bot", "pay")
      /\ At("bot", "repay")' => At("bot", "repay")
  <2>1. PICK v \in Job : v = Down
    BY <1>3
  <2>2. v.phase \notin {"pay", "repay", "enroll"} /\ job' = [job EXCEPT ![p] = v]
    BY <1>3, <2>1 DEF Killed
  <2> QED BY <1>1, <2>2, JobMoves
<1>5. AnyActive' => AnyActive
  BY DEF Killed, AnyActive, memory
<1>6. CycleKnows'
  BY <1>4, <1>5, CycleStays DEF Killed, places
<1> QED BY <1>1, <1>2, <1>4, <1>6, SetupKept DEF Killed, places, memory, SetupInv, PlacesTyped

LEMMA AdminDecidesKeeps ==
  ASSUME SetupInv, AdminDecides
  PROVE  SetupInv'
<1>1. PICK m \in 1 .. N, s \in Verdicts : chain[m] # "Absent" /\ SetStatus(m, s)
  BY DEF AdminDecides
<1>2. /\ chain' \in [1 .. N -> Statuses]
      /\ \A n \in 1 .. N : chain'[n] = IF n = m THEN s ELSE chain[n]
      /\ approved \subseteq approved' /\ s # "Absent"
  BY <1>1, BotSetupAssumption DEF SetStatus, Statuses, SetupInv, PlacesTyped
<1>3. History
  BY <1>1, <1>2 DEF AdminDecides, History
<1>4. PoolsTruthful' /\ AccountsNumbered'
  BY <1>3, PoolsStay, AccountsStay DEF AdminDecides, memory, SetupInv, AccountsNumbered
<1>5. /\ job' \in [Processes -> Job] /\ EnrollsApplicants'
      /\ At("bot", "pay")' => At("bot", "pay")
      /\ At("bot", "repay")' => At("bot", "repay")
  BY <1>3, JobStays DEF AdminDecides
<1>6. AnyActive' => AnyActive
  BY DEF AdminDecides, AnyActive, memory
<1>7. CycleKnows'
  BY <1>5, <1>6, CycleStays DEF AdminDecides
<1> QED BY <1>2, <1>3, <1>4, <1>5, <1>7, SetupKept DEF AdminDecides, memory, SetupInv, PlacesTyped

(* A pool is saved as it is.                                               *)
LEMMA PoolSaved ==
  ASSUME SetupInv, History, NEW p \in Processes, SavePool(p), pool' = pool,
         activeBills' = activeBills
  PROVE  PoolsTruthful' /\ (AnyActive' => AnyActive) /\ saved'.active \in BOOLEAN
<1>1. /\ saved'.pool = pool[p] /\ saved'.active = activeBills[p]
      /\ activeBills[p] \in BOOLEAN
  BY DEF SavePool, SetupInv, PlacesTyped
<1>2. ASSUME NEW q \in Processes PROVE Memory(pool[q])'
  <2>1. PICK f : f = pool[q]
    OBVIOUS
  <2>2. Memory(f)'
    BY <2>1, MemoryStays DEF SetupInv, PoolsTruthful
  <2> QED BY <2>1, <2>2
<1>3. PICK g : g = pool[p]
  OBVIOUS
<1>4. Memory(g)'
  BY <1>3, MemoryStays DEF SetupInv, PoolsTruthful
<1>5. Memory(saved.pool)'
  BY <1>1, <1>3, <1>4
<1> QED BY <1>1, <1>2, <1>5 DEF PoolsTruthful, AnyActive

LEMMA SavesKeep ==
  ASSUME SetupInv, NEW p \in Processes,
         StopSetup(p) \/ (p = "bot" /\ SaveEachMinute)
  PROVE  SetupInv'
<1>1. /\ History /\ SavePool(p) /\ pool' = pool /\ activeBills' = activeBills
      /\ accounts' = accounts /\ applications' = applications /\ chain' = chain
      /\ loan' = loan /\ misused' = misused
  BY DEF StopSetup, SaveEachMinute, History, places, memory
<1>2. PoolsTruthful' /\ (AnyActive' => AnyActive) /\ saved'.active \in BOOLEAN
  BY <1>1, PoolSaved
<1>3. AccountsNumbered'
  BY <1>1, AccountsStay DEF SetupInv, AccountsNumbered
<1>4. Down \in Job /\ Down.phase = "down"
  BY DEF Down, Job, Phases
<1>5. /\ job' \in [Processes -> Job] /\ EnrollsApplicants'
      /\ At("bot", "pay")' => At("bot", "pay")
      /\ At("bot", "repay")' => At("bot", "repay")
  <2>1. CASE StopSetup(p)
    <3>1. PICK v \in Job : v = Down
      BY <1>4
    <3>2. v.phase \notin {"pay", "repay", "enroll"} /\ job' = [job EXCEPT ![p] = v]
      BY <1>4, <2>1, <3>1 DEF StopSetup
    <3> QED BY <1>1, <3>2, JobMoves
  <2>2. CASE SaveEachMinute
    BY <1>1, <2>2, JobStays DEF SaveEachMinute
  <2> QED BY <2>1, <2>2
<1>6. CycleKnows'
  BY <1>1, <1>2, <1>5, CycleStays
<1> QED BY <1>1, <1>2, <1>3, <1>5, <1>6, SetupKept DEF SetupInv, PlacesTyped

(* What a process that starts loads is a pool, of all the accounts.        *)
LEMMA LoadedIsMemory ==
  ASSUME SetupInv, NEW old, Memory(old)
  PROVE  Memory(Loaded(old)) /\ DOMAIN Loaded(old) = accounts
<1> DEFINE g == Loaded(old)
<1>1. PICK a \in 0 .. N : accounts = 1 .. a
  BY DEF SetupInv, AccountsNumbered
<1>2. NewEntry \in Entry /\ NewEntry.merchantStatus = "none" /\ ~ NewEntry.mongoId
  BY DEF Entry, NewEntry
<1>3. \A m \in DOMAIN old : old[m] \in Entry
  BY DEF Memory, IsPool
<1>4. /\ DOMAIN g = accounts
      /\ \A m \in accounts : g[m] = IF m \in DOMAIN old THEN old[m] ELSE NewEntry
      /\ g = [m \in accounts |-> g[m]]
  BY DEF Loaded
<1> HIDE DEF g
<1>5. \A m \in accounts : g[m] \in Entry
  BY <1>2, <1>3, <1>4
<1>6. g \in [1 .. a -> Entry]
  BY <1>1, <1>4, <1>5
<1>7. Truthful(g)
  BY <1>2, <1>4 DEF Memory, Truthful
<1>8. Memory(g) /\ DOMAIN g = accounts
  BY <1>4, <1>6, <1>7 DEF Memory, IsPool
<1> QED BY <1>8 DEF g

LEMMA StartSetupKeeps ==
  ASSUME SetupInv, NEW p \in Processes, StartSetup(p)
  PROVE  SetupInv'
<1>1. History /\ saved' = saved
  BY DEF StartSetup, History, places
<1>2. PICK c \in ToolCommands \cup {"run"} :
        job' = [job EXCEPT ![p] = [command |-> c, phase |-> FirstPhase(c), at |-> 1]]
  BY DEF StartSetup
<1>3. FirstPhase(c) \in Phases \ {"pay", "repay", "enroll"}
  BY DEF FirstPhase, Phases, ToolCommands
<1>4. /\ job' \in [Processes -> Job] /\ EnrollsApplicants'
      /\ At("bot", "pay")' => At("bot", "pay")
      /\ At("bot", "repay")' => At("bot", "repay")
  <2>1. [command |-> c, phase |-> FirstPhase(c), at |-> 1] \in Job
    BY <1>3 DEF Job
  <2>2. PICK v \in Job : v = [command |-> c, phase |-> FirstPhase(c), at |-> 1]
    BY <2>1
  <2>3. v.phase \notin {"pay", "repay", "enroll"} /\ job' = [job EXCEPT ![p] = v]
    BY <1>2, <1>3, <2>2
  <2> QED BY <1>1, <2>3, JobMoves
<1>5. Memory(saved.pool) /\ Memory(NoPool)
  <2>1. NoPool \in [1 .. 0 -> Entry] /\ DOMAIN NoPool = {}
    BY DEF NoPool
  <2>2. Memory(NoPool)
    BY <2>1, BotSetupAssumption DEF Memory, IsPool, Truthful
  <2> QED BY <2>2 DEF SetupInv, PoolsTruthful
<1>6. \E old, b : /\ Memory(old) /\ (b => saved.active) /\ b \in BOOLEAN
                  /\ pool' = [pool EXCEPT ![p] = Loaded(old)]
                  /\ activeBills' = [activeBills EXCEPT ![p] = b]
  <2>1. CASE /\ pool' = [pool EXCEPT ![p] = Loaded(saved.pool)]
             /\ activeBills' = [activeBills EXCEPT ![p] = saved.active]
    BY <1>5, <2>1 DEF SetupInv, PlacesTyped
  <2>2. CASE /\ pool' = [pool EXCEPT ![p] = Loaded(NoPool)]
             /\ activeBills' = [activeBills EXCEPT ![p] = FALSE]
    BY <1>5, <2>2
  <2> QED BY <2>1, <2>2 DEF StartSetup
<1>7. PICK old, b : /\ Memory(old) /\ (b => saved.active) /\ b \in BOOLEAN
                    /\ pool' = [pool EXCEPT ![p] = Loaded(old)]
                    /\ activeBills' = [activeBills EXCEPT ![p] = b]
  BY <1>6
<1>8. PICK g : g = Loaded(old)
  OBVIOUS
<1>9. Memory(g) /\ DOMAIN g = accounts
  BY <1>7, <1>8, LoadedIsMemory
<1>10. Memory(g)'
  BY <1>1, <1>9, MemoryStays
<1>11. PoolsTruthful' /\ pool' = [q \in Processes |-> pool'[q]]
  BY <1>1, <1>7, <1>8, <1>10, PoolWritten
<1>12. AccountsNumbered'
  <2>1. \A q \in Processes : pool'[q] = IF q = p THEN g ELSE pool[q]
    BY <1>7, <1>8 DEF SetupInv, PlacesTyped
  <2>2. \A q \in Processes : DOMAIN pool'[q] \subseteq accounts
    BY <1>9, <2>1, OfPool
  <2> QED BY <2>2, AccountsStay DEF StartSetup, places
<1>13. /\ activeBills' \in [Processes -> BOOLEAN]
       /\ AnyActive' => AnyActive
  BY <1>1, <1>7 DEF AnyActive, SetupInv, PlacesTyped
<1>14. CycleKnows'
  BY <1>4, <1>13, CycleStays DEF StartSetup, places
<1> QED BY <1>1, <1>4, <1>11, <1>12, <1>13, <1>14, SetupKept DEF StartSetup, places, SetupInv, PlacesTyped

(* The merchant a process is at, of a pool that has not all been seen.     *)
LEMMA LeftIsThere ==
  ASSUME SetupInv, NEW p \in Processes, Left(p)
  PROVE  job[p].at \in DOMAIN pool[p] /\ job[p].at \in 1 .. N
<1>1. job[p].at \in Nat \ {0}
  BY DEF SetupInv, PlacesTyped, Job
<1>2. PICK k \in 0 .. N : k = Cardinality(DOMAIN pool[p])
  BY OfPool
<1>3. DOMAIN pool[p] = 1 .. k
  BY <1>2, OfPool
<1>4. PICK a \in Nat \ {0} : a = job[p].at
  BY <1>1
<1>5. a <= k
  BY <1>2, <1>4 DEF Left
<1>6. a \in 1 .. k /\ a \in 1 .. N
  BY <1>5, BotSetupAssumption
<1> QED BY <1>3, <1>4, <1>6

LEMMA EnsureMerchantsKeeps ==
  ASSUME SetupInv, NEW p \in Processes, EnsureMerchants(p)
  PROVE  SetupInv'
<1> DEFINE k == Cardinality(DOMAIN pool[p])
<1>1. k \in 0 .. N /\ DOMAIN pool[p] = 1 .. k /\ pool[p] \in [1 .. k -> Entry] /\ k \in Nat
  BY OfPool, BotSetupAssumption
<1>2. /\ History /\ saved' = saved /\ activeBills' = activeBills /\ loan' = loan
      /\ applications' = applications /\ chain' = chain /\ misused' = misused
  BY DEF EnsureMerchants, History
<1> HIDE DEF k
<1>3. AnyActive' => AnyActive
  BY <1>2 DEF AnyActive
<1>4. CASE k + 1 > N
  <2>1. (Goto(p, "onboard") \/ Over(p)) /\ pool' = pool /\ accounts' = accounts
    BY <1>4 DEF EnsureMerchants, k
  <2>2. \E f \in PlainPhases : Moves(p, f)
    BY <2>1, OverMoves DEF Moves, PlainPhases, Phases
  <2>3. /\ job' \in [Processes -> Job] /\ EnrollsApplicants'
        /\ At("bot", "pay")' => At("bot", "pay")
        /\ At("bot", "repay")' => At("bot", "repay")
    BY <1>2, <2>2, PlainMove
  <2>4. PoolsTruthful' /\ AccountsNumbered' /\ CycleKnows'
    BY <1>2, <1>3, <2>1, <2>3, PoolsStay, AccountsStay, CycleStays DEF SetupInv, AccountsNumbered
  <2> QED BY <1>2, <2>1, <2>3, <2>4, SetupKept DEF SetupInv, PlacesTyped
<1>5. CASE ~ (k + 1 > N)
  <2> DEFINE g == [m \in 1 .. k + 1 |-> IF m = k + 1 THEN NewEntry ELSE pool[p][m]]
  <2>1. accounts' = accounts \cup {k + 1} /\ pool' = [pool EXCEPT ![p] = g] /\ job' = job
    BY <1>5 DEF EnsureMerchants, k
  <2>2. /\ NewEntry \in Entry /\ NewEntry.merchantStatus = "none" /\ ~ NewEntry.mongoId
        /\ k + 1 \in 0 .. N
    BY <1>1, <1>5, BotSetupAssumption DEF Entry, NewEntry
  <2>3. /\ DOMAIN g = 1 .. k + 1
        /\ \A m \in 1 .. k + 1 : g[m] = IF m = k + 1 THEN NewEntry ELSE pool[p][m]
        /\ g = [m \in 1 .. k + 1 |-> g[m]]
    OBVIOUS
  <2> HIDE DEF g
  <2>4. \A m \in 1 .. k + 1 : m # k + 1 => m \in 1 .. k
    BY <1>1
  <2>5. \A m \in 1 .. k + 1 : g[m] \in Entry
    BY <1>1, <2>2, <2>3, <2>4
  <2>6. IsPool(g)
    <3>1. g \in [1 .. k + 1 -> Entry]
      BY <2>3, <2>5
    <3> QED BY <2>2, <3>1 DEF IsPool
  <2>7. Truthful(g)
    <3>1. Truthful(pool[p])
      BY OfPool DEF Memory
    <3>2. ASSUME NEW m \in DOMAIN g
          PROVE  \/ g[m] = NewEntry
                 \/ m \in DOMAIN pool[p] /\ g[m] = pool[p][m]
      BY <1>1, <2>3, <2>4
    <3> QED BY <3>1, <3>2, <2>2 DEF Truthful
  <2>8. PICK h : h = g
    OBVIOUS
  <2>9. PoolsTruthful' /\ pool' = [q \in Processes |-> pool'[q]]
    <3>1. Memory(h)'
      BY <1>2, <2>6, <2>7, <2>8, MemoryStays DEF Memory
    <3>2. pool' = [pool EXCEPT ![p] = h]
      BY <2>1, <2>8
    <3> QED BY <1>2, <3>1, <3>2, PoolWritten
  <2>10. \A q \in Processes : pool'[q] = IF q = p THEN g ELSE pool[q]
    BY <2>1 DEF SetupInv, PlacesTyped
  <2>11. AccountsNumbered'
    <3>1. PICK a \in 0 .. N : accounts = 1 .. a
      BY DEF SetupInv, AccountsNumbered
    <3>2. \A m \in 1 .. k : m \in 1 .. a
      BY <1>1, <3>1, OfPool
    <3>3. k <= a
      BY <1>1, <3>1, <3>2, BotSetupAssumption
    <3>4. \E b \in 0 .. N : accounts' = 1 .. b
      <4>1. CASE k = a
        <5>1. (1 .. a) \cup {k + 1} = 1 .. k + 1
          BY <1>1, <3>1, <4>1
        <5> QED BY <2>1, <2>2, <3>1, <5>1
      <4>2. CASE k < a
        <5>1. (1 .. a) \cup {k + 1} = 1 .. a
          BY <1>1, <3>1, <4>2
        <5> QED BY <2>1, <3>1, <5>1
      <4> QED BY <1>1, <3>1, <3>3, <4>1, <4>2, BotSetupAssumption
    <3>5. \A q \in Processes : DOMAIN pool'[q] \subseteq accounts'
      <4>1. DOMAIN g \subseteq accounts'
        <5>1. \A m \in DOMAIN g : m \in 1 .. k \/ m = k + 1
          BY <2>3, <2>4
        <5> QED BY <1>1, <2>1, <5>1, OfPool
      <4> QED BY <2>1, <2>10, <4>1, OfPool
    <3> QED BY <3>4, <3>5 DEF AccountsNumbered
  <2>12. /\ job' \in [Processes -> Job] /\ EnrollsApplicants'
         /\ At("bot", "pay")' => At("bot", "pay")
         /\ At("bot", "repay")' => At("bot", "repay")
    BY <1>2, <2>1, JobStays
  <2>13. CycleKnows'
    BY <1>2, <1>3, <2>12, CycleStays
  <2> QED BY <1>2, <2>9, <2>11, <2>12, <2>13, SetupKept DEF SetupInv, PlacesTyped
<1> QED BY <1>4, <1>5

(* Steps that change no pool: applications and phases.                     *)
LEMMA ApplicationsMove ==
  ASSUME SetupInv, NEW p \in Processes,
         UNCHANGED <<accounts, chain, approved, loan, memory, saved, misused, runs>>,
         \/ applications' = applications
         \/ Left(p) /\ \E s \in {"SUBMITTED", "APPROVED"} :
              applications' = [applications EXCEPT ![job[p].at] = s]
  PROVE  /\ History /\ applications' \in [1 .. N -> {"none", "SUBMITTED", "APPROVED"}]
         /\ PoolsTruthful' /\ AccountsNumbered'
<1>1. Left(p) => job[p].at \in 1 .. N
  BY LeftIsThere
<1>2. /\ applications' \in [1 .. N -> {"none", "SUBMITTED", "APPROVED"}]
      /\ \A m \in 1 .. N : applications[m] # "none" => applications'[m] # "none"
  BY <1>1 DEF SetupInv, PlacesTyped
<1>3. History
  BY <1>2 DEF History
<1> QED BY <1>2, <1>3, PoolsStay, AccountsStay DEF memory, SetupInv, AccountsNumbered

LEMMA MovedWithoutMemory ==
  ASSUME SetupInv, History, applications' \in [1 .. N -> {"none", "SUBMITTED", "APPROVED"}],
         PoolsTruthful', AccountsNumbered',
         UNCHANGED <<accounts, chain, approved, loan, memory, saved, misused, runs>>,
         job' \in [Processes -> Job], EnrollsApplicants',
         At("bot", "pay")' => At("bot", "pay"), At("bot", "repay")' => At("bot", "repay")
  PROVE  SetupInv'
<1>1. AnyActive' => AnyActive
  BY DEF AnyActive, memory
<1>2. CycleKnows'
  BY <1>1, CycleStays
<1> QED BY <1>2, SetupKept DEF SetupInv, PlacesTyped, memory

LEMMA CreateApplicationKeeps ==
  ASSUME SetupInv, NEW p \in Processes, CreateApplication(p)
  PROVE  SetupInv'
<1> DEFINE m == job[p].at
<1>1. UNCHANGED <<accounts, chain, approved, loan, memory, saved, misused, runs>>
  BY DEF CreateApplication
<1>2. /\ \/ applications' = applications
         \/ Left(p) /\ applications' = [applications EXCEPT ![m] = "SUBMITTED"]
      /\ \/ \E f \in PlainPhases : Moves(p, f)
         \/ /\ Goto(p, "enroll") /\ Left(p)
            /\ applications' = [applications EXCEPT ![m] = "SUBMITTED"]
  BY OverMoves DEF CreateApplication, PlainPhases, Phases, Moves
<1>3. /\ History /\ applications' \in [1 .. N -> {"none", "SUBMITTED", "APPROVED"}]
      /\ PoolsTruthful' /\ AccountsNumbered'
  BY <1>1, <1>2, ApplicationsMove
<1>4. /\ job' \in [Processes -> Job] /\ EnrollsApplicants'
      /\ At("bot", "pay")' => At("bot", "pay")
      /\ At("bot", "repay")' => At("bot", "repay")
  <2>1. CASE \E f \in PlainPhases : Moves(p, f)
    BY <1>3, <2>1, PlainMove
  <2>2. CASE /\ Goto(p, "enroll") /\ Left(p)
             /\ applications' = [applications EXCEPT ![m] = "SUBMITTED"]
    <3>1. m \in 1 .. N
      BY <2>2, LeftIsThere
    <3>2. applications'[m] # "none"
      BY <2>2, <3>1 DEF SetupInv, PlacesTyped
    <3>3. "enroll" \in Phases
      BY DEF Phases
    <3>4. PICK v \in Job : /\ v.phase = "enroll" /\ v.at = m
                           /\ job' = [job EXCEPT ![p] = v]
      BY <2>2, <3>3, GotoMoves
    <3> QED BY <1>3, <3>1, <3>2, <3>4, JobMoves
  <2> QED BY <1>2, <2>1, <2>2
<1> QED BY <1>1, <1>3, <1>4, MovedWithoutMemory

LEMMA ApproveApplicationKeeps ==
  ASSUME SetupInv, NEW p \in Processes, ApproveApplication(p)
  PROVE  SetupInv'
<1>1. UNCHANGED <<accounts, chain, approved, loan, memory, saved, misused, runs>>
  BY DEF ApproveApplication
<1>2. /\ \/ applications' = applications
         \/ Left(p) /\ applications' = [applications EXCEPT ![job[p].at] = "APPROVED"]
      /\ \E f \in PlainPhases : Moves(p, f)
  BY OverMoves DEF ApproveApplication, PlainPhases, Phases, Moves
<1>3. /\ History /\ applications' \in [1 .. N -> {"none", "SUBMITTED", "APPROVED"}]
      /\ PoolsTruthful' /\ AccountsNumbered'
  BY <1>1, <1>2, ApplicationsMove
<1>4. /\ job' \in [Processes -> Job] /\ EnrollsApplicants'
      /\ At("bot", "pay")' => At("bot", "pay")
      /\ At("bot", "repay")' => At("bot", "repay")
  BY <1>2, <1>3, PlainMove
<1> QED BY <1>1, <1>3, <1>4, MovedWithoutMemory

LEMMA EnrollOnChainKeeps ==
  ASSUME SetupInv, NEW p \in Processes, EnrollOnChain(p)
  PROVE  SetupInv'
<1>1. PICK m : m = job[p].at
  OBVIOUS
<1>2. m \in 1 .. N /\ m \in Nat /\ applications[m] # "none"
  BY <1>1, BotSetupAssumption DEF EnrollOnChain, SetupInv, EnrollsApplicants
<1>3. UNCHANGED <<accounts, applications, approved, loan, activeBills, saved, misused, runs>>
  BY DEF EnrollOnChain
<1>4. \/ /\ chain[m] = "Absent" /\ chain' = [chain EXCEPT ![m] = "Pending"]
         /\ UpdateMerchant(p, [merchantStatus |-> "pending", mongoId |-> TRUE])
         /\ NextMerchant(p, "onboard")
      \/ /\ chain[m] = "Absent" /\ chain' = [chain EXCEPT ![m] = "Pending"]
         /\ UNCHANGED pool /\ Over(p)
      \/ UNCHANGED <<chain, pool>> /\ Over(p)
  BY <1>1 DEF EnrollOnChain
<1>5. /\ chain' \in [1 .. N -> Statuses]
      /\ \/ chain' = chain
         \/ /\ chain[m] = "Absent" /\ chain'[m] = "Pending"
            /\ \A n \in 1 .. N : n # m => chain'[n] = chain[n]
  BY <1>2, <1>4 DEF SetupInv, PlacesTyped, Statuses
<1>6. History
  BY <1>3, <1>5 DEF History
<1>7. /\ PoolsTruthful' /\ pool' = [q \in Processes |-> pool'[q]]
      /\ \A q \in Processes : DOMAIN pool'[q] = DOMAIN pool[q]
  <2>1. CASE pool' = pool
    BY <1>3, <1>6, <2>1, PoolsStay DEF SetupInv, PlacesTyped
  <2>2. CASE /\ UpdateMerchant(p, [merchantStatus |-> "pending", mongoId |-> TRUE])
             /\ chain[m] = "Absent" /\ chain' = [chain EXCEPT ![m] = "Pending"]
    <3>1. PICK e : e = [merchantStatus |-> "pending", mongoId |-> TRUE]
      OBVIOUS
    <3>2. e \in Entry /\ e.merchantStatus = "pending" /\ e.mongoId
      BY <3>1 DEF Entry
    <3>3. chain'[m] # "Absent" /\ applications'[m] # "none"
      BY <1>2, <1>3, <2>2 DEF SetupInv, PlacesTyped
    <3>4. PICK f : f = pool[p]
      OBVIOUS
    <3>5. PICK g : g = [f EXCEPT ![m] = e]
      OBVIOUS
    <3>6. pool' = [pool EXCEPT ![p] = g]
      BY <1>1, <2>2, <3>1, <3>4, <3>5 DEF UpdateMerchant
    <3>7. Memory(g)'
      BY <1>2, <1>6, <3>2, <3>3, <3>4, <3>5, OfPool, EntryWritten
    <3>8. \A q \in Processes : pool'[q] = IF q = p THEN g ELSE pool[q]
      BY <3>6 DEF SetupInv, PlacesTyped
    <3>9. DOMAIN g = DOMAIN pool[p]
      BY <3>4, <3>5
    <3> QED BY <1>3, <1>6, <3>6, <3>7, <3>8, <3>9, PoolWritten
  <2> QED BY <1>4, <2>1, <2>2
<1>8. AccountsNumbered'
  BY <1>3, <1>7, OfPool, AccountsStay
<1>9. /\ job' \in [Processes -> Job] /\ EnrollsApplicants'
      /\ At("bot", "pay")' => At("bot", "pay")
      /\ At("bot", "repay")' => At("bot", "repay")
  <2>1. \E f \in PlainPhases : Moves(p, f)
    BY <1>4, OverMoves DEF PlainPhases, Phases, Moves
  <2> QED BY <1>6, <2>1, PlainMove
<1>10. AnyActive' => AnyActive
  BY <1>3 DEF AnyActive
<1>11. CycleKnows'
  BY <1>3, <1>9, <1>10, CycleStays
<1> QED BY <1>3, <1>5, <1>6, <1>7, <1>8, <1>9, <1>11, SetupKept DEF SetupInv, PlacesTyped

LEMMA ApproveOnChainKeeps ==
  ASSUME SetupInv, NEW p \in Processes, ApproveOnChain(p)
  PROVE  SetupInv'
<1>1. PICK m : m = job[p].at
  OBVIOUS
<1>2. m \in Nat
  BY <1>1 DEF SetupInv, PlacesTyped, Job
<1>3. UNCHANGED <<accounts, applications, loan, activeBills, saved, misused, runs>>
  BY DEF ApproveOnChain
<1>4. \/ /\ chain[m] # "Absent" /\ SetStatus(m, "Approved")
         /\ UpdateMerchant(p, [Mine(p) EXCEPT !.merchantStatus = "approved"])
         /\ NextMerchant(p, "approve")
      \/ /\ chain[m] # "Absent" /\ SetStatus(m, "Approved")
         /\ UNCHANGED pool /\ Over(p)
      \/ UNCHANGED <<chain, approved, pool>> /\ Over(p)
  BY <1>1 DEF ApproveOnChain
<1>5. /\ chain' \in [1 .. N -> Statuses] /\ approved \subseteq approved'
      /\ \A n \in 1 .. N : chain'[n] = chain[n] \/ chain'[n] = "Approved"
  BY <1>4 DEF SetStatus, Statuses, SetupInv, PlacesTyped
<1>6. History
  BY <1>3, <1>5 DEF History
<1>7. /\ PoolsTruthful' /\ pool' = [q \in Processes |-> pool'[q]]
      /\ \A q \in Processes : DOMAIN pool'[q] = DOMAIN pool[q]
  <2>1. CASE pool' = pool
    BY <1>3, <1>6, <2>1, PoolsStay DEF SetupInv, PlacesTyped
  <2>2. CASE /\ UpdateMerchant(p, [Mine(p) EXCEPT !.merchantStatus = "approved"])
             /\ SetStatus(m, "Approved")
    <3>1. PICK e : e = [Mine(p) EXCEPT !.merchantStatus = "approved"]
      OBVIOUS
    <3>2. ASSUME m \in DOMAIN pool[p]
          PROVE  /\ e \in Entry /\ e.merchantStatus = "approved"
                 /\ e.mongoId => applications'[m] # "none"
                 /\ m \in approved'
      <4>1. m \in 1 .. N
        BY <3>2, OfPool
      <4>2. PICK x \in Entry : x = Mine(p)
        BY <1>1, <3>2, OfPool DEF Mine
      <4>3. e \in Entry /\ e.merchantStatus = "approved" /\ e.mongoId = x.mongoId
        BY <3>1, <4>2 DEF Entry
      <4>4. x.mongoId => applications[m] # "none"
        BY <1>1, <3>2, <4>2, OfPool DEF Mine, Memory, Truthful
      <4>5. m \in approved'
        BY <2>2 DEF SetStatus
      <4> QED BY <1>3, <4>3, <4>4, <4>5
    <3>3. m \in DOMAIN pool[p] =>
            /\ e \in Entry
            /\ e.mongoId => applications'[m] # "none"
            /\ e.merchantStatus = "pending" => chain'[m] # "Absent"
            /\ e.merchantStatus = "approved" => m \in approved' \/ misused'
      BY <3>2
    <3>4. PICK f : f = pool[p]
      OBVIOUS
    <3>5. PICK g : g = [f EXCEPT ![m] = e]
      OBVIOUS
    <3>6. pool' = [pool EXCEPT ![p] = g]
      BY <1>1, <2>2, <3>1, <3>4, <3>5 DEF UpdateMerchant
    <3>7. Memory(g)'
      BY <1>2, <1>6, <3>3, <3>4, <3>5, OfPool, EntryWritten
    <3>8. \A q \in Processes : pool'[q] = IF q = p THEN g ELSE pool[q]
      BY <3>6 DEF SetupInv, PlacesTyped
    <3>9. DOMAIN g = DOMAIN pool[p]
      BY <3>4, <3>5
    <3> QED BY <1>3, <1>6, <3>6, <3>7, <3>8, <3>9, PoolWritten
  <2> QED BY <1>4, <2>1, <2>2
<1>8. AccountsNumbered'
  BY <1>3, <1>7, OfPool, AccountsStay
<1>9. /\ job' \in [Processes -> Job] /\ EnrollsApplicants'
      /\ At("bot", "pay")' => At("bot", "pay")
      /\ At("bot", "repay")' => At("bot", "repay")
  <2>1. \E f \in PlainPhases : Moves(p, f)
    BY <1>4, OverMoves DEF PlainPhases, Phases, Moves
  <2> QED BY <1>6, <2>1, PlainMove
<1>10. AnyActive' => AnyActive
  BY <1>3 DEF AnyActive
<1>11. CycleKnows'
  BY <1>3, <1>9, <1>10, CycleStays
<1> QED BY <1>3, <1>5, <1>6, <1>7, <1>8, <1>9, <1>11, SetupKept DEF SetupInv, PlacesTyped

LEMMA SyncMerchantsKeeps ==
  ASSUME SetupInv, NEW p \in Processes, SyncMerchants(p)
  PROVE  SetupInv'
<1> DEFINE g == [m \in DOMAIN pool[p] |->
                  [merchantStatus |-> "approved",
                   mongoId |-> pool[p][m].mongoId \/ applications[m] # "none"]]
<1>1. /\ accounts' = accounts /\ applications' = applications /\ chain' = chain
      /\ loan' = loan /\ activeBills' = activeBills /\ saved' = saved /\ Over(p)
      /\ misused' = (misused \/ ~ DOMAIN pool[p] \subseteq approved) /\ approved' = approved
      /\ pool' = [pool EXCEPT ![p] = g]
  BY DEF SyncMerchants, places
<1>2. /\ DOMAIN g = DOMAIN pool[p] /\ g = [m \in DOMAIN pool[p] |-> g[m]]
      /\ \A m \in DOMAIN pool[p] :
           /\ g[m].merchantStatus = "approved" /\ g[m] \in Entry
           /\ g[m].mongoId => pool[p][m].mongoId \/ applications[m] # "none"
  BY DEF Entry
<1> HIDE DEF g
<1>3. misused' \in BOOLEAN /\ History
  BY <1>1 DEF History, SetupInv, PlacesTyped
<1>4. PICK h : h = g
  OBVIOUS
<1>5. IsPool(h)
  <2>1. PICK k \in 0 .. N : DOMAIN pool[p] = 1 .. k
    BY OfPool
  <2>2. g \in [1 .. k -> Entry]
    BY <1>2, <2>1
  <2> QED BY <1>4, <2>2 DEF IsPool
<1>6. Memory(h)'
  <2>1. \A m \in DOMAIN h :
          /\ h[m].mongoId => applications'[m] # "none"
          /\ h[m].merchantStatus = "approved"
    BY <1>1, <1>2, <1>4, OfPool DEF Memory, Truthful
  <2>2. \A m \in DOMAIN h : m \in approved' \/ misused'
    BY <1>1, <1>2, <1>4
  <2>3. Truthful(h)'
    BY <2>1, <2>2 DEF Truthful
  <2> QED BY <1>5, <2>3 DEF Memory, IsPool
<1>7. PoolsTruthful' /\ pool' = [q \in Processes |-> pool'[q]]
  BY <1>1, <1>3, <1>4, <1>6, PoolWritten
<1>8. AccountsNumbered'
  <2>1. \A q \in Processes : pool'[q] = IF q = p THEN g ELSE pool[q]
    BY <1>1 DEF SetupInv, PlacesTyped
  <2> QED BY <1>1, <1>2, <2>1, OfPool, AccountsStay
<1>9. /\ job' \in [Processes -> Job] /\ EnrollsApplicants'
      /\ At("bot", "pay")' => At("bot", "pay")
      /\ At("bot", "repay")' => At("bot", "repay")
  <2>1. \E f \in PlainPhases : Moves(p, f)
    BY <1>1, OverMoves
  <2> QED BY <1>3, <2>1, PlainMove
<1>10. AnyActive' => AnyActive
  BY <1>1 DEF AnyActive
<1>11. CycleKnows'
  BY <1>1, <1>9, <1>10, CycleStays
<1> QED BY <1>1, <1>3, <1>7, <1>8, <1>9, <1>11, SetupKept DEF SetupInv, PlacesTyped

(* The bot's cycle writes a bill, its phase, and the note of the bill.     *)
LEMMA BotMoves ==
  ASSUME SetupInv, History, NEW f \in Phases \ {"enroll"}, Goto("bot", f)
  PROVE  job' \in [Processes -> Job] /\ EnrollsApplicants' /\ job'["bot"].phase = f
<1>1. PICK v \in Job : v.phase = f /\ job' = [job EXCEPT !["bot"] = v]
  BY GotoMoves DEF Processes
<1>2. /\ job' \in [Processes -> Job] /\ job'["bot"] = v
      /\ \A p \in Processes \ {"bot"} : job'[p] = job[p]
  BY <1>1 DEF SetupInv, PlacesTyped, Processes
<1>3. EnrollsApplicants'
  BY <1>1, <1>2 DEF SetupInv, EnrollsApplicants, At, History
<1> QED BY <1>1, <1>2, <1>3

LEMMA BotStep ==
  ASSUME SetupInv, UNCHANGED <<accounts, applications, chain, approved, pool, saved, misused, runs>>,
         activeBills' \in [Processes -> BOOLEAN], CycleKnows',
         job' \in [Processes -> Job], EnrollsApplicants'
  PROVE  SetupInv'
<1>1. History
  BY DEF History
<1>2. PoolsTruthful' /\ AccountsNumbered'
  BY <1>1, PoolsStay, AccountsStay DEF SetupInv, AccountsNumbered
<1> QED BY <1>1, <1>2, SetupKept DEF SetupInv, PlacesTyped

LEMMA CreateOnlyKeeps ==
  ASSUME SetupInv, CreateOnly
  PROVE  SetupInv'
<1>1. /\ job' = job /\ At("bot", "run") /\ loan = "none" /\ loan' = "Created"
      /\ UNCHANGED <<accounts, applications, chain, approved, memory, saved, misused, runs>>
  BY DEF CreateOnly, CreateBill
<1>2. History
  BY <1>1 DEF History
<1>3. job' \in [Processes -> Job] /\ EnrollsApplicants'
  BY <1>1, <1>2, JobStays
<1>4. CycleKnows'
  BY <1>1 DEF SetupInv, CycleKnows, AnyActive, At, memory
<1> QED BY <1>1, <1>3, <1>4, BotStep DEF SetupInv, PlacesTyped, memory

LEMMA CycleCreatesKeeps ==
  ASSUME SetupInv, CycleCreates
  PROVE  SetupInv'
<1>1. /\ Goto("bot", "pay") /\ At("bot", "run") /\ loan = "none" /\ loan' = "Created"
      /\ UNCHANGED <<accounts, applications, chain, approved, memory, saved, misused, runs>>
  BY DEF CycleCreates, CreateBill
<1>2. History
  BY <1>1 DEF History
<1>3. job' \in [Processes -> Job] /\ EnrollsApplicants' /\ job'["bot"].phase = "pay"
  BY <1>1, <1>2, BotMoves DEF Phases
<1>4. CycleKnows'
  BY <1>1, <1>3 DEF SetupInv, CycleKnows, AnyActive, At, memory
<1> QED BY <1>1, <1>3, <1>4, BotStep DEF SetupInv, PlacesTyped, memory

LEMMA CyclePaysKeeps ==
  ASSUME SetupInv, CyclePays
  PROVE  SetupInv'
<1>1. /\ At("bot", "pay")
      /\ UNCHANGED <<accounts, applications, chain, approved, memory, saved, misused, runs>>
      /\ \/ loan = "Created" /\ loan' = "Paid" /\ (Goto("bot", "repay") \/ Goto("bot", "run"))
         \/ loan' = loan /\ Goto("bot", "run")
  BY DEF CyclePays, PayBillBnpl
<1>2. History
  BY <1>1 DEF History
<1>3. PICK f \in {"repay", "run"} :
        /\ Goto("bot", f)
        /\ \/ loan = "Created" /\ loan' = "Paid"
           \/ loan' = loan /\ f = "run"
  BY <1>1
<1>4. job' \in [Processes -> Job] /\ EnrollsApplicants' /\ job'["bot"].phase = f
  BY <1>2, <1>3, BotMoves DEF Phases
<1>5. CycleKnows'
  BY <1>1, <1>3, <1>4 DEF SetupInv, CycleKnows, AnyActive, At, memory
<1> QED BY <1>1, <1>4, <1>5, BotStep DEF SetupInv, PlacesTyped, memory

LEMMA CycleRepaysKeeps ==
  ASSUME SetupInv, CycleRepays
  PROVE  SetupInv'
<1>1. /\ At("bot", "repay") /\ Goto("bot", "run")
      /\ UNCHANGED <<accounts, applications, chain, approved, pool, saved, misused, runs>>
      /\ \/ activeBills' = activeBills
         \/ loan' = loan /\ activeBills' = [activeBills EXCEPT !["bot"] = TRUE]
  BY DEF CycleRepays
<1>2. History
  BY <1>1 DEF History
<1>3. job' \in [Processes -> Job] /\ EnrollsApplicants' /\ job'["bot"].phase = "run"
  BY <1>1, <1>2, BotMoves DEF Phases
<1>4. activeBills' \in [Processes -> BOOLEAN]
  BY <1>1 DEF SetupInv, PlacesTyped, Processes
<1>5. CycleKnows'
  BY <1>1, <1>3 DEF SetupInv, CycleKnows, AnyActive, At
<1> QED BY <1>1, <1>3, <1>4, <1>5, BotStep

(* The bot goes on to the scenario that sets the accounts up.              *)
LEMMA BotBootstrapsKeeps ==
  ASSUME SetupInv, BotBootstraps
  PROVE  SetupInv'
<1>1. History /\ saved' = saved /\ pool' = pool
  BY DEF BotBootstraps, History, places, memory
<1>2. PoolsTruthful' /\ AccountsNumbered'
  BY <1>1, PoolsStay, AccountsStay DEF BotBootstraps, places, SetupInv, AccountsNumbered
<1>3. /\ job' \in [Processes -> Job] /\ EnrollsApplicants'
      /\ At("bot", "pay")' => At("bot", "pay")
      /\ At("bot", "repay")' => At("bot", "repay")
  <2>1. "accounts" \in PlainPhases /\ Moves("bot", "accounts") /\ "bot" \in Processes
    BY DEF BotBootstraps, Moves, PlainPhases, Phases, Processes
  <2> QED BY <1>1, <2>1, PlainMove
<1>4. AnyActive' => AnyActive
  BY DEF BotBootstraps, AnyActive, memory
<1>5. CycleKnows'
  BY <1>3, <1>4, CycleStays DEF BotBootstraps, places
<1> QED BY <1>1, <1>2, <1>3, <1>5, SetupKept
        DEF BotBootstraps, places, memory, SetupInv, PlacesTyped

(* A liquidated bill is still one that was paid and not repaid.            *)
LEMMA LiquidateBillKeeps ==
  ASSUME SetupInv, LiquidateBill
  PROVE  SetupInv'
<1>1. /\ job' = job /\ loan = "Paid" /\ loan' = "Liquidated"
      /\ UNCHANGED <<accounts, applications, chain, approved, memory, saved, misused, runs>>
  BY DEF LiquidateBill
<1>2. History
  BY <1>1 DEF History
<1>3. job' \in [Processes -> Job] /\ EnrollsApplicants'
  BY <1>1, <1>2, JobStays
<1>4. CycleKnows'
  BY <1>1 DEF SetupInv, CycleKnows, AnyActive, At, memory
<1> QED BY <1>1, <1>3, <1>4, BotStep DEF SetupInv, PlacesTyped, memory

LEMMA SetupNextKeeps == SetupInv /\ [SetupNext]_setupVars => SetupInv'
<1> SUFFICES ASSUME SetupInv, [SetupNext]_setupVars
             PROVE  SetupInv'
  OBVIOUS
<1>1. ASSUME NEW p \in Processes, SetupStep(p)
      PROVE  SetupInv'
  BY <1>1, StartSetupKeeps, SavesKeep, KilledKeeps, EnsureMerchantsKeeps, CreateApplicationKeeps,
     EnrollOnChainKeeps, ApproveApplicationKeeps, ApproveOnChainKeeps, SyncMerchantsKeeps
     DEF SetupStep
<1>2. CASE SaveEachMinute
  BY <1>2, SavesKeep DEF Processes
<1>3. CASE UNCHANGED setupVars
  BY <1>3 DEF setupVars, places, memory, SetupInv, PlacesTyped, AccountsNumbered, PoolsTruthful,
     Memory, IsPool, Truthful, EnrollsApplicants, CycleKnows, AnyActive, At
<1> QED BY <1>1, <1>2, <1>3, AdminDecidesKeeps, CreateOnlyKeeps, CycleCreatesKeeps,
           CyclePaysKeeps, CycleRepaysKeeps, BotBootstrapsKeeps, LiquidateBillKeeps DEF SetupNext

(* What the processes remember of the merchants (accounts/pool.ts, as the  *)
(* commands that onboard, approve and synchronise write it), and what they *)
(* last saved of it, has happened, however many merchants there are and    *)
(* however many processes were started, killed, or overwrote each other's  *)
(* document: who is recorded as approved was approved on chain at some     *)
(* time; and a bill noted for repayment was paid and not repaid.           *)
THEOREM PoolNeverAhead == SetupSpec => []PoolNotAhead
<1>1. SetupInv => PoolNotAhead
  BY DEF SetupInv, PoolsTruthful, Memory, Truthful, CycleKnows, AnyActive, PoolNotAhead, NotAhead
<1> QED BY SetupInitially, SetupNextKeeps, <1>1, PTL DEF SetupSpec
=============================================================================
