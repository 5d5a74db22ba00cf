-------------------------- MODULE IngestorWindows ---------------------------
(***************************************************************************)
(* Which days of cloud cost an ingestor queries and stores                 *)
(* (pkg/cloudcost/ingestor.go, memoryrepository.go): the build goroutine   *)
(* works backward from today to the retention limit, the run goroutine     *)
(* revisits the last RunWindow days at every tick and the month to date at *)
(* every MonthToDateRunInterval-th one, repairs rebuild days on request,   *)
(* and old days expire.                                                    *)
(*                                                                         *)
(* Time is counted in ticks, D to a day (the Resolution); window bounds    *)
(* are days. A stored day is "final" when its data was queried after the   *)
(* day had ended and "partial" when it was queried before: a cost set for  *)
(* a day that is not over, or has not begun. Ingestion models the life     *)
(* cycle of the two goroutines; here Stop and Start only bound what they   *)
(* do.                                                                     *)
(***************************************************************************)
EXTENDS Naturals

CONSTANTS
    D,            \* ticks per day
    QueryWindow,  \* days
    RunWindow,    \* days
    Duration,     \* days of retention
    MonthToDateRunInterval,
    MonthDays,    \* days of a month
    Refresh,      \* ticks between two runs
    Latency,      \* ticks a provider query, or a step of the run, may take
    MaxOutage,    \* queries may fail for fewer ticks after the start of a good run
    FirstDay,     \* the day the ingestor is created
    LastDay,      \* bound: the last day explored
    MaxStops,     \* bound: calls of Stop
    MaxRepairs    \* bound: calls of Repair

Midnight(d) == D * d   \* the moment day d begins
Times == 0 .. Midnight(LastDay + 1)
Days == 0 .. LastDay + QueryWindow + MonthDays

ASSUME WindowsAssumption ==
    /\ {D, QueryWindow, RunWindow, Duration, MonthToDateRunInterval, MonthDays,
        Refresh, Latency, MaxOutage} \subseteq Nat \ {0}
    /\ {FirstDay, LastDay, MaxStops, MaxRepairs} \subseteq Nat
    /\ FirstDay >= Duration + QueryWindow /\ FirstDay >= RunWindow + MonthDays
    /\ FirstDay <= LastDay

(* How slow the provider may be and how long it may fail: a query takes    *)
(* less than a day, and an outage and the queries around it fit into the   *)
(* days that a run revisits and into one of its windows. The code takes    *)
(* this for granted: what falls out of RunWindow is not queried again, and *)
(* a run ends only if its windows overtake the clock.                      *)
ASSUME PaceAssumption ==
    /\ Latency < D
    /\ 4 * Latency + MaxOutage <= Midnight(RunWindow) + 1
    /\ 4 * Latency + MaxOutage <= Midnight(QueryWindow) + 1

VARIABLES
    now,
    repo,      \* repo[d]: what the repository has for day d
    coverage,  \* ing.coverage
    lastRun,   \* the day of ing.lastRun
    runs,      \* ing.runs, modulo MonthToDateRunInterval
    b,         \* the build goroutine
    r,         \* the run goroutine
    repair,    \* a repair in flight, of this ingestor or of a deleted one
    stopping,  \* Stop is sending the exit messages
    stopCalls,     \* number of calls of Stop so far
    repairCalls,   \* number of calls of Repair so far
    lastGood,  \* auxiliary: when the last run without a failed query began
    missed,    \* auxiliary: days without final data whose build window failed or was skipped
    foreign    \* auxiliary: days that only the repair of a deleted ingestor stored

callVars == <<stopping, stopCalls, repairCalls>>
windowsVars == <<now, repo, coverage, foreign, lastRun, runs, b, r, repair, callVars, lastGood, missed>>

NoTime == Midnight(LastDay + 1) + 1
Data == {"none", "partial", "final"}
Window == [start : Days, end : Days]
BuildState == [pc : {"loop", "fetch", "wait", "stopped"}, s : Days, e : Days, limit : Days,
               rebuild : BOOLEAN, good : BOOLEAN]
RunState == [pc : {"select", "window", "fetch", "expire", "contract", "stopped"}, s : Days, e : Days,
             at : Nat, began : Times, good : BOOLEAN]

WindowsTypeOK ==
    /\ now \in Times
    /\ repo \in [Days -> Data]
    /\ coverage \in Window
    /\ lastRun \in Days
    /\ runs \in 0 .. MonthToDateRunInterval - 1
    /\ b \in BuildState
    /\ r \in RunState
    /\ repair \in [s : Days, e : Days, at : Times \cup {NoTime}, heir : Days]
    /\ stopping \in BOOLEAN
    /\ stopCalls \in 0 .. MaxStops
    /\ repairCalls \in 0 .. MaxRepairs
    /\ lastGood \in Times
    /\ missed \subseteq Days
    /\ foreign \subseteq Days

RoundBack(t) == t \div D
RoundForward(t) == (t + D - 1) \div D
Minus(x, y) == IF y > x THEN 0 ELSE x - y   \* never cut off: FirstDay is large enough

(* Start of a build: back from today in windows of QueryWindow. *)
NewBuild(rebuild) ==
    [pc |-> "loop", rebuild |-> rebuild, s |-> RoundBack(now) - QueryWindow,
     e |-> RoundBack(now), limit |-> RoundBack(now) - Duration, good |-> TRUE]
NoBuild(pc) == [b EXCEPT !.pc = pc, !.rebuild = FALSE, !.s = 0, !.e = 0, !.limit = 0]
NewRun == [pc |-> "select", s |-> 0, e |-> 0, at |-> now, began |-> 0, good |-> TRUE]
(* heir is the day the ingestor that replaced the repair's was created. *)
Own == 0
NoRepair == [s |-> 0, e |-> 0, at |-> NoTime, heir |-> Own]
Repairing == repair.at # NoTime

NewCoverage == [start |-> RoundForward(now), end |-> RoundForward(now)]

WindowsInit ==
    /\ now \in Midnight(FirstDay) .. Midnight(FirstDay + 1) - 1
    /\ repo = [d \in Days |-> "none"]
    /\ coverage = NewCoverage
    /\ lastRun = RoundBack(now)
    /\ runs = 0
    /\ b = NewBuild(FALSE)
    /\ r = NewRun
    /\ repair = NoRepair
    /\ stopping = FALSE
    /\ stopCalls = 0
    /\ repairCalls = 0
    /\ lastGood = now
    /\ missed = {}
    /\ foreign = {}

-----------------------------------------------------------------------------
(* BuildWindow, in two steps: the query, and the Puts of what it returned. *)

(* What a query at time t returns for day d *)
DataAt(t, d) == IF Midnight(d + 1) <= t THEN "final" ELSE "partial"

Put(s, e, t) ==
    repo' = [d \in Days |-> IF s <= d /\ d < e THEN DataAt(t, d) ELSE repo[d]]

(* Mutant of ExpandCoverage: only the start is expanded. *)
ExpandCoverageStart(s, e) ==
    /\ coverage' = [coverage EXCEPT !.start = IF s < e /\ s < @ THEN s ELSE @]
    /\ foreign' = {d \in foreign : d < s \/ e <= d}

(* expandCoverage for each day of [s, e) *)
ExpandCoverage(s, e) ==
    /\ coverage' = IF s < e THEN [start |-> IF s < coverage.start THEN s ELSE coverage.start,
                                  end |-> IF e > coverage.end THEN e ELSE coverage.end]
                            ELSE coverage
    /\ foreign' = {d \in foreign : d < s \/ e <= d}

Store(s, e, t) ==
    /\ Put(s, e, t)
    /\ missed' = {d \in missed : repo'[d] # "final"}

(* The provider answers, or fails the query. *)
MayFail == now < lastGood + MaxOutage

-----------------------------------------------------------------------------
(* The build goroutine *)

(* The days of a window that LoadWindow finds missing *)
Missing(s, e) == {d \in s .. e - 1 : repo[d] = "none"}

(* Shift to the next QueryWindow. *)
Shifted == [b EXCEPT !.pc = "loop",
                     !.s = IF @ < b.limit + QueryWindow THEN b.limit ELSE @ - QueryWindow,
                     !.e = Minus(@, QueryWindow)]

BuildSkip ==
    /\ b.pc = "loop"
    /\ b.limit < b.e
    /\ ~b.rebuild
    /\ Missing(b.s, b.e) = {}
    /\ ExpandCoverage(b.s, b.e)
    /\ b' = Shifted
    /\ missed' = missed \cup {d \in b.s .. b.e - 1 : repo[d] # "final"}
    /\ UNCHANGED <<now, repo, lastRun, runs, r, repair, callVars, lastGood>>

BuildQuery ==
    /\ b.pc = "loop"
    /\ b.limit < b.e
    /\ IF b.rebuild
       THEN UNCHANGED <<coverage, foreign>>
       ELSE \E d \in Missing(b.s, b.e) :
               /\ \A x \in Missing(b.s, b.e) : d <= x
               /\ ExpandCoverage(b.s, d)
    /\ b' = [b EXCEPT !.pc = "fetch"]
    /\ UNCHANGED <<now, repo, lastRun, runs, r, repair, callVars, lastGood, missed>>

(* All days of a build window had ended when the build began. *)
BuildStore ==
    /\ b.pc = "fetch"
    /\ Store(b.s, b.e, now)
    /\ ExpandCoverage(b.s, b.e)
    /\ b' = Shifted
    /\ UNCHANGED <<now, lastRun, runs, r, repair, callVars, lastGood>>

(* A failed window is logged and left. *)
BuildFails ==
    /\ b.pc = "fetch"
    /\ MayFail
    /\ b' = [Shifted EXCEPT !.good = FALSE]
    /\ missed' = missed \cup {d \in b.s .. b.e - 1 : repo[d] # "final"}
    /\ UNCHANGED <<now, repo, coverage, foreign, lastRun, runs, r, repair, callVars, lastGood>>

BuildCompletes ==
    /\ b.pc = "loop"
    /\ b.limit >= b.e
    /\ b' = NoBuild("wait")
    /\ UNCHANGED <<now, repo, coverage, foreign, lastRun, runs, r, repair, callVars, lastGood, missed>>

-----------------------------------------------------------------------------
(* The run goroutine *)

(* Mutant of RunStart: starts from the last run itself. *)
RunStartNoWindow == lastRun

(* The last run less the RunWindow; the first of that day's month for a    *)
(* month-to-date run.                                                      *)
RunStart ==
    LET d == lastRun - RunWindow IN
    IF runs = 0 THEN d - (d % MonthDays) ELSE d

RunBegins ==
    /\ r.pc = "select"
    /\ now >= r.at
    /\ r' = [pc |-> "window", s |-> RunStart, e |-> RunStart + QueryWindow, at |-> now, began |-> now, good |-> TRUE]
    /\ UNCHANGED <<now, repo, coverage, foreign, lastRun, runs, b, repair, callVars, lastGood, missed>>

RunQuery ==
    /\ r.pc = "window"
    /\ now > Midnight(r.s)
    /\ r' = [r EXCEPT !.pc = "fetch", !.at = now]
    /\ UNCHANGED <<now, repo, coverage, foreign, lastRun, runs, b, repair, callVars, lastGood, missed>>

(* Mutant of NextEnd: clamped to the past midnight. *)
NextEndBack == IF Midnight(r.e + QueryWindow) > now THEN RoundBack(now) ELSE r.e + QueryWindow

(* "prevent builds into the future" *)
NextEnd == IF Midnight(r.e + QueryWindow) > now THEN RoundForward(now) ELSE r.e + QueryWindow

RunNext(good) == r' = [r EXCEPT !.pc = "window", !.s = @ + QueryWindow, !.e = NextEnd, !.at = now, !.good = good]

RunStore ==
    /\ r.pc = "fetch"
    /\ Store(r.s, r.e, r.at)
    /\ ExpandCoverage(r.s, r.e)
    /\ RunNext(r.good)
    /\ UNCHANGED <<now, lastRun, runs, b, repair, callVars, lastGood>>

RunFails ==
    /\ r.pc = "fetch"
    /\ MayFail
    /\ RunNext(FALSE)
    /\ UNCHANGED <<now, repo, coverage, foreign, lastRun, runs, b, repair, callVars, lastGood, missed>>

(* The window has reached the current time. *)
RunReachesNow ==
    /\ r.pc = "window"
    /\ now <= Midnight(r.s)
    /\ lastRun' = RoundBack(now)
    /\ r' = [r EXCEPT !.pc = "expire", !.at = now]
    /\ lastGood' = IF r.good THEN r.began ELSE lastGood
    /\ UNCHANGED <<now, repo, coverage, foreign, runs, b, repair, callVars, missed>>

Limit == RoundBack(now) - Duration

(* repo.Expire(limit) ... *)
RunExpire ==
    /\ r.pc = "expire"
    /\ repo' = [d \in Days |-> IF d < Limit THEN "none" ELSE repo[d]]
    /\ missed' = {d \in missed : d >= Limit}
    /\ r' = [r EXCEPT !.pc = "contract", !.at = now, !.s = Limit]
    /\ UNCHANGED <<now, coverage, foreign, lastRun, runs, b, repair, callVars, lastGood>>

(* ... coverage.ContractStart(limit), runs++, TickIn *)
RunContract ==
    /\ r.pc = "contract"
    /\ coverage' = [coverage EXCEPT !.start = IF r.s > @ THEN r.s ELSE @]
    /\ runs' = (runs + 1) % MonthToDateRunInterval
    /\ r' = [r EXCEPT !.pc = "select", !.at = now + Refresh, !.s = 0, !.e = 0, !.began = 0, !.good = TRUE]
    /\ UNCHANGED <<now, repo, foreign, lastRun, b, repair, callVars, lastGood, missed>>

-----------------------------------------------------------------------------
(* Repair: BuildWindow of the windows of any range, one after the other,   *)
(* in a goroutine that nothing stops.                                      *)
RepairQuery(s) ==
    /\ ~Repairing
    /\ repairCalls < MaxRepairs
    /\ repairCalls' = repairCalls + 1
    /\ repair' = [s |-> s, e |-> s + QueryWindow, at |-> now, heir |-> Own]
    /\ UNCHANGED <<now, repo, coverage, foreign, lastRun, runs, b, r, stopping, stopCalls, lastGood, missed>>

(* The next window, if the range goes on; the last one may be shorter. *)
RepairNext ==
    \/ repair' = NoRepair
    \/ /\ repair.e = repair.s + QueryWindow
       /\ repair.e <= RoundBack(now)
       /\ \E n \in 1 .. QueryWindow :
             repair' = [repair EXCEPT !.s = repair.e, !.e = repair.e + n, !.at = now]

(* A deleted ingestor expands a coverage that nobody reads. *)
RepairStore ==
    /\ Repairing
    /\ Store(repair.s, repair.e, repair.at)
    /\ IF repair.heir = Own
       THEN ExpandCoverage(repair.s, repair.e)
       ELSE /\ foreign' = foreign \cup {d \in repair.s .. repair.e - 1 : d >= repair.heir}
            /\ UNCHANGED coverage
    /\ RepairNext
    /\ UNCHANGED <<now, lastRun, runs, b, r, callVars, lastGood>>

RepairFails ==
    /\ Repairing
    /\ MayFail
    /\ RepairNext
    /\ UNCHANGED <<now, repo, coverage, foreign, lastRun, runs, b, r, callVars, lastGood, missed>>

-----------------------------------------------------------------------------
(* Stop ends the goroutines where they receive ... *)
Stop ==
    /\ ~stopping
    /\ stopCalls < MaxStops
    /\ stopCalls' = stopCalls + 1
    /\ stopping' = TRUE
    /\ UNCHANGED <<now, repo, coverage, foreign, lastRun, runs, b, r, repair, repairCalls, lastGood, missed>>

BuildLeaves ==
    /\ stopping
    /\ b.pc \in {"loop", "wait"}
    /\ b' = [NoBuild("stopped") EXCEPT !.good = TRUE]
    /\ UNCHANGED <<now, repo, coverage, foreign, lastRun, runs, r, repair, callVars, lastGood, missed>>

RunLeaves ==
    /\ stopping
    /\ r.pc = "select"
    /\ r' = [r EXCEPT !.pc = "stopped", !.at = 0]
    /\ UNCHANGED <<now, repo, coverage, foreign, lastRun, runs, b, repair, callVars, lastGood, missed>>

Stopped == b.pc = "stopped" /\ r.pc = "stopped"

(* ... and Start goes on with the same lastRun, runs and coverage. (The    *)
(* provider is assumed to answer some run within MaxOutage of it.)         *)
StartAgain(rebuild) ==
    /\ Stopped
    /\ b' = NewBuild(rebuild)
    /\ r' = NewRun
    /\ stopping' = FALSE
    /\ lastGood' = now
    /\ UNCHANGED <<now, repo, coverage, foreign, lastRun, runs, repair, stopCalls, repairCalls, missed>>

(* A deleted ingestor is created again (the config was changed, disabled   *)
(* and enabled): the repository keeps what its predecessor stored.         *)
Recreate ==
    /\ Stopped
    /\ b' = NewBuild(FALSE)
    /\ r' = NewRun
    /\ lastRun' = RoundBack(now)
    /\ runs' = 0
    /\ coverage' = NewCoverage
    /\ stopping' = FALSE
    /\ lastGood' = now
    /\ repair' = IF Repairing THEN [repair EXCEPT !.heir = RoundBack(now)] ELSE repair
    /\ foreign' = {}
    /\ UNCHANGED <<now, repo, stopCalls, repairCalls, missed>>

-----------------------------------------------------------------------------
(* Time passes: a waiting run is due after Refresh, neither a query nor    *)
(* the way to the next one takes longer than Latency, and the end of a run *)
(* takes no time.                                                          *)
TimePasses ==
    /\ now < Midnight(LastDay)
    /\ r.pc = "select" => now < r.at
    /\ r.pc \in {"window", "fetch"} => now < r.at + Latency
    /\ r.pc \notin {"expire", "contract"}
    /\ Repairing => now < repair.at + Latency
    /\ now' = now + 1
    /\ UNCHANGED <<repo, coverage, foreign, lastRun, runs, b, r, repair, callVars, lastGood, missed>>

BuildStep == BuildSkip \/ BuildQuery \/ BuildStore \/ BuildFails \/ BuildCompletes
RunStep == RunBegins \/ RunQuery \/ RunStore \/ RunFails \/ RunReachesNow \/ RunExpire \/ RunContract

(* Bound: a repair starts with a day that is retained and has begun. *)
WindowsNext ==
    \/ BuildStep
    \/ RunStep
    \/ \E s \in Limit .. RoundBack(now) : RepairQuery(s)
    \/ RepairStore \/ RepairFails
    \/ Stop \/ BuildLeaves \/ RunLeaves
    \/ \E rebuild \in BOOLEAN : StartAgain(rebuild)
    \/ Recreate
    \/ TimePasses

WindowsSpec == WindowsInit /\ [][WindowsNext]_windowsVars

-----------------------------------------------------------------------------
(* No day is left behind: an ended day within the retention period either  *)
(* has its final data, or is one the next run starts from, or the build    *)
(* has still to get to it. The build itself may leave a day behind in two  *)
(* ways, and they are the only ones: the provider failed its window, which *)
(* is not tried again, or the repository had a predecessor's partial data  *)
(* for every day of the window and LoadWindow skipped it.                  *)
Ended(d) == Midnight(d + 1) <= now
NothingLeftBehind ==
    \A d \in Days : Ended(d) /\ d >= Limit =>
        \/ repo[d] = "final"
        \/ d >= lastRun - RunWindow
        \/ b.pc \in {"loop", "fetch"} /\ d < b.e
        \/ stopping
        \/ d \in missed

(* A run none of whose queries failed has stored every day from RunWindow  *)
(* days before the previous run to the day it began in, however many       *)
(* windows that took and whatever midnight it crossed.                     *)
GoodRunStoresAll ==
    [][(r.pc = "window" /\ r'.pc = "expire" /\ r.good) =>
         \A d \in Days : (lastRun - RunWindow <= d /\ Midnight(d) < r.began) => repo[d] # "none"]_windowsVars

(* When a build completes without a failed window, the coverage the        *)
(* ingestor reports contains every retained day with final data, also what *)
(* its predecessor stored. The one exception is a day that has begun since *)
(* the predecessor was deleted and that only a repair of the predecessor,  *)
(* still running, has stored. (The converse is not true: a window that     *)
(* failed inside the coverage is a gap it does not show.)                  *)
Covered(d) == coverage.start <= d /\ d < coverage.end
StoredIsCovered ==
    (b.pc = "wait" /\ b.good) =>
        \A d \in Days : (repo[d] = "final" /\ d >= Limit) => Covered(d) \/ d \in foreign

-----------------------------------------------------------------------------
(* The inductive invariants that IngestionProofs proves. *)

Building == b.pc \in {"loop", "fetch"}
InRun == r.pc \in {"window", "fetch"}

(* The days the goroutines work on are not in the future, and the steps of *)
(* a run and of a repair are within Latency of each other.                 *)
DayClock ==
    /\ FirstDay <= lastRun /\ lastRun <= RoundBack(now) /\ RoundBack(now) <= LastDay
    /\ lastGood <= now
RunClock ==
    /\ r.pc = "fetch" => r.s <= RoundBack(now)
    /\ InRun => r.began <= r.at /\ r.at <= now /\ now <= r.at + Latency
    /\ r.pc \in {"expire", "contract"} => r.at = now
    /\ r.pc = "contract" => r.s <= Limit
RepairClock == Repairing => repair.at <= now /\ now <= repair.at + Latency /\ repair.heir <= RoundBack(now)
FinalEnded == \A d \in Days : repo[d] = "final" => Ended(d)
BuildClock ==
    Building => /\ b.e <= RoundBack(now) /\ b.limit <= Limit
                /\ b.s <= b.limit \/ b.s + QueryWindow <= b.e
ClockInv == DayClock /\ RunClock /\ RepairClock /\ FinalEnded /\ BuildClock

(* While no window of a build has failed, the coverage has every retained  *)
(* day with final data that the build is past, and every day that a        *)
(* deleted ingestor's repair may store without it being foreign.           *)
CoverageInv ==
    (b.pc # "stopped" /\ b.good) =>
        \A d \in Days : d >= Limit =>
            /\ repo[d] = "final" => Covered(d) \/ (Building /\ d < b.e) \/ d \in foreign
            /\ (Repairing /\ repair.heir # Own /\ d < repair.heir) => Covered(d) \/ (Building /\ d < b.e)

(* The windows of a run leave no gap: one that is cut short reaches beyond *)
(* the beginning of the run, and a good run has stored the days behind it. *)
RunInv ==
    InRun =>
        /\ r.e >= r.s + QueryWindow \/ Midnight(r.e) >= r.began
        /\ r.good => \A d \in Days : (lastRun - RunWindow <= d /\ d < r.s /\ Midnight(d) < r.began) => repo[d] # "none"

(* If queries are not too slow, it also reaches the time of the cut. *)
CutInv ==
    InRun => \/ r.e >= r.s + QueryWindow
             \/ Midnight(r.e) + (IF r.pc = "fetch" THEN Latency ELSE 0) >= r.at

(* A day that has ended and whose final data only a run can still fetch *)
Unsettled(d) ==
    /\ Ended(d) /\ d >= Limit
    /\ repo[d] # "final" /\ d \notin missed
    /\ ~(Building /\ d < b.e) /\ ~stopping

(* It is young: no good run began long after it had ended, the next run    *)
(* starts from it, and a run that has passed it did so soon after its end, *)
(* or is a window further on and thus about to end.                        *)
Young(d) ==
    /\ lastGood < Midnight(d + 1) + Latency
    /\ lastRun <= d + RunWindow
    /\ (InRun /\ d < r.s) =>
          /\ r.good => r.began < Midnight(d + 1) + Latency
          /\ IF r.pc = "fetch"
             THEN r.at + 2 <= Midnight(d + 1) + MaxOutage + 2 * Latency
             ELSE \/ r.at + 2 <= Midnight(d + 1) + MaxOutage + Latency
                  \/ /\ d + 1 + QueryWindow <= r.s
                     /\ r.at + 2 <= Midnight(d + 1) + MaxOutage + 3 * Latency
YoungInv == \A d \in Days : Unsettled(d) => Young(d)

StoreInv == WindowsTypeOK /\ ClockInv /\ CoverageInv /\ RunInv
PaceInv == CutInv /\ YoungInv
=============================================================================
