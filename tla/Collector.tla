----------------------------- MODULE Collector ------------------------------
(***************************************************************************)
(* The collector data source (modules/collector-source): a scrape loop     *)
(* takes a sample of the cluster per interval, a repository keeps, for     *)
(* every resolution, one metric store per window of its retention, and a   *)
(* write-ahead log (the Walinator) keeps one file per sample so that a     *)
(* restarted process can rebuild the stores.                               *)
(*                                                                         *)
(* Time is counted in units, Second of them to a second: scrape times and  *)
(* window bounds are whole seconds, except the first scrape of a process,  *)
(* which is taken at once. A sample is its timestamp and a store is the    *)
(* sequence of the samples that were applied to it. The sleeps of the two  *)
(* cleaning loops are left out: a limit moves only at the instant they     *)
(* wake up at, so an earlier clean would find nothing to remove.           *)
(***************************************************************************)
EXTENDS Integers, Sequences, FiniteSets

CONSTANTS
    Resolutions,    \* [len, retention] records, len in units
    Second,         \* units per second: the granularity of file names
    ScrapeInterval, \* units
    MaxTime,        \* bound: the last instant explored
    MaxLate,        \* bound: units that pass while some goroutine has work due
    MaxCrashes,     \* bound: crashes of the process
    MaxFaults       \* bound: storage operations and computations that fail

ASSUME TimeAssumption ==
    /\ {Second, ScrapeInterval} \subseteq Nat \ {0}
    /\ {MaxTime, MaxLate, MaxCrashes, MaxFaults} \subseteq Nat
    /\ ScrapeInterval % Second = 0
    /\ \A r \in Resolutions : /\ r.len \in Nat \ {0}
                              /\ r.retention \in Nat \ {0}
                              /\ r.len % Second = 0

(* The longest resolution keeps more than any other, whatever the time is  *)
(* (by default 15 days against 49 hours and 6 hours). Without it, the      *)
(* resolution that NewWalinator finds to have the earliest limit at        *)
(* start-up need not have it later.                                        *)
ASSUME LongestAssumption ==
    \E r \in Resolutions : \A q \in Resolutions \ {r} :
        q.retention * q.len <= (r.retention - 1) * r.len

VARIABLES
    now,
    phase,      \* the process: down, then clean, list and restore of wal.Start, then up
    limitRes,   \* limitResolution of the Walinator
    stores,     \* stores[r]: window start -> the samples applied, in order
    wal,        \* the log on storage: second of the file name -> sample
    todo,       \* restore: the files not yet applied
    restoreLim, \* restore: the limit it computed when it began
    stage,      \* the scrape loop: idle, or between repo.Update and the log
    nextScrape, \* the timestamp of the next or the current sample
    unread,     \* history: samples this process could not restore
    unlogged,   \* history: samples of this process that could not be logged
    late, crashes, faults

repoVars == <<stores>>
walVars == <<limitRes, wal, todo, restoreLim, unread>>
scrapeVars == <<stage, nextScrape, unlogged>>
bounds == <<late, crashes>>
collectorVars == <<now, phase, repoVars, walVars, scrapeVars, bounds, faults>>

Phases == {"down", "clean", "list", "restore", "up"}
Range(f) == {f[x] : x \in DOMAIN f}

-----------------------------------------------------------------------------
(* util.Resolution: Get truncates a time to the start of its window, and   *)
(* Limit is the start of the oldest window in retention.                   *)
Get(r, t) == (t \div r.len) * r.len

Limit(r) == Get(r, now) - (r.retention - 1) * r.len

(* An event file is named after its timestamp, down to the second. *)
FileOf(ts) == ts \div Second
FileTime(f) == f * Second

(* Mutant of NewWalinator: Before becomes After. *)
NewWalinatorLatest == {r \in Resolutions : \A q \in Resolutions : Limit(r) >= Limit(q)}

NewWalinator == {r \in Resolutions : \A q \in Resolutions : Limit(r) <= Limit(q)}

(* Mutant of update: the previous window does not get the boundary sample. *)
updateExclusive(r, st, ts) ==
    IF ts < Limit(r) THEN st
    ELSE [k \in DOMAIN st \cup {Get(r, ts)} |->
             IF k = Get(r, ts)
             THEN Append(IF k \in DOMAIN st THEN st[k] ELSE << >>, ts)
             ELSE st[k]]

(* resolutionStores.update: a sample in retention goes to the store of its *)
(* window, made if need be, and one on a boundary also to the store of the *)
(* window that ends there, if there is one.                                *)
update(r, st, ts) ==
    IF ts < Limit(r) THEN st
    ELSE [k \in DOMAIN st \cup {Get(r, ts)} |->
             IF k = Get(r, ts) \/ (Get(r, ts) = ts /\ k = Get(r, ts - 1))
             THEN Append(IF k \in DOMAIN st THEN st[k] ELSE << >>, ts)
             ELSE st[k]]

(* MetricRepository.Update, under its lock. *)
Update(ts) == stores' = [r \in Resolutions |-> update(r, stores[r], ts)]

NoStores == [r \in Resolutions |-> << >>]

Fault == faults < MaxFaults /\ faults' = faults + 1

-----------------------------------------------------------------------------
Init ==
    /\ now = 0
    /\ phase = "down"
    /\ limitRes \in NewWalinator
    /\ stores = NoStores
    /\ wal = << >>
    /\ todo = {}
    /\ restoreLim = 0
    /\ stage = "idle"
    /\ nextScrape = 0
    /\ unread = {}
    /\ unlogged = {}
    /\ late = 0
    /\ crashes = 0
    /\ faults = 0

(* The files the log does without. *)
Expired == {f \in DOMAIN wal : Limit(limitRes) > FileTime(f)}

(* A goroutine of the collector has something to do. *)
CollectorDue ==
    \/ phase # "up"
    \/ stage = "log"
    \/ nextScrape <= now
    \/ Expired # {}
    \/ \E r \in Resolutions : \E k \in DOMAIN stores[r] : k < Limit(r)

Tick(due) ==
    /\ now < MaxTime
    /\ now' = now + 1
    /\ due => late < MaxLate
    /\ late' = IF due THEN late + 1 ELSE late
    /\ UNCHANGED <<phase, repoVars, walVars, scrapeVars, crashes, faults>>

(* NewCollectorDataSource: an empty repository and a Walinator for it. *)
Boot ==
    /\ phase = "down"
    /\ phase' = "clean"
    /\ limitRes' \in NewWalinator
    /\ UNCHANGED <<now, stores, wal, todo, restoreLim, unread, scrapeVars, bounds, faults>>

(* Walinator.clean, first thing in Start and then whenever the limit moves.*)
(* A failed listing or removal leaves files behind.                        *)
WalClean ==
    /\ \/ phase = "clean" /\ phase' = "list"
       \/ phase = "up" /\ Expired # {} /\ UNCHANGED phase
    /\ \/ /\ wal' = [f \in DOMAIN wal \ Expired |-> wal[f]]
          /\ UNCHANGED faults
       \/ /\ Expired # {}
          /\ Fault
          /\ UNCHANGED wal
    /\ UNCHANGED <<now, limitRes, todo, restoreLim, unread, repoVars, scrapeVars, bounds>>

(* Walinator.restore begins: list the files and compute the limit. With a  *)
(* failed listing it restores nothing.                                     *)
RestoreList ==
    /\ phase = "list"
    /\ phase' = "restore"
    /\ restoreLim' = Limit(limitRes)
    /\ \/ /\ todo' = DOMAIN wal
          /\ UNCHANGED <<unread, faults>>
       \/ /\ DOMAIN wal # {}
          /\ Fault
          /\ unread' = Range(wal)
          /\ UNCHANGED todo
    /\ UNCHANGED <<now, limitRes, wal, repoVars, scrapeVars, bounds>>

(* Mutant of NextFile: the files are not sorted. *)
NextFileAny == todo

(* The files are read concurrently and applied in the order of their names.*)
NextFile == {f \in todo : \A g \in todo : f <= g}

RestoreFile ==
    /\ phase = "restore"
    /\ \E f \in NextFile :
          /\ todo' = todo \ {f}
          /\ \/ /\ FileTime(f) < restoreLim
                /\ UNCHANGED <<repoVars, unread, faults>>
             \/ /\ FileTime(f) >= restoreLim
                /\ Update(wal[f])
                /\ UNCHANGED <<unread, faults>>
             \/ /\ FileTime(f) >= restoreLim
                /\ Fault
                /\ unread' = unread \cup {wal[f]}
                /\ UNCHANGED repoVars
    /\ UNCHANGED <<now, phase, limitRes, wal, restoreLim, scrapeVars, bounds>>

(* wal.Start has returned; ScrapeController.Start scrapes at once. *)
Ready ==
    /\ phase = "restore"
    /\ todo = {}
    /\ phase' = "up"
    /\ nextScrape' = now
    /\ restoreLim' = 0
    /\ UNCHANGED <<now, repoVars, limitRes, wal, todo, unread, stage, unlogged, bounds, faults>>

(* The scrapers have returned, any time after the timer fired, and         *)
(* Walinator.Update applies the sample to the repository ...               *)
ScrapeApply ==
    /\ phase = "up"
    /\ stage = "idle"
    /\ nextScrape <= now
    /\ Update(nextScrape)
    /\ stage' = "log"
    /\ UNCHANGED <<now, phase, walVars, nextScrape, unlogged, bounds, faults>>

Rescheduled == (now \div ScrapeInterval + 1) * ScrapeInterval

(* ... and then writes its file. A failed write is only logged. The loop   *)
(* goes on with the next multiple of the interval.                         *)
ScrapeLog ==
    /\ stage = "log"
    /\ stage' = "idle"
    /\ nextScrape' = Rescheduled
    /\ \/ /\ wal' = [f \in DOMAIN wal \cup {FileOf(nextScrape)} |->
                        IF f = FileOf(nextScrape) THEN nextScrape ELSE wal[f]]
          /\ UNCHANGED <<unlogged, faults>>
       \/ /\ Fault
          /\ unlogged' = unlogged \cup {nextScrape}
          /\ UNCHANGED wal
    /\ UNCHANGED <<now, phase, limitRes, todo, restoreLim, unread, repoVars, bounds>>

(* resolutionStores.clean. *)
StoreClean(r) ==
    /\ phase # "down"
    /\ \E k \in DOMAIN stores[r] : k < Limit(r)
    /\ stores' = [stores EXCEPT
          ![r] = [k \in {x \in DOMAIN stores[r] : x >= Limit(r)} |-> stores[r][k]]]
    /\ UNCHANGED <<now, phase, walVars, scrapeVars, bounds, faults>>

(* The process dies: only the log is left. A restart takes some time. *)
Crash ==
    /\ phase # "down"
    /\ crashes < MaxCrashes
    /\ now < MaxTime
    /\ crashes' = crashes + 1
    /\ now' = now + 1
    /\ phase' = "down"
    /\ stores' = NoStores
    /\ todo' = {}
    /\ stage' = "idle"
    /\ unread' = {}
    /\ unlogged' = {}
    /\ restoreLim' = 0
    /\ nextScrape' = 0
    /\ UNCHANGED <<limitRes, wal, late, faults>>

-----------------------------------------------------------------------------
Times == 0 .. MaxTime + ScrapeInterval

TypeOK ==
    /\ now \in 0 .. MaxTime
    /\ phase \in Phases
    /\ limitRes \in Resolutions
    /\ DOMAIN stores = Resolutions
    /\ \A r \in Resolutions : /\ DOMAIN stores[r] \subseteq Times
                              /\ \A k \in DOMAIN stores[r] : stores[r][k] \in Seq(Times)
    /\ DOMAIN wal \subseteq Times /\ Range(wal) \subseteq Times
    /\ todo \subseteq DOMAIN wal
    /\ restoreLim \in Int
    /\ stage \in {"idle", "log"}
    /\ nextScrape \in Times
    /\ unread \subseteq Times /\ unlogged \subseteq Times
    /\ late \in 0 .. MaxLate /\ crashes \in 0 .. MaxCrashes /\ faults \in 0 .. MaxFaults

(* Increase, rate and uptime aggregators need the samples of a window in   *)
(* the order of their timestamps, each of them once (average divides by    *)
(* the number of timestamps): so a store holds them, also one that was     *)
(* rebuilt from files and then went on with new samples.                   *)
InOrder ==
    \A r \in Resolutions : \A k \in DOMAIN stores[r] :
        LET s == stores[r][k]
        IN  /\ \A i \in DOMAIN s : k <= s[i] /\ s[i] <= k + r.len
            /\ \A i, j \in DOMAIN s : i < j => s[i] < s[j]

(* "restore applies updates from wal files to restore the state of the     *)
(* previous updater(repo)": when the process is up, every readable sample  *)
(* of the log that a resolution retains is in the store of its window, and *)
(* one on a boundary also in the store of the window that ends there.      *)
Recovered ==
    phase = "up" =>
        \A r \in Resolutions, ts \in Range(wal) \ unread :
            ts >= Limit(r) =>
                /\ Get(r, ts) \in DOMAIN stores[r]
                /\ ts \in Range(stores[r][Get(r, ts)])
                /\ ts = Get(r, ts) /\ Get(r, ts - 1) \in DOMAIN stores[r]
                      => ts \in Range(stores[r][Get(r, ts - 1)])

(* What a crash would lose: every sample that a store retains has its file *)
(* in the log, but for the one being logged, the ones whose write failed,  *)
(* and one that a later sample of the same second has replaced. In         *)
(* particular the log is never cleaned of what some resolution still needs.*)
Backed ==
    \A r \in Resolutions : \A k \in DOMAIN stores[r] :
        \A ts \in Range(stores[r][k]) :
            \/ ts < Limit(r)
            \/ FileOf(ts) \in DOMAIN wal
            \/ ts \in unlogged
            \/ stage = "log" /\ ts = nextScrape
=============================================================================
