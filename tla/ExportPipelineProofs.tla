------------------------ MODULE ExportPipelineProofs ------------------------
(***************************************************************************)
(* Safety of the collector and of the export pipeline on top of it, for    *)
(* any resolutions, intervals and bounds.                                  *)
(***************************************************************************)
EXTENDS ExportPipeline, TLAPS

(* The windows that hold sample ts: its own, and for one on a boundary     *)
(* also the window that ends there.                                        *)
InWindow(r, k, ts) == k = Get(r, ts) \/ (ts = Get(r, ts) /\ k = Get(r, ts - 1))

(* Sample ts is in every store of r that it belongs to. *)
Held(r, ts) ==
    /\ Get(r, ts) \in DOMAIN stores[r]
    /\ ts \in Range(stores[r][Get(r, ts)])
    /\ ts = Get(r, ts) /\ Get(r, ts - 1) \in DOMAIN stores[r]
          => ts \in Range(stores[r][Get(r, ts - 1)])

(* A sample that has been taken is older than the next one to be taken,    *)
(* also if that is the first one of a process that has yet to start.       *)
Past(ts) ==
    /\ ts \in Nat /\ ts <= now
    /\ phase # "up" => ts < now
    /\ phase = "up" => ts <= nextScrape
    /\ phase = "up" /\ stage = "idle" => ts < nextScrape

(* The process and the types of the collector's state. *)
PhaseInv ==
    /\ now \in 0 .. MaxTime
    /\ phase \in Phases
    /\ stage \in {"idle", "log"}
    /\ nextScrape \in Nat /\ nextScrape <= now + ScrapeInterval
    /\ stage = "log" => phase = "up" /\ nextScrape <= now
    /\ phase # "restore" => todo = {}
    /\ todo \subseteq DOMAIN wal

(* The resolution that the log is cleaned by is the one that keeps more    *)
(* than any other, and the limit of a restore is one of its past limits.   *)
LimitInv ==
    /\ limitRes \in Resolutions
    /\ \A q \in Resolutions \ {limitRes} :
          q.retention * q.len <= (limitRes.retention - 1) * limitRes.len
    /\ restoreLim \in Int
    /\ phase = "restore" => restoreLim <= Limit(limitRes) /\ restoreLim % Second = 0

(* A file is named after its sample, and a restore takes the files in      *)
(* order.                                                                  *)
WalInv ==
    /\ \A f \in DOMAIN wal : Past(wal[f]) /\ FileOf(wal[f]) = f
    /\ \A f \in DOMAIN wal \ todo, g \in todo : f < g

(* The stores hold samples of their windows, all of them older than what   *)
(* is still to be applied, and a restore begins with empty ones.           *)
StoreInv ==
    /\ DOMAIN stores = Resolutions
    /\ phase \in {"down", "clean", "list"} => \A r \in Resolutions : DOMAIN stores[r] = {}
    /\ \A r \in Resolutions : \A k \in DOMAIN stores[r] :
          /\ stores[r][k] \in Seq(Nat)
          /\ \A i \in DOMAIN stores[r][k] :
                /\ Past(stores[r][k][i])
                /\ InWindow(r, k, stores[r][k][i])
                /\ \A f \in todo : FileOf(stores[r][k][i]) < f

Ascending ==
    \A r \in Resolutions : \A k \in DOMAIN stores[r] :
        \A i, j \in DOMAIN stores[r][k] : i < j => stores[r][k][i] < stores[r][k][j]

(* What a restore has done with so far is in the stores, and so is the     *)
(* sample that is about to be logged.                                      *)
HeldInv ==
    /\ phase \in {"restore", "up"} =>
          \A r \in Resolutions : \A f \in DOMAIN wal \ todo :
              wal[f] \notin unread /\ wal[f] >= Limit(r) => Held(r, wal[f])
    /\ stage = "log" => \A r \in Resolutions : nextScrape >= Limit(r) => Held(r, nextScrape)

CollectorInv ==
    PhaseInv /\ LimitInv /\ WalInv /\ StoreInv /\ Ascending /\ HeldInv /\ Backed

-----------------------------------------------------------------------------
(* An iteration of the export loop has the current window to do, or that   *)
(* one and the window of lastExport before it.                             *)
LoopInv ==
    /\ iterNow \in Nat /\ iterNow <= now
    /\ lastExport \in Int /\ Never <= lastExport /\ lastExport <= now
    /\ windows # << >> => phase = "up" /\ lastExport <= iterNow
    /\ computed # None => windows # << >>
    /\ \/ windows = << >>
       \/ windows = <<Get(ExportRes, iterNow)>>
       \/ /\ windows = <<Get(ExportRes, lastExport), Get(ExportRes, iterNow)>>
          /\ lastExport # Never
          /\ Get(ExportRes, lastExport) # Get(ExportRes, iterNow)

(* Nothing later than the window of lastExport has been exported, and when *)
(* only the current window is left, the ones before it are sealed or were  *)
(* missed.                                                                 *)
SealInv ==
    /\ \A k \in exported : lastExport # Never /\ k \in Int /\ k <= Get(ExportRes, lastExport)
    /\ windows = <<Get(ExportRes, iterNow)>> =>
          \A k \in exported : k < Get(ExportRes, iterNow) => k \in sealed \cup missed
    /\ SealedUnlessMissed

(* Files and computed sets hold past samples of their windows, and a set   *)
(* that is about to replace a file has every sample of it that the log     *)
(* still has or is about to have.                                          *)
FileInv ==
    /\ \A k \in DOMAIN files : \A ts \in files[k] : Past(ts) /\ InWindow(ExportRes, k, ts)
    /\ computed # None =>
          \A ts \in computed : Past(ts) /\ InWindow(ExportRes, Head(windows), ts)
    /\ (/\ computed # None /\ computed # {}
        /\ Head(windows) \in DOMAIN files
        /\ Head(windows) >= Limit(ExportRes))
          => \A ts \in files[Head(windows)] :
                (ts \in Range(wal) \ unread \/ (stage = "log" /\ ts = nextScrape))
                    => ts \in computed

IInv == CollectorInv /\ LoopInv /\ SealInv /\ FileInv

-----------------------------------------------------------------------------
(* Windows: Get is the greatest multiple of the length up to a time.       *)
LEMMA ResolutionType ==
  ASSUME NEW r \in Resolutions
  PROVE  /\ r.len \in Nat \ {0} /\ r.retention \in Nat \ {0}
         /\ r.len = (r.len \div Second) * Second /\ r.len \div Second \in Nat
         /\ Second \in Nat \ {0} /\ ScrapeInterval \in Nat \ {0} /\ MaxTime \in Nat
  BY TimeAssumption

(* Multiplication is monotone: the solver needs it one product at a time. *)
LEMMA MulMono ==
  ASSUME NEW a \in Int, NEW b \in Int, NEW d \in Nat, a <= b
  PROVE  a * d <= b * d
  OBVIOUS

(* Two different multiples are a whole length apart. *)
LEMMA MulStep ==
  ASSUME NEW a \in Int, NEW b \in Int, NEW d \in Nat, a * d < b * d
  PROVE  a * d + d <= b * d
  <1>1. a < b
    BY MulMono
  <1>2. (a + 1) * d <= b * d
    BY <1>1, MulMono
  <1> QED BY <1>2

(* A time lies in the window that Get says it lies in, *)
LEMMA GetBounds ==
  ASSUME NEW r \in Resolutions, NEW t \in Int
  PROVE  Get(r, t) \in Int /\ Get(r, t) <= t /\ t < Get(r, t) + r.len
  BY ResolutionType DEF Get

(* windows of natural times are natural, *)
LEMMA GetNat ==
  ASSUME NEW r \in Resolutions, NEW t \in Nat
  PROVE  Get(r, t) \in Nat
  BY ResolutionType DEF Get

(* later times are in later windows, *)
LEMMA GetMono ==
  ASSUME NEW r \in Resolutions, NEW s \in Int, NEW t \in Int, s <= t
  PROVE  Get(r, s) <= Get(r, t)
  <1>1. s \div r.len <= t \div r.len
    BY ResolutionType
  <1> QED BY <1>1, MulMono, ResolutionType DEF Get

(* and two different windows do not overlap. *)
LEMMA GetStep ==
  ASSUME NEW r \in Resolutions, NEW s \in Int, NEW t \in Int, Get(r, s) < Get(r, t)
  PROVE  Get(r, s) + r.len <= Get(r, t)
  <1>1. s \div r.len \in Int /\ t \div r.len \in Int
    BY ResolutionType
  <1> QED BY <1>1, MulStep, ResolutionType DEF Get

(* The limit at time t. *)
LimitAt(r, t) == Get(r, t) - (r.retention - 1) * r.len

(* The limit of the model is the one at the current time. *)
LEMMA LimitIs == \A r : Limit(r) = LimitAt(r, now) /\ Limit(r)' = LimitAt(r, now')
  BY DEF Limit, LimitAt, Get

(* A limit is an integer (before the first retention period has passed it  *)
(* is negative) ...                                                        *)
LEMMA LimitType ==
  ASSUME NEW r \in Resolutions, NEW t \in Int
  PROVE  LimitAt(r, t) \in Int
  BY GetBounds, ResolutionType DEF LimitAt

(* ... and never moves back. *)
LEMMA LimitMono ==
  ASSUME NEW r \in Resolutions, NEW s \in Int, NEW t \in Int, s <= t
  PROVE  LimitAt(r, s) <= LimitAt(r, t)
  BY GetMono, GetBounds, ResolutionType DEF LimitAt

(* A limit is the start of a window, so a sample is in retention exactly   *)
(* if its window is.                                                       *)
LEMMA LimitIsStart ==
  ASSUME NEW r \in Resolutions, NEW t \in Int, NEW ts \in Int, ts >= LimitAt(r, t)
  PROVE  Get(r, ts) >= LimitAt(r, t)
  <1> DEFINE q == t \div r.len - (r.retention - 1)
  <1>1. q \in Int /\ LimitAt(r, t) = q * r.len
    BY ResolutionType DEF LimitAt, Get
  <1> DEFINE p == ts \div r.len
  <1>2. p \in Int /\ Get(r, ts) = p * r.len /\ ts < p * r.len + r.len /\ r.len \in Nat
    <2>1. r.len \in Nat \ {0}
      BY ResolutionType
    <2>2. Get(r, ts) = p * r.len
      BY DEF Get
    <2>3. p \in Int
      BY <2>1
    <2> HIDE DEF q, p
    <2> QED BY <2>1, <2>2, <2>3, GetBounds
  <1> HIDE DEF q, p
  <1>3. p * r.len < q * r.len => p * r.len + r.len <= q * r.len
    BY <1>1, <1>2, MulStep
  <1>4. p * r.len \in Int /\ q * r.len \in Int
    BY <1>1, <1>2
  <1> QED BY <1>1, <1>2, <1>3, <1>4

(* Limits are whole seconds, as the names of files are. *)
LEMMA LimitSeconds ==
  ASSUME NEW r \in Resolutions, NEW t \in Int
  PROVE  LimitAt(r, t) % Second = 0
  <1> DEFINE q == t \div r.len - (r.retention - 1)
             m == r.len \div Second
  <1>1. q \in Int /\ LimitAt(r, t) = q * r.len
    BY ResolutionType DEF LimitAt, Get
  <1>2. m \in Int /\ r.len = m * Second /\ Second \in Nat \ {0}
    BY ResolutionType
  <1> HIDE DEF q, m
  <1>3. LimitAt(r, t) = (q * m) * Second /\ q * m \in Int
    BY <1>1, <1>2
  <1>4. \A x \in Int : (x * Second) % Second = 0
    BY <1>2
  <1> QED BY <1>3, <1>4

(* A file that is older than a limit has a sample that is.                 *)
LEMMA FileBeforeLimit ==
  ASSUME NEW lim \in Int, lim % Second = 0, NEW ts \in Int, FileTime(FileOf(ts)) < lim
  PROVE  ts < lim
  <1>1. Second \in Nat \ {0}
    BY TimeAssumption
  <1>2. lim = (lim \div Second) * Second /\ lim \div Second \in Int
    BY <1>1
  <1>3. ts \div Second \in Int /\ ts < (ts \div Second) * Second + Second
    BY <1>1
  <1>4. (ts \div Second) * Second + Second <= lim
    BY <1>1, <1>2, <1>3, MulStep DEF FileTime, FileOf
  <1> QED BY <1>3, <1>4, <1>1

(* A file with a later name holds a later sample. *)
LEMMA FileMono ==
  ASSUME NEW s \in Int, NEW t \in Int, FileOf(s) < FileOf(t)
  PROVE  s < t
  <1>1. Second \in Nat \ {0}
    BY TimeAssumption
  <1>2. t <= s => t \div Second <= s \div Second
    BY <1>1
  <1> QED BY <1>1, <1>2 DEF FileOf

(* A resolution that keeps more than any other has the earliest limit at   *)
(* all times.                                                              *)
LEMMA LongestLimit ==
  ASSUME NEW r \in Resolutions, NEW q \in Resolutions, NEW t \in Int,
         q.retention * q.len <= (r.retention - 1) * r.len
  PROVE  LimitAt(r, t) < LimitAt(q, t)
  <1>1. (q.retention - 1) * q.len = q.retention * q.len - q.len
    BY ResolutionType
  <1>2. q.retention * q.len \in Int /\ (r.retention - 1) * r.len \in Int
    BY ResolutionType
  <1> QED BY <1>1, <1>2, GetBounds, ResolutionType DEF LimitAt

-----------------------------------------------------------------------------
(* Update: what resolutionStores.update does to the store of a window.     *)
LEMMA AppendIs ==
  ASSUME NEW s \in Seq(Nat), NEW e \in Nat
  PROVE  /\ Len(s) \in Nat /\ DOMAIN s = 1 .. Len(s)
         /\ Append(s, e) \in Seq(Nat)
         /\ DOMAIN Append(s, e) = 1 .. Len(s) + 1
         /\ \A i \in DOMAIN s : Append(s, e)[i] = s[i]
         /\ Append(s, e)[Len(s) + 1] = e
  OBVIOUS

(* The samples in the store of window k before an update. *)
Old(r, k) == IF k \in DOMAIN stores[r] THEN stores[r][k] ELSE << >>

(* An update touches only the stores whose window the sample is in, and    *)
(* none of a resolution that no longer retains it.                         *)
LEMMA UpdateEffect ==
  ASSUME NEW ts \in Nat, Update(ts), NEW r \in Resolutions
  PROVE  /\ DOMAIN stores' = Resolutions
         /\ ts < Limit(r) => stores'[r] = stores[r]
         /\ ~(ts < Limit(r)) =>
               /\ DOMAIN stores'[r] = DOMAIN stores[r] \cup {Get(r, ts)}
               /\ \A k \in DOMAIN stores'[r] :
                     stores'[r][k] = IF InWindow(r, k, ts) THEN Append(Old(r, k), ts)
                                     ELSE stores[r][k]
  <1>1. DOMAIN stores' = Resolutions /\ stores'[r] = update(r, stores[r], ts)
    BY DEF Update
  <1>2. CASE ts < Limit(r)
    BY <1>1, <1>2 DEF update
  <1>3. CASE ~(ts < Limit(r))
    <2>1. stores'[r] = [k \in DOMAIN stores[r] \cup {Get(r, ts)} |->
             IF k = Get(r, ts) \/ (Get(r, ts) = ts /\ k = Get(r, ts - 1))
             THEN Append(IF k \in DOMAIN stores[r] THEN stores[r][k] ELSE << >>, ts)
             ELSE stores[r][k]]
      BY <1>1, <1>3 DEF update
    <2> QED BY <1>1, <1>3, <2>1 DEF InWindow, Old
  <1> QED BY <1>2, <1>3

(* A sample that is later than all that the stores hold goes to the end of *)
(* the stores of its windows; the others stay where they are.              *)
LEMMA UpdateStores ==
  ASSUME StoreInv, Ascending, NEW ts \in Nat, Update(ts), now \in Int,
         \A r \in Resolutions : \A k \in DOMAIN stores[r] : \A i \in DOMAIN stores[r][k] :
             stores[r][k][i] < ts
  PROVE  /\ DOMAIN stores' = Resolutions
         /\ Ascending'
         /\ \A r \in Resolutions : \A k \in DOMAIN stores'[r] :
               /\ stores'[r][k] \in Seq(Nat)
               /\ \A i \in DOMAIN stores'[r][k] :
                     \/ /\ stores'[r][k][i] = ts /\ InWindow(r, k, ts)
                     \/ /\ k \in DOMAIN stores[r] /\ i \in DOMAIN stores[r][k]
                        /\ stores'[r][k][i] = stores[r][k][i]
         /\ \A r \in Resolutions : \A k \in DOMAIN stores[r] :
               k \in DOMAIN stores'[r] /\ Range(stores[r][k]) \subseteq Range(stores'[r][k])
         /\ \A r \in Resolutions : ts >= Limit(r) => Held(r, ts)'
         /\ \A r \in Resolutions, x \in Nat : x < ts /\ Held(r, x) => Held(r, x)'
  <1>1. DOMAIN stores' = Resolutions
    <2>1. CASE Resolutions = {}
      BY <2>1 DEF Update
    <2>2. CASE Resolutions # {}
      BY <2>2, UpdateEffect
    <2> QED BY <2>1, <2>2
  <1>2. ASSUME NEW r \in Resolutions, NEW k \in DOMAIN stores'[r]
        PROVE  /\ stores'[r][k] \in Seq(Nat)
               /\ \A i \in DOMAIN stores'[r][k] :
                     \/ /\ stores'[r][k][i] = ts /\ InWindow(r, k, ts)
                     \/ /\ k \in DOMAIN stores[r] /\ i \in DOMAIN stores[r][k]
                        /\ stores'[r][k][i] = stores[r][k][i]
               /\ \A i, j \in DOMAIN stores'[r][k] : i < j => stores'[r][k][i] < stores'[r][k][j]
               /\ k \in DOMAIN stores[r] => Range(stores[r][k]) \subseteq Range(stores'[r][k])
               /\ ~(ts < Limit(r)) /\ InWindow(r, k, ts) => ts \in Range(stores'[r][k])
    <2>1. CASE ~(ts < Limit(r)) /\ InWindow(r, k, ts)
      <3> DEFINE s == Old(r, k)
      <3>1. s \in Seq(Nat)
        BY DEF StoreInv, Old
      <3>2. stores'[r][k] = Append(s, ts)
        BY <2>1, UpdateEffect
      <3>3. /\ s = << >> \/ k \in DOMAIN stores[r]
            /\ k \in DOMAIN stores[r] => s = stores[r][k]
        BY DEF Old
      <3> HIDE DEF s
      <3>4. \A i \in DOMAIN s : k \in DOMAIN stores[r] /\ s = stores[r][k] /\ s[i] < ts
        BY <3>3
      <3>5. \A i, j \in DOMAIN s : i < j => s[i] < s[j]
        BY <3>3 DEF Ascending
      <3>6. \A i \in DOMAIN Append(s, ts) : i \in DOMAIN s \/ Append(s, ts)[i] = ts
        BY <3>1, AppendIs
      <3>7. \A i, j \in DOMAIN Append(s, ts) : i < j => Append(s, ts)[i] < Append(s, ts)[j]
        BY <3>1, <3>4, <3>5, AppendIs
      <3>8. ts \in Range(Append(s, ts)) /\ Range(s) \subseteq Range(Append(s, ts))
        BY <3>1, AppendIs DEF Range
      <3> QED BY <2>1, <3>1, <3>2, <3>3, <3>4, <3>6, <3>7, <3>8, AppendIs
    <2>2. CASE ts < Limit(r) \/ ~InWindow(r, k, ts)
      <3>1. k \in DOMAIN stores[r] /\ stores'[r][k] = stores[r][k]
        BY <2>2, UpdateEffect DEF InWindow
      <3> QED BY <2>2, <3>1 DEF StoreInv, Ascending
    <2> QED BY <2>1, <2>2
  <1>3. Ascending'
    BY <1>2 DEF Ascending
  <1>4. ASSUME NEW r \in Resolutions, NEW k \in DOMAIN stores[r]
        PROVE  k \in DOMAIN stores'[r] /\ Range(stores[r][k]) \subseteq Range(stores'[r][k])
    <2>1. k \in DOMAIN stores'[r]
      BY UpdateEffect
    <2> QED BY <1>2, <2>1
  <1>5. ASSUME NEW r \in Resolutions, ts >= Limit(r)
        PROVE  Held(r, ts)'
    <2>1. ~(ts < Limit(r)) /\ Get(r, ts) \in DOMAIN stores'[r]
      BY <1>5, UpdateEffect, LimitIs, LimitType
    <2> QED BY <1>2, <2>1 DEF Held, InWindow
  <1>6. ASSUME NEW r \in Resolutions, NEW x \in Nat, x < ts, Held(r, x)
        PROVE  Held(r, x)'
    <2>1. Get(r, x) \in DOMAIN stores'[r] /\ x \in Range(stores'[r][Get(r, x)])
      BY <1>4, <1>6 DEF Held
    <2>2. ASSUME x = Get(r, x), Get(r, x - 1) \in DOMAIN stores'[r]
          PROVE  x \in Range(stores'[r][Get(r, x - 1)])
      <3>1. Get(r, x - 1) # Get(r, ts)
        BY <1>6, <2>2, GetBounds, GetMono
      <3>2. Get(r, x - 1) \in DOMAIN stores[r]
        BY <2>2, <3>1, UpdateEffect
      <3> QED BY <1>4, <1>6, <2>2, <3>2 DEF Held
    <2> QED BY <2>1, <2>2 DEF Held
  <1> QED BY <1>1, <1>2, <1>3, <1>4, <1>5, <1>6

-----------------------------------------------------------------------------
(* The initial state. The Walinator picks the longest resolution. *)
LEMMA NewWalinatorIsLongest ==
  ASSUME now \in Int, NEW r \in NewWalinator
  PROVE  /\ r \in Resolutions
         /\ \A q \in Resolutions \ {r} : q.retention * q.len <= (r.retention - 1) * r.len
  <1>1. PICK l \in Resolutions :
           \A q \in Resolutions \ {l} : q.retention * q.len <= (l.retention - 1) * l.len
    BY LongestAssumption
  <1>2. r \in Resolutions /\ \A q \in Resolutions : Limit(r) <= Limit(q)
    BY DEF NewWalinator
  <1>3. CASE r = l
    BY <1>1, <1>2, <1>3
  <1>4. CASE r # l
    <2>1. LimitAt(l, now) < LimitAt(r, now)
      BY <1>1, <1>2, <1>4, LongestLimit
    <2>2. LimitAt(r, now) <= LimitAt(l, now)
      BY <1>2, LimitIs
    <2> QED BY <1>1, <1>2, <2>1, <2>2, LimitType
  <1> QED BY <1>3, <1>4

(* The log is cleaned by the earliest limit, now and later. *)
LEMMA EarliestLimit ==
  ASSUME LimitInv, NEW t \in Int, NEW r \in Resolutions
  PROVE  LimitAt(limitRes, t) <= LimitAt(r, t)
  <1>1. CASE r = limitRes
    BY <1>1, LimitType
  <1>2. CASE r # limitRes
    BY <1>2, LongestLimit, LimitType DEF LimitInv
  <1> QED BY <1>1, <1>2

(* The invariant of the collector holds initially. *)
LEMMA InitCollector == Init => CollectorInv
  <1> SUFFICES ASSUME Init PROVE CollectorInv
    OBVIOUS
  <1> USE TimeAssumption DEF Init
  <1>1. PhaseInv
    BY DEF PhaseInv, Phases
  <1>2. LimitInv
    BY NewWalinatorIsLongest DEF LimitInv
  <1>3. WalInv
    BY DEF WalInv
  <1>4. StoreInv /\ Ascending /\ HeldInv /\ Backed
    BY DEF StoreInv, Ascending, HeldInv, Backed, NoStores
  <1> QED BY <1>1, <1>2, <1>3, <1>4 DEF CollectorInv

(* What is past stays past: the next sample is always taken later.         *)
LEMMA RescheduledLater ==
  ASSUME now \in Nat
  PROVE  Rescheduled \in Nat /\ now < Rescheduled /\ Rescheduled <= now + ScrapeInterval
  <1> DEFINE q == now \div ScrapeInterval
  <1>1. ScrapeInterval \in Nat \ {0}
    BY TimeAssumption
  <1>2. q \in Nat /\ q * ScrapeInterval <= now /\ now < q * ScrapeInterval + ScrapeInterval
    BY <1>1
  <1>3. Rescheduled = (q + 1) * ScrapeInterval
    BY DEF Rescheduled
  <1> HIDE DEF q
  <1>4. (q + 1) * ScrapeInterval = q * ScrapeInterval + ScrapeInterval
    BY <1>1, <1>2
  <1>5. q * ScrapeInterval \in Nat
    BY <1>1, <1>2
  <1> QED BY <1>1, <1>2, <1>3, <1>4, <1>5

(* What has been scraped stays in the past: no step moves the clock or the *)
(* next scrape back.                                                       *)
LEMMA PastKept ==
  ASSUME PhaseInv,
         \/ \E d \in BOOLEAN : Tick(d)
         \/ Boot \/ WalClean \/ RestoreList \/ RestoreFile \/ Ready \/ ScrapeApply \/ ScrapeLog
         \/ \E r \in Resolutions : StoreClean(r)
         \/ Crash
         \/ UNCHANGED <<now, phase, stage, nextScrape>>,
         NEW ts, Past(ts)
  PROVE  Past(ts)'
  <1> USE TimeAssumption DEF PhaseInv, Past, scrapeVars
  <1>1. CASE \E d \in BOOLEAN : Tick(d)
    BY <1>1 DEF Tick
  <1>2. CASE Boot
    BY <1>2 DEF Boot
  <1>3. CASE WalClean
    BY <1>3 DEF WalClean
  <1>4. CASE RestoreList
    BY <1>4 DEF RestoreList
  <1>5. CASE RestoreFile
    BY <1>5 DEF RestoreFile
  <1>6. CASE Ready
    BY <1>6 DEF Ready
  <1>7. CASE ScrapeApply
    BY <1>7 DEF ScrapeApply
  <1>8. CASE ScrapeLog
    BY <1>8, RescheduledLater DEF ScrapeLog
  <1>9. CASE \E r \in Resolutions : StoreClean(r)
    BY <1>9 DEF StoreClean
  <1>10. CASE Crash
    BY <1>10 DEF Crash
  <1>11. CASE UNCHANGED <<now, phase, stage, nextScrape>>
    BY <1>11
  <1> QED BY <1>1, <1>2, <1>3, <1>4, <1>5, <1>6, <1>7, <1>8, <1>9, <1>10, <1>11

(* Steps that leave the stores alone. *)
LEMMA StoresKept ==
  ASSUME StoreInv, Ascending, UNCHANGED stores, todo' \subseteq todo,
         \A ts : Past(ts) => Past(ts)',
         phase' \in {"down", "clean", "list"} => phase \in {"down", "clean", "list"}
  PROVE  StoreInv' /\ Ascending' /\ \A r, ts : Held(r, ts) <=> Held(r, ts)'
  <1>1. StoreInv'
    <2>1. DOMAIN stores' = Resolutions
      BY DEF StoreInv
    <2>2. phase' \in {"down", "clean", "list"} => \A r \in Resolutions : DOMAIN stores'[r] = {}
      BY DEF StoreInv
    <2>3. ASSUME NEW r \in Resolutions, NEW k \in DOMAIN stores[r] 
          PROVE  /\ stores[r][k] \in Seq(Nat)
                 /\ \A i \in DOMAIN stores[r][k] :
                      /\ Past(stores[r][k][i])'
                      /\ InWindow(r, k, stores[r][k][i])
                      /\ \A f \in todo' : FileOf(stores[r][k][i]) < f
      BY <2>3 DEF StoreInv
    <2> QED BY <2>1, <2>2, <2>3 DEF StoreInv, InWindow, FileOf, Get
  <1>2. Ascending'
    BY DEF Ascending
  <1>3. \A r, ts : Held(r, ts) <=> Held(r, ts)'
    BY DEF Held, Get, Range
  <1> QED BY <1>1, <1>2, <1>3

-----------------------------------------------------------------------------
(* The steps of the collector. Time only moves limits, and only forward.   *)
LEMMA LimitKept ==
  ASSUME LimitInv, now \in Int, now' \in Int, now <= now', NEW r \in Resolutions
  PROVE  Limit(r) \in Int /\ Limit(r)' \in Int /\ Limit(r) <= Limit(r)'
  BY LimitIs, LimitMono, LimitType

(* The steps of the collector one by one. Time passes: *)
LEMMA TickStep ==
  ASSUME CollectorInv, NEW d \in BOOLEAN, Tick(d)
  PROVE  CollectorInv'
  <1> USE DEF CollectorInv
  <1>1. /\ now' = now + 1 /\ now < MaxTime /\ now \in Nat /\ MaxTime \in Nat
        /\ UNCHANGED <<phase, stores, limitRes, wal, todo, restoreLim, unread, stage, nextScrape, unlogged>>
    BY TimeAssumption DEF Tick, repoVars, walVars, scrapeVars, PhaseInv
  <1>2. \A ts : Past(ts) => Past(ts)'
    BY PastKept
  <1>3. \A r \in Resolutions : Limit(r) \in Int /\ Limit(r)' \in Int /\ Limit(r) <= Limit(r)'
    BY <1>1, LimitKept
  <1>4. StoreInv' /\ Ascending' /\ \A r, ts : Held(r, ts) <=> Held(r, ts)'
    BY <1>1, <1>2, StoresKept
  <1>5. PhaseInv'
    BY <1>1, TimeAssumption DEF PhaseInv
  <1>6. LimitInv'
    <2>1. Limit(limitRes)' = LimitAt(limitRes, now')
      BY <1>1 DEF Limit, LimitAt, Get
    <2>2. Limit(limitRes) <= Limit(limitRes)' /\ Limit(limitRes) \in Int /\ Limit(limitRes)' \in Int
      BY <1>1, <2>1, LimitIs, LimitMono, LimitType DEF LimitInv
    <2> QED BY <1>1, <2>2 DEF LimitInv
  <1>7. WalInv'
    BY <1>1, <1>2 DEF WalInv, FileOf
  <1>8. HeldInv'
    <2>1. \A f \in DOMAIN wal : wal[f] \in Nat
      BY DEF WalInv, Past
    <2>2. nextScrape \in Nat
      BY DEF PhaseInv
    <2> QED BY <1>1, <1>3, <1>4, <2>1, <2>2 DEF HeldInv
  <1>9. Backed'
    <2>1. \A r \in Resolutions : \A k \in DOMAIN stores[r] : \A ts \in Range(stores[r][k]) : ts \in Nat
      BY DEF StoreInv, Past, Range
    <2> QED BY <1>1, <1>3, <2>1 DEF Backed, Range, FileOf
  <1> QED BY <1>4, <1>5, <1>6, <1>7, <1>8, <1>9

(* the process starts and picks the resolution of the limit, *)
LEMMA BootStep ==
  ASSUME CollectorInv, Boot
  PROVE  CollectorInv'
  <1> USE DEF CollectorInv
  <1>1. /\ phase = "down" /\ phase' = "clean" /\ limitRes' \in NewWalinator
        /\ UNCHANGED <<now, stores, wal, todo, restoreLim, unread, stage, nextScrape, unlogged>>
    BY DEF Boot, scrapeVars
  <1>2. \A ts : Past(ts) => Past(ts)'
    BY PastKept
  <1>4. StoreInv' /\ Ascending' /\ \A r, ts : Held(r, ts) <=> Held(r, ts)'
    BY <1>1, <1>2, StoresKept
  <1>5. PhaseInv'
    BY <1>1 DEF PhaseInv, Phases
  <1>6. LimitInv'
    <2>1. now \in Int
      BY DEF PhaseInv
    <2> QED BY <1>1, <2>1, NewWalinatorIsLongest DEF LimitInv
  <1>7. WalInv'
    BY <1>1, <1>2 DEF WalInv, FileOf
  <1>8. HeldInv'
    BY <1>1 DEF HeldInv, PhaseInv
  <1>9. Backed'
    BY <1>1 DEF Backed, StoreInv
  <1> QED BY <1>4, <1>5, <1>6, <1>7, <1>8, <1>9

(* A file that is removed has a sample that no store retains. *)
LEMMA WalCleanStep ==
  ASSUME CollectorInv, WalClean
  PROVE  CollectorInv'
  <1> USE DEF CollectorInv
  <1>1. /\ (phase = "clean" /\ phase' = "list") \/ (phase = "up" /\ phase' = phase)
        /\ UNCHANGED <<now, limitRes, stores, todo, restoreLim, unread, stage, nextScrape, unlogged>>
        /\ todo = {}
    BY DEF WalClean, scrapeVars, repoVars, PhaseInv
  <1>2. \A ts : Past(ts) => Past(ts)'
    BY PastKept
  <1>3. /\ DOMAIN wal' \subseteq DOMAIN wal
        /\ \A f \in DOMAIN wal' : wal'[f] = wal[f]
        /\ \A f \in DOMAIN wal \ DOMAIN wal' : Limit(limitRes) > FileTime(f)
    BY DEF WalClean, Expired
  <1>4. StoreInv' /\ Ascending' /\ \A r, ts : Held(r, ts) <=> Held(r, ts)'
    BY <1>1, <1>2, StoresKept
  <1>5. PhaseInv'
    BY <1>1 DEF PhaseInv, Phases
  <1>6. LimitInv'
    BY <1>1 DEF LimitInv
  <1>7. WalInv'
    BY <1>1, <1>2, <1>3 DEF WalInv, FileOf
  <1>8. HeldInv'
    BY <1>1, <1>3, <1>4, LimitIs DEF HeldInv, PhaseInv
  <1>9. Backed'
    <2>1. SUFFICES ASSUME NEW r \in Resolutions, NEW k \in DOMAIN stores[r], NEW ts \in Range(stores[r][k]),
                          FileOf(ts) \in DOMAIN wal \ DOMAIN wal'
                   PROVE  ts < Limit(r)
      BY <1>1, LimitIs DEF Backed, Range, FileOf
    <2>2. ts \in Nat /\ now \in Int /\ limitRes \in Resolutions
      BY DEF StoreInv, Past, Range, PhaseInv, LimitInv
    <2>3. ts < LimitAt(limitRes, now)
      BY <1>3, <2>1, <2>2, FileBeforeLimit, LimitIs, LimitType, LimitSeconds
    <2>4. LimitAt(limitRes, now) <= LimitAt(r, now)
      BY <2>2, EarliestLimit
    <2> QED BY <2>2, <2>3, <2>4, LimitIs, LimitType
  <1> QED BY <1>4, <1>5, <1>6, <1>7, <1>8, <1>9

(* lists the files of the log, *)
LEMMA RestoreListStep ==
  ASSUME CollectorInv, RestoreList
  PROVE  CollectorInv'
  <1> USE DEF CollectorInv
  <1>1. /\ phase = "list" /\ phase' = "restore" /\ restoreLim' = Limit(limitRes) /\ todo = {}
        /\ UNCHANGED <<now, limitRes, wal, stores, stage, nextScrape, unlogged>>
        /\ \/ todo' = DOMAIN wal /\ unread' = unread
           \/ todo' = {} /\ unread' = Range(wal)
    BY DEF RestoreList, scrapeVars, repoVars, PhaseInv
  <1>2. \A ts : Past(ts) => Past(ts)'
    BY PastKept
  <1>4. StoreInv' /\ Ascending'
    BY <1>1 DEF StoreInv, Ascending
  <1>5. PhaseInv'
    BY <1>1 DEF PhaseInv, Phases
  <1>6. LimitInv'
    <2>1. LimitAt(limitRes, now) \in Int /\ LimitAt(limitRes, now) % Second = 0
      BY LimitType, LimitSeconds DEF PhaseInv, LimitInv
    <2> QED BY <1>1, <2>1, LimitIs DEF LimitInv
  <1>7. WalInv'
    BY <1>1, <1>2 DEF WalInv, FileOf
  <1>8. HeldInv'
    BY <1>1 DEF HeldInv, PhaseInv, Range
  <1>9. Backed'
    BY <1>1 DEF Backed, StoreInv
  <1> QED BY <1>4, <1>5, <1>6, <1>7, <1>8, <1>9

(* has restored them, *)
LEMMA ReadyStep ==
  ASSUME CollectorInv, Ready
  PROVE  CollectorInv'
  <1> USE DEF CollectorInv
  <1>1. /\ phase = "restore" /\ phase' = "up" /\ todo = {} /\ nextScrape' = now /\ restoreLim' = 0
        /\ UNCHANGED <<now, stores, limitRes, wal, todo, unread, stage, unlogged>>
        /\ stage = "idle"
    BY DEF Ready, repoVars, PhaseInv
  <1>2. \A ts : Past(ts) => Past(ts)'
    BY PastKept
  <1>4. StoreInv' /\ Ascending' /\ \A r, ts : Held(r, ts) <=> Held(r, ts)'
    BY <1>1, <1>2, StoresKept
  <1>5. PhaseInv'
    BY <1>1, TimeAssumption DEF PhaseInv, Phases
  <1>6. LimitInv'
    BY <1>1 DEF LimitInv
  <1>7. WalInv'
    BY <1>1, <1>2 DEF WalInv, FileOf
  <1>8. HeldInv'
    BY <1>1, <1>4, LimitIs DEF HeldInv
  <1>9. Backed'
    BY <1>1, LimitIs DEF Backed, Range, FileOf
  <1> QED BY <1>4, <1>5, <1>6, <1>7, <1>8, <1>9

(* A restored sample is later than what was restored before it; a skipped  *)
(* one is not retained by any store.                                       *)
LEMMA RestoreFileStep ==
  ASSUME CollectorInv, RestoreFile
  PROVE  CollectorInv'
  <1> USE DEF CollectorInv
  <1>1. PICK f \in NextFile :
           /\ todo' = todo \ {f}
           /\ \/ FileTime(f) < restoreLim /\ UNCHANGED <<stores, unread>>
              \/ unread' = unread \cup {wal[f]} /\ UNCHANGED stores
              \/ Update(wal[f]) /\ UNCHANGED unread
    BY DEF RestoreFile, repoVars
  <1>2. /\ phase = "restore" /\ stage = "idle"
        /\ UNCHANGED <<now, phase, limitRes, wal, restoreLim, stage, nextScrape, unlogged>>
    BY DEF RestoreFile, scrapeVars, PhaseInv
  <1>3. f \in todo /\ f \in DOMAIN wal /\ \A g \in todo : f <= g
    BY DEF NextFile, PhaseInv
  <1>4. /\ \A g \in DOMAIN wal : wal[g] \in Nat /\ FileOf(wal[g]) = g /\ g \in Int
        /\ now \in Int
    BY TimeAssumption DEF WalInv, Past, PhaseInv, FileOf
  <1>5. \A ts : Past(ts) => Past(ts)'
    BY PastKept
  <1>6. \A r \in Resolutions : Limit(r)' = Limit(r) /\ Limit(r) \in Int
    BY <1>2, <1>4, LimitIs, LimitType
  <1>7. PhaseInv'
    BY <1>1, <1>2 DEF PhaseInv
  <1>8. LimitInv'
    BY <1>2, LimitIs DEF LimitInv
  <1>9. WalInv'
    <2>1. \A g \in DOMAIN wal : Past(wal[g])' /\ FileOf(wal[g]) = g
      BY <1>2, <1>5 DEF WalInv
    <2>2. \A g \in DOMAIN wal \ (todo \ {f}), h \in todo \ {f} : g < h
      BY <1>3, <1>4 DEF WalInv, PhaseInv
    <2> QED BY <1>1, <1>2, <2>1, <2>2 DEF WalInv, FileOf
  <1>10. CASE /\ UNCHANGED stores
              /\ \/ FileTime(f) < restoreLim /\ UNCHANGED unread
                 \/ unread' = unread \cup {wal[f]}
    <2>1. StoreInv' /\ Ascending' /\ \A r, ts : Held(r, ts) <=> Held(r, ts)'
      BY <1>1, <1>2, <1>5, <1>10, StoresKept
    <2>2. Backed'
      BY <1>2, <1>6, <1>10 DEF Backed, Range, FileOf
    <2>3. ASSUME NEW r \in Resolutions, NEW g \in DOMAIN wal \ todo',
                 wal[g] \notin unread', wal[g] >= Limit(r)
          PROVE  Held(r, wal[g])
      <3>1. CASE g \in DOMAIN wal \ todo
        BY <1>2, <1>10, <2>3, <3>1 DEF HeldInv
      <3>2. CASE g = f
        <4>1. CASE FileTime(f) < restoreLim
          <5>1. wal[f] < restoreLim
            BY <1>2, <1>3, <1>4, <4>1, FileBeforeLimit DEF LimitInv
          <5>2. restoreLim <= LimitAt(limitRes, now) /\ LimitAt(limitRes, now) <= LimitAt(r, now)
            BY <1>2, <1>4, LimitIs, EarliestLimit DEF LimitInv
          <5> QED BY <1>3, <1>4, <2>3, <3>2, <5>1, <5>2, LimitIs, LimitType DEF LimitInv
        <4>2. CASE unread' = unread \cup {wal[f]}
          BY <2>3, <3>2, <4>2
        <4> QED BY <1>10, <4>1, <4>2
      <3> QED BY <1>1, <2>3, <3>1, <3>2
    <2>4. HeldInv'
      BY <1>2, <1>6, <2>1, <2>3 DEF HeldInv
    <2> QED BY <1>7, <1>8, <1>9, <2>1, <2>2, <2>4
  <1>11. CASE Update(wal[f]) /\ UNCHANGED unread
    <2>1. PICK ts \in Nat : ts = wal[f] /\ FileOf(ts) = f /\ Past(ts)
      BY <1>3, <1>4 DEF WalInv
    <2>2. \A r \in Resolutions : \A k \in DOMAIN stores[r] : \A i \in DOMAIN stores[r][k] :
             stores[r][k][i] < ts
      BY <1>3, <2>1, FileMono DEF StoreInv, Past
    <2>3. /\ DOMAIN stores' = Resolutions
          /\ Ascending'
          /\ \A r \in Resolutions : \A k \in DOMAIN stores'[r] :
                /\ stores'[r][k] \in Seq(Nat)
                /\ \A i \in DOMAIN stores'[r][k] :
                      \/ /\ stores'[r][k][i] = ts /\ InWindow(r, k, ts)
                      \/ /\ k \in DOMAIN stores[r] /\ i \in DOMAIN stores[r][k]
                         /\ stores'[r][k][i] = stores[r][k][i]
          /\ \A r \in Resolutions : ts >= Limit(r) => Held(r, ts)'
          /\ \A r \in Resolutions, x \in Nat : x < ts /\ Held(r, x) => Held(r, x)'
      BY <1>4, <1>11, <2>1, <2>2, UpdateStores
    <2>4. StoreInv'
      <3>1. ASSUME NEW r \in Resolutions, NEW k \in DOMAIN stores'[r], NEW i \in DOMAIN stores'[r][k]
            PROVE  /\ Past(stores[r][k][i])'
                   /\ InWindow(r, k, stores'[r][k][i])
                   /\ \A g \in todo' : FileOf(stores'[r][k][i]) < g
        <4>1. CASE stores'[r][k][i] = ts /\ InWindow(r, k, ts)
          <5>1. \A g \in todo' : f < g
            BY <1>1, <1>3, <1>4 DEF PhaseInv
          <5> QED BY <1>5, <2>1, <4>1, <5>1
        <4>2. CASE /\ k \in DOMAIN stores[r] /\ i \in DOMAIN stores[r][k]
                   /\ stores'[r][k][i] = stores[r][k][i]
          BY <1>1, <1>5, <4>2 DEF StoreInv
        <4> QED BY <2>3, <4>1, <4>2
      <3> QED BY <1>2, <2>3, <3>1 DEF StoreInv, InWindow, FileOf, Get
    <2>5. HeldInv'
      <3>1. ASSUME NEW r \in Resolutions, NEW g \in DOMAIN wal \ todo',
                   wal[g] \notin unread, wal[g] >= Limit(r)
            PROVE  Held(r, wal[g])'
        <4>1. CASE g \in DOMAIN wal \ todo
          <5>1. g < f
            BY <1>3, <4>1 DEF WalInv
          <5>2. wal[g] < ts
            BY <1>3, <1>4, <2>1, <4>1, <5>1, FileMono
          <5> QED BY <1>2, <1>4, <2>3, <3>1, <4>1, <5>2 DEF HeldInv
        <4>2. CASE g = f
          BY <1>2, <2>1, <2>3, <3>1, <4>2
        <4> QED BY <1>1, <3>1, <4>1, <4>2
      <3> QED BY <1>2, <1>6, <1>11, <3>1 DEF HeldInv
    <2>6. Backed'
      <3>1. ASSUME NEW r \in Resolutions, NEW k \in DOMAIN stores'[r], NEW i \in DOMAIN stores'[r][k]
            PROVE  \/ stores'[r][k][i] < Limit(r)
                   \/ FileOf(stores'[r][k][i]) \in DOMAIN wal
                   \/ stores'[r][k][i] \in unlogged
        BY <1>2, <1>3, <2>1, <2>3 DEF Backed, Range
      <3> QED BY <1>2, <1>6, <3>1 DEF Backed, Range, FileOf
    <2> QED BY <1>7, <1>8, <1>9, <2>3, <2>4, <2>5, <2>6
  <1> QED BY <1>1, <1>10, <1>11

(* A sample is later than every sample of the stores and of the log. *)
LEMMA ScrapeApplyStep ==
  ASSUME CollectorInv, ScrapeApply
  PROVE  CollectorInv'
  <1> USE DEF CollectorInv
  <1>1. /\ phase = "up" /\ stage = "idle" /\ stage' = "log" /\ nextScrape <= now
        /\ UNCHANGED <<now, phase, limitRes, wal, todo, restoreLim, unread, nextScrape, unlogged>>
        /\ todo = {}
    BY DEF ScrapeApply, walVars, PhaseInv
  <1>2. PICK ts \in Nat : ts = nextScrape
    BY DEF PhaseInv
  <1>3. Update(ts) /\ now \in Int
    BY <1>2 DEF ScrapeApply, PhaseInv
  <1>4. \A r \in Resolutions : Limit(r)' = Limit(r) /\ Limit(r) \in Int
    BY <1>1, <1>3, LimitIs, LimitType
  <1>5. \A x : Past(x) => Past(x)' /\ x \in Nat /\ x < ts
    BY <1>1, <1>2, PastKept DEF Past
  <1>6. Past(ts)'
    BY <1>1, <1>2 DEF Past
  <1>7. PhaseInv'
    BY <1>1 DEF PhaseInv
  <1>8. LimitInv'
    BY <1>1, LimitIs DEF LimitInv
  <1>9. WalInv'
    BY <1>1, <1>5 DEF WalInv, FileOf
  <1>10. \A r \in Resolutions : \A k \in DOMAIN stores[r] : \A i \in DOMAIN stores[r][k] :
            stores[r][k][i] < ts
    BY <1>5 DEF StoreInv
  <1>11. /\ DOMAIN stores' = Resolutions
         /\ Ascending'
         /\ \A r \in Resolutions : \A k \in DOMAIN stores'[r] :
               /\ stores'[r][k] \in Seq(Nat)
               /\ \A i \in DOMAIN stores'[r][k] :
                     \/ /\ stores'[r][k][i] = ts /\ InWindow(r, k, ts)
                     \/ /\ k \in DOMAIN stores[r] /\ i \in DOMAIN stores[r][k]
                        /\ stores'[r][k][i] = stores[r][k][i]
         /\ \A r \in Resolutions : ts >= Limit(r) => Held(r, ts)'
         /\ \A r \in Resolutions, x \in Nat : x < ts /\ Held(r, x) => Held(r, x)'
    BY <1>3, <1>10, UpdateStores
  <1>12. StoreInv'
    <2>1. ASSUME NEW r \in Resolutions, NEW k \in DOMAIN stores'[r], NEW i \in DOMAIN stores'[r][k]
          PROVE  Past(stores[r][k][i])' /\ InWindow(r, k, stores'[r][k][i])
      BY <1>5, <1>6, <1>11 DEF StoreInv
    <2> QED BY <1>1, <1>11, <2>1 DEF StoreInv, InWindow, Get
  <1>13. HeldInv'
    <2>1. ASSUME NEW r \in Resolutions, NEW g \in DOMAIN wal, wal[g] \notin unread, wal[g] >= Limit(r)
          PROVE  Held(r, wal[g])'
      <3>1. PICK x \in Nat : x = wal[g] /\ x < ts
        BY <1>5 DEF WalInv
      <3>2. Held(r, x)
        BY <1>1, <2>1, <3>1 DEF HeldInv
      <3>3. Held(r, x)'
        BY <1>11, <3>1, <3>2
      <3> QED BY <1>1, <3>1, <3>3
    <2> QED BY <1>1, <1>2, <1>4, <1>11, <2>1 DEF HeldInv
  <1>14. Backed'
    <2>1. ASSUME NEW r \in Resolutions, NEW k \in DOMAIN stores'[r], NEW i \in DOMAIN stores'[r][k]
          PROVE  \/ stores'[r][k][i] < Limit(r)
                 \/ FileOf(stores'[r][k][i]) \in DOMAIN wal
                 \/ stores'[r][k][i] \in unlogged
                 \/ stores'[r][k][i] = ts
      BY <1>1, <1>11 DEF Backed, Range
    <2> QED BY <1>1, <1>2, <1>4, <2>1 DEF Backed, Range, FileOf
  <1> QED BY <1>7, <1>8, <1>9, <1>11, <1>12, <1>13, <1>14

(* logs the sample it has applied, *)
LEMMA ScrapeLogStep ==
  ASSUME CollectorInv, ScrapeLog
  PROVE  CollectorInv'
  <1> USE DEF CollectorInv
  <1>1. /\ stage = "log" /\ stage' = "idle" /\ nextScrape' = Rescheduled
        /\ UNCHANGED <<now, phase, limitRes, todo, restoreLim, unread, stores>>
        /\ phase = "up" /\ todo = {} /\ nextScrape <= now /\ nextScrape \in Nat /\ now \in Nat
    BY DEF ScrapeLog, repoVars, PhaseInv
  <1>2. \/ /\ DOMAIN wal' = DOMAIN wal \cup {FileOf(nextScrape)}
           /\ wal'[FileOf(nextScrape)] = nextScrape
           /\ \A f \in DOMAIN wal \ {FileOf(nextScrape)} : wal'[f] = wal[f]
           /\ unlogged' = unlogged
        \/ wal' = wal /\ unlogged' = unlogged \cup {nextScrape}
    BY DEF ScrapeLog
  <1>3. \A f \in DOMAIN wal' : \/ f = FileOf(nextScrape) /\ wal'[f] = nextScrape
                               \/ f \in DOMAIN wal /\ wal'[f] = wal[f]
    BY <1>2
  <1>4. Past(nextScrape)
    BY <1>1 DEF Past
  <1>5. \A ts : Past(ts) => Past(ts)'
    BY PastKept
  <1>7. StoreInv' /\ Ascending' /\ \A r, ts : Held(r, ts) <=> Held(r, ts)'
    BY <1>1, <1>5, StoresKept
  <1>8. PhaseInv'
    BY <1>1, <1>2, RescheduledLater, TimeAssumption DEF PhaseInv
  <1>9. LimitInv'
    BY <1>1, LimitIs DEF LimitInv
  <1>10. WalInv'
    <2>1. ASSUME NEW f \in DOMAIN wal'
          PROVE  Past(wal[f])' /\ FileOf(wal'[f]) = f
      <3>1. PICK ts : ts = wal'[f] /\ Past(ts) /\ FileOf(ts) = f
        BY <1>3, <1>4 DEF WalInv
      <3>2. Past(ts)'
        BY <1>5, <3>1
      <3> QED BY <3>1, <3>2
    <2> QED BY <1>1, <2>1 DEF WalInv, FileOf
  <1>11. HeldInv'
    <2>1. ASSUME NEW r \in Resolutions, NEW f \in DOMAIN wal',
                 wal'[f] \notin unread, wal'[f] >= Limit(r)
          PROVE  Held(r, wal'[f])
      BY <1>1, <1>3, <2>1 DEF HeldInv
    <2> QED BY <1>1, <1>7, <2>1, LimitIs DEF HeldInv
  <1>12. Backed'
    <2>1. ASSUME NEW r \in Resolutions, NEW k \in DOMAIN stores[r], NEW ts \in Range(stores[r][k])
          PROVE  ts < Limit(r) \/ FileOf(ts) \in DOMAIN wal' \/ ts \in unlogged'
      BY <1>2 DEF Backed
    <2> QED BY <1>1, <2>1, LimitIs DEF Backed, Range, FileOf
  <1> QED BY <1>7, <1>8, <1>9, <1>10, <1>11, <1>12

(* Only windows out of retention are dropped, so no sample that is still   *)
(* in retention is.                                                        *)
LEMMA StoreCleanStep ==
  ASSUME CollectorInv, NEW c \in Resolutions, StoreClean(c)
  PROVE  CollectorInv'
  <1> USE DEF CollectorInv
  <1>1. /\ UNCHANGED <<now, phase, limitRes, wal, todo, restoreLim, unread, stage, nextScrape, unlogged>>
        /\ now \in Int /\ DOMAIN stores = Resolutions
    BY DEF StoreClean, walVars, scrapeVars, PhaseInv, StoreInv
  <1>2. /\ DOMAIN stores' = Resolutions
        /\ \A r \in Resolutions :
              /\ DOMAIN stores'[r] \subseteq DOMAIN stores[r]
              /\ \A k \in DOMAIN stores'[r] : stores'[r][k] = stores[r][k]
              /\ \A k \in DOMAIN stores[r] : k >= Limit(r) => k \in DOMAIN stores'[r]
    BY <1>1 DEF StoreClean
  <1>3. \A ts : Past(ts) => Past(ts)'
    BY PastKept
  <1>4. \A r \in Resolutions, ts \in Nat : ts >= Limit(r) /\ Held(r, ts) => Held(r, ts)'
    <2>1. ASSUME NEW r \in Resolutions, NEW ts \in Nat, ts >= Limit(r), Held(r, ts)
          PROVE  Held(r, ts)'
      <3>1. Get(r, ts) >= Limit(r)
        BY <1>1, <2>1, LimitIs, LimitIsStart
      <3> QED BY <1>2, <2>1, <3>1 DEF Held
    <2> QED BY <2>1
  <1>5. \A r \in Resolutions : Limit(r)' = Limit(r)
    BY <1>1, LimitIs
  <1>6. StoreInv' /\ Ascending'
    <2>1. ASSUME NEW r \in Resolutions, NEW k \in DOMAIN stores'[r], NEW i \in DOMAIN stores'[r][k]
          PROVE  /\ Past(stores[r][k][i])' /\ InWindow(r, k, stores'[r][k][i])
                 /\ \A f \in todo : FileOf(stores'[r][k][i]) < f
      BY <1>2, <1>3 DEF StoreInv
    <2> QED BY <1>1, <1>2, <2>1 DEF StoreInv, Ascending, InWindow, FileOf, Get
  <1>7. PhaseInv'
    BY <1>1 DEF PhaseInv
  <1>8. LimitInv'
    BY <1>1, LimitIs DEF LimitInv
  <1>9. WalInv'
    BY <1>1, <1>3 DEF WalInv, FileOf
  <1>10. HeldInv'
    <2>1. \A f \in DOMAIN wal : wal[f] \in Nat
      BY DEF WalInv, Past
    <2> QED BY <1>1, <1>4, <1>5, <2>1 DEF HeldInv, PhaseInv
  <1>11. Backed'
    BY <1>1, <1>2, <1>5 DEF Backed, FileOf
  <1> QED BY <1>6, <1>7, <1>8, <1>9, <1>10, <1>11

(* or crashes and loses its stores. *)
LEMMA CrashStep ==
  ASSUME CollectorInv, Crash
  PROVE  CollectorInv'
  <1> USE DEF CollectorInv
  <1>1. /\ now < MaxTime /\ now' = now + 1 /\ now \in Nat /\ phase' = "down" /\ stores' = NoStores
        /\ todo' = {} /\ stage' = "idle" /\ restoreLim' = 0 /\ nextScrape' = 0
        /\ UNCHANGED <<limitRes, wal>>
    BY DEF Crash, PhaseInv
  <1>2. \A ts : Past(ts) => Past(ts)'
    BY PastKept
  <1>3. PhaseInv'
    BY <1>1, TimeAssumption DEF PhaseInv, Phases
  <1>4. LimitInv'
    BY <1>1 DEF LimitInv
  <1>5. WalInv'
    BY <1>1, <1>2 DEF WalInv, FileOf
  <1>6. StoreInv' /\ Ascending' /\ HeldInv' /\ Backed'
    BY <1>1 DEF StoreInv, Ascending, HeldInv, Backed, NoStores
  <1> QED BY <1>3, <1>4, <1>5, <1>6

(* The exporter and the janitor leave the collector alone. *)
LEMMA PipelineOnly ==
  ASSUME CollectorInv, UNCHANGED <<now, phase, repoVars, walVars, scrapeVars>>
  PROVE  CollectorInv'
  <1> USE DEF CollectorInv, repoVars, walVars, scrapeVars
  <1>2. \A ts : Past(ts) => Past(ts)'
    BY PastKept
  <1>3. PhaseInv'
    BY DEF PhaseInv
  <1>4. LimitInv'
    BY LimitIs DEF LimitInv
  <1>5. WalInv'
    BY <1>2 DEF WalInv, FileOf
  <1>6. StoreInv' /\ Ascending' /\ \A r, ts : Held(r, ts) <=> Held(r, ts)'
    BY <1>2, StoresKept
  <1>7. HeldInv'
    BY <1>6, LimitIs DEF HeldInv
  <1>8. Backed'
    BY LimitIs DEF Backed, Range, FileOf
  <1> QED BY <1>3, <1>4, <1>5, <1>6, <1>7, <1>8

-----------------------------------------------------------------------------
(* The pipeline. The sets of windows of an iteration. *)
LEMMA WindowsForms ==
  ASSUME LoopInv, windows # << >>
  PROVE  \/ /\ windows = <<Get(ExportRes, iterNow)>>
            /\ Head(windows) = Get(ExportRes, iterNow) /\ Tail(windows) = << >>
         \/ /\ windows = <<Get(ExportRes, lastExport), Get(ExportRes, iterNow)>>
            /\ Head(windows) = Get(ExportRes, lastExport)
            /\ Tail(windows) = <<Get(ExportRes, iterNow)>>
            /\ lastExport # Never
            /\ Get(ExportRes, lastExport) + ExportRes.len <= Get(ExportRes, iterNow)
  <1>1. CASE windows = <<Get(ExportRes, iterNow)>>
    BY <1>1
  <1>2. CASE /\ windows = <<Get(ExportRes, lastExport), Get(ExportRes, iterNow)>>
             /\ lastExport # Never
             /\ Get(ExportRes, lastExport) # Get(ExportRes, iterNow)
    <2>1. /\ ExportRes \in Resolutions /\ lastExport \in Int /\ iterNow \in Int
          /\ lastExport <= iterNow
      BY ExportAssumption DEF LoopInv
    <2>2. Get(ExportRes, lastExport) < Get(ExportRes, iterNow)
      BY <1>2, <2>1, GetMono, GetBounds
    <2>3. Get(ExportRes, lastExport) + ExportRes.len <= Get(ExportRes, iterNow)
      BY <2>1, <2>2, GetStep
    <2> QED BY <1>2, <2>3
  <1> QED BY <1>1, <1>2 DEF LoopInv

(* The invariant of the whole pipeline holds initially. *)
LEMMA InitPipeline == PipelineInit => IInv
  <1> SUFFICES ASSUME PipelineInit PROVE IInv
    OBVIOUS
  <1>1. CollectorInv
    BY InitCollector DEF PipelineInit
  <1>2. LoopInv /\ SealInv /\ FileInv
    BY DEF PipelineInit, Init, LoopInv, SealInv, FileInv, SealedUnlessMissed, Never
  <1> QED BY <1>1, <1>2 DEF IInv

(* The steps of the collector and what the loop has computed. *)
LEMMA CollectorStepIInv ==
  ASSUME IInv, CollectorStep
  PROVE  IInv'
  <1> USE DEF IInv
  <1> DEFINE due == CollectorDue \/ windows # << >> \/ exportAt <= now
  <1>1. \/ \E d \in BOOLEAN : Tick(d)
        \/ Boot \/ WalClean \/ RestoreList \/ RestoreFile \/ ScrapeApply \/ ScrapeLog
        \/ \E r \in Resolutions : StoreClean(r)
    <2>1. due \in BOOLEAN
      OBVIOUS
    <2> QED BY <2>1 DEF CollectorStep
  <1>2. CollectorInv'
    BY <1>1, TickStep, BootStep, WalCleanStep, RestoreListStep, RestoreFileStep,
       ScrapeApplyStep, ScrapeLogStep, StoreCleanStep
  <1>3. UNCHANGED <<exportAt, iterNow, windows, computed, lastExport, files, sealed, exported, missed>>
    BY DEF CollectorStep, exportVars, loopVars
  <1>4. /\ now \in Nat /\ now' \in Nat /\ now <= now'
        /\ phase = "up" => phase' = "up"
    <2>1. now \in Nat
      BY DEF CollectorInv, PhaseInv
    <2>2. now' = now \/ now' = now + 1
      BY <1>1 DEF Tick, Boot, WalClean, RestoreList, RestoreFile, ScrapeApply, ScrapeLog, StoreClean
    <2>3. phase = "up" => phase' = "up"
      BY <1>1 DEF Tick, Boot, WalClean, RestoreList, RestoreFile, ScrapeApply, ScrapeLog, StoreClean
    <2> QED BY <2>1, <2>2, <2>3
  <1>5. \A ts : Past(ts) => Past(ts)'
    BY <1>1, PastKept DEF CollectorInv
  <1>6. LoopInv'
    BY <1>3, <1>4 DEF LoopInv, Never, None, Get
  <1>7. SealInv'
    BY <1>3 DEF SealInv, SealedUnlessMissed, Get
  <1>8. ASSUME phase = "up", NEW ts, Past(ts),
               ts \in Range(wal') \ unread' \/ (stage' = "log" /\ ts = nextScrape')
        PROVE  ts \in Range(wal) \ unread \/ (stage = "log" /\ ts = nextScrape)
    <2>1. CASE \/ \E d \in BOOLEAN : Tick(d)
               \/ \E r \in Resolutions : StoreClean(r)
      BY <1>8, <2>1 DEF Tick, StoreClean, walVars, scrapeVars
    <2>2. CASE WalClean
      BY <1>8, <2>2 DEF WalClean, scrapeVars, Range
    <2>3. CASE ScrapeApply
      BY <1>8, <2>3 DEF ScrapeApply, walVars, Past
    <2>4. CASE ScrapeLog
      BY <1>8, <2>4 DEF ScrapeLog, Range
    <2> QED BY <1>1, <1>8, <2>1, <2>2, <2>3, <2>4 DEF Boot, RestoreList, RestoreFile
  <1>9. FileInv'
    <2>1. \A k \in DOMAIN files : \A ts \in files[k] : Past(ts)' /\ InWindow(ExportRes, k, ts)
      BY <1>5 DEF FileInv
    <2>2. computed # None => \A ts \in computed : Past(ts)' /\ InWindow(ExportRes, Head(windows), ts)
      BY <1>5 DEF FileInv
    <2>3. ASSUME computed # None, computed # {}, Head(windows) \in DOMAIN files,
                 Head(windows) >= Limit(ExportRes)', NEW ts \in files[Head(windows)],
                 ts \in Range(wal') \ unread' \/ (stage' = "log" /\ ts = nextScrape')
          PROVE  ts \in computed
      <3>1. phase = "up" /\ windows # << >>
        BY <2>3 DEF LoopInv
      <3>2. Past(ts)
        BY <2>3 DEF FileInv
      <3>3. ts \in Range(wal) \ unread \/ (stage = "log" /\ ts = nextScrape)
        BY <1>8, <2>3, <3>1, <3>2
      <3>4. Head(windows) >= Limit(ExportRes)
        <4>1. Head(windows) \in Int
          BY <3>1, WindowsForms, GetBounds, ExportAssumption DEF LoopInv
        <4> QED BY <1>4, <2>3, <4>1, LimitKept, ExportAssumption DEF CollectorInv
      <3> QED BY <2>3, <3>3, <3>4 DEF FileInv
    <2> QED BY <1>3, <2>1, <2>2, <2>3 DEF FileInv, None, InWindow, Get, Range
  <1> QED BY <1>2, <1>6, <1>7, <1>9

(* The loops start, *)
LEMMA ReadyIInv ==
  ASSUME IInv, PipelineReady
  PROVE  IInv'
  <1> USE DEF IInv
  <1>1. CollectorInv' /\ \A ts : Past(ts) => Past(ts)'
    BY ReadyStep, PastKept DEF PipelineReady, CollectorInv
  <1>2. /\ UNCHANGED <<now, iterNow, windows, computed, lastExport, files, sealed, exported, missed>>
        /\ windows = << >> /\ computed = None
    BY DEF PipelineReady, Ready, LoopInv
  <1>3. LoopInv'
    BY <1>2 DEF LoopInv, None, Never
  <1>4. SealInv'
    BY <1>2 DEF SealInv, SealedUnlessMissed, Get
  <1>5. FileInv'
    BY <1>1, <1>2 DEF FileInv, None, InWindow, Get
  <1> QED BY <1>1, <1>3, <1>4, <1>5

(* the process crashes and forgets its last export, *)
LEMMA CrashIInv ==
  ASSUME IInv, PipelineCrash
  PROVE  IInv'
  <1> USE DEF IInv
  <1>1. CollectorInv' /\ \A ts : Past(ts) => Past(ts)'
    BY CrashStep, PastKept DEF PipelineCrash, CollectorInv
  <1>2. /\ now \in Nat /\ now' = now + 1 /\ iterNow' = 0 /\ windows' = << >> /\ computed' = None
        /\ lastExport' = Never /\ exported' = {} /\ files' = files
    BY DEF PipelineCrash, Crash, CollectorInv, PhaseInv
  <1>3. LoopInv'
    BY <1>2 DEF LoopInv, Never, None
  <1>4. SealInv'
    BY <1>2 DEF SealInv, SealedUnlessMissed, Never
  <1>5. FileInv'
    BY <1>1, <1>2 DEF FileInv, None, InWindow, Get
  <1> QED BY <1>1, <1>3, <1>4, <1>5

(* An iteration that has only the current window to do leaves no window    *)
(* behind that is not sealed.                                              *)
LEMMA ExportBeginIInv ==
  ASSUME IInv, ExportBegin
  PROVE  IInv'
  <1> USE DEF IInv
  <1>1. /\ phase = "up" /\ windows = << >> /\ iterNow' = now /\ windows' = exportWindowsFor(now)
        /\ UNCHANGED <<now, phase, repoVars, walVars, scrapeVars>>
        /\ UNCHANGED <<computed, lastExport, files, sealed, exported, missed>>
    BY DEF ExportBegin, collectorVars
  <1>2. CollectorInv' /\ \A ts : Past(ts) => Past(ts)'
    BY <1>1, PipelineOnly, PastKept DEF scrapeVars, CollectorInv
  <1>3. now \in Nat /\ computed = None
    BY <1>1 DEF CollectorInv, PhaseInv, LoopInv
  <1>4. CASE lastExport = Never \/ Get(ExportRes, lastExport) = Get(ExportRes, now)
    <2>1. windows' = <<Get(ExportRes, now)>>
      BY <1>1, <1>4 DEF exportWindowsFor
    <2>2. LoopInv'
      BY <1>1, <1>3, <2>1 DEF LoopInv, None, Never, Get
    <2>3. SealInv'
      BY <1>1, <1>4, <2>1 DEF SealInv, SealedUnlessMissed, Never, Get
    <2>4. FileInv'
      BY <1>1, <1>2, <1>3 DEF FileInv, None, InWindow, Get
    <2> QED BY <1>2, <2>2, <2>3, <2>4
  <1>5. CASE ~(lastExport = Never \/ Get(ExportRes, lastExport) = Get(ExportRes, now))
    <2>1. windows' = <<Get(ExportRes, lastExport), Get(ExportRes, now)>>
      BY <1>1, <1>5 DEF exportWindowsFor
    <2>2. LoopInv'
      BY <1>1, <1>3, <1>5, <2>1 DEF LoopInv, None, Never, Get
    <2>3. SealInv'
      <3>1. windows' # <<Get(ExportRes, now)>>
        BY <2>1
      <3> QED BY <1>1, <1>5, <3>1 DEF SealInv, SealedUnlessMissed, Never, Get
    <2>4. FileInv'
      BY <1>1, <1>2, <1>3 DEF FileInv, None, InWindow, Get
    <2> QED BY <1>2, <2>2, <2>3, <2>4
  <1> QED BY <1>4, <1>5

(* A computed set has every sample of the file that the log has: they are  *)
(* in the store.                                                           *)
LEMMA ComputeIInv ==
  ASSUME IInv, Compute
  PROVE  IInv'
  <1> USE DEF IInv
  <1>1. /\ windows # << >> /\ HasStore(Head(windows))
        /\ computed' = Range(stores[ExportRes][Head(windows)]) \/ computed' = {}
        /\ UNCHANGED <<now, phase, repoVars, walVars, scrapeVars>>
        /\ UNCHANGED <<iterNow, windows, lastExport, files, sealed, exported, missed>>
    BY DEF Compute
  <1>2. CollectorInv' /\ \A ts : Past(ts) => Past(ts)'
    BY <1>1, PipelineOnly, PastKept DEF scrapeVars, CollectorInv
  <1>3. LoopInv'
    BY <1>1 DEF LoopInv, Never, Get
  <1>4. SealInv'
    BY <1>1 DEF SealInv, SealedUnlessMissed, Get
  <1>5. FileInv'
    <2> DEFINE k == Head(windows)
    <2>1. /\ k \in DOMAIN stores[ExportRes] /\ k >= Limit(ExportRes)
          /\ ExportRes \in Resolutions /\ now \in Int /\ phase = "up"
      BY <1>1, ExportAssumption DEF HasStore, CollectorInv, PhaseInv, LoopInv
    <2>2. \A ts \in computed' : Past(ts)' /\ InWindow(ExportRes, k, ts)
      BY <1>1, <1>2, <2>1 DEF CollectorInv, StoreInv, Range
    <2>3. ASSUME k \in DOMAIN files, NEW ts \in files[k],
                 ts \in Range(wal) \ unread \/ (stage = "log" /\ ts = nextScrape)
          PROVE  ts \in Range(stores[ExportRes][k])
      <3>1. Past(ts) /\ InWindow(ExportRes, k, ts) /\ ts \in Nat
        BY <2>3 DEF FileInv, Past
      <3>2. k \in Int /\ k <= ts
        BY <2>1, <3>1, GetBounds DEF InWindow
      <3>3. ts >= Limit(ExportRes)
        BY <2>1, <3>1, <3>2, LimitIs, LimitType
      <3>4. Held(ExportRes, ts)
        <4>1. todo = {}
          BY <2>1 DEF CollectorInv, PhaseInv
        <4> QED BY <2>1, <2>3, <3>3, <4>1 DEF CollectorInv, HeldInv, Range
      <3> QED BY <2>1, <3>1, <3>4 DEF Held, InWindow
    <2>4. \A j \in DOMAIN files : \A ts \in files[j] : Past(ts)' /\ InWindow(ExportRes, j, ts)
      BY <1>2 DEF FileInv
    <2>5. windows' = windows /\ files' = files /\ wal' = wal /\ unread' = unread
          /\ stage' = stage /\ nextScrape' = nextScrape
      BY <1>1 DEF walVars, scrapeVars
    <2> HIDE DEF k
    <2>6. Head(windows') = k
      BY <2>5 DEF k
    <2> QED BY <1>1, <2>2, <2>3, <2>4, <2>5, <2>6 DEF FileInv, InWindow, Get, Range, k
  <1> QED BY <1>2, <1>3, <1>4, <1>5

(* A window whose export failed is remembered as missed. *)
LEMMA ExportFailsIInv ==
  ASSUME IInv, ExportFails
  PROVE  IInv'
  <1> USE DEF IInv
  <1>1. /\ windows # << >> /\ computed' = None /\ windows' = Tail(windows)
        /\ missed' = missed \cup {Head(windows)}
        /\ Tail(windows) = << >> => iterNow' = 0
        /\ Tail(windows) # << >> => iterNow' = iterNow
        /\ UNCHANGED <<now, phase, repoVars, walVars, scrapeVars>>
        /\ UNCHANGED <<lastExport, files, sealed, exported>>
    BY DEF ExportFails, WindowDone
  <1>2. CollectorInv' /\ \A ts : Past(ts) => Past(ts)'
    BY <1>1, PipelineOnly, PastKept DEF scrapeVars, CollectorInv
  <1>3. FileInv'
    BY <1>1, <1>2 DEF FileInv, None, InWindow, Get
  <1>4. now \in Nat
    BY DEF CollectorInv, PhaseInv
  <1>5. CASE Tail(windows) = << >>
    <2>1. LoopInv'
      BY <1>1, <1>4, <1>5 DEF LoopInv, Never, None
    <2>2. SealInv'
      BY <1>1, <1>5 DEF SealInv, SealedUnlessMissed, Never, Get
    <2> QED BY <1>2, <1>3, <2>1, <2>2
  <1>6. CASE /\ Tail(windows) = <<Get(ExportRes, iterNow)>>
             /\ Head(windows) = Get(ExportRes, lastExport)
    <2>1. windows' = <<Get(ExportRes, iterNow)>> /\ iterNow' = iterNow
      BY <1>1, <1>6
    <2>2. LoopInv'
      BY <1>1, <1>4, <2>1 DEF LoopInv, Never, None, Get
    <2>3. SealInv'
      <3>1. Get(ExportRes, lastExport) \in Int
        BY GetBounds, ExportAssumption DEF LoopInv
      <3>2. \A x \in exported : x \in sealed \cup missed'
        BY <1>1, <1>6, <3>1 DEF SealInv, SealedUnlessMissed
      <3> QED BY <1>1, <3>2 DEF SealInv, SealedUnlessMissed, Never, Get
    <2> QED BY <1>2, <1>3, <2>2, <2>3
  <1> QED BY <1>1, <1>5, <1>6, WindowsForms

(* The window of lastExport is exported again once it has ended, before    *)
(* lastExport moves on.                                                    *)
LEMMA ExportIInv ==
  ASSUME IInv, Export
  PROVE  IInv'
  <1> USE DEF IInv
  <1> DEFINE k == Head(windows)
  <1>1. /\ windows # << >> /\ computed # None /\ computed' = None /\ windows' = Tail(windows)
        /\ Tail(windows) = << >> => iterNow' = 0
        /\ Tail(windows) # << >> => iterNow' = iterNow
        /\ lastExport' = iterNow
        /\ \/ sealed' = sealed /\ missed' = missed \cup {k}
           \/ /\ sealed' = IF iterNow >= k + ExportRes.len THEN sealed \cup {k} ELSE sealed \ {k}
              /\ missed' = missed \ {k}
        /\ exported' = exported \cup {k}
        /\ UNCHANGED <<now, phase, repoVars, walVars, scrapeVars>>
    BY DEF Export, WindowDone, collectorVars
  <1>2. CollectorInv' /\ \A ts : Past(ts) => Past(ts)'
    BY <1>1, PipelineOnly, PastKept DEF scrapeVars, CollectorInv
  <1>3. FileInv'
    <2>1. \/ files' = files
          \/ files' = [x \in DOMAIN files \cup {k} |-> IF x = k THEN computed ELSE files[x]]
      BY DEF Export
    <2>2. \A x \in DOMAIN files' : \A ts \in files'[x] : Past(ts) /\ InWindow(ExportRes, x, ts)
      BY <1>1, <2>1 DEF FileInv
    <2> QED BY <1>1, <1>2, <2>2 DEF FileInv, None, InWindow, Get
  <1>4. /\ now \in Nat /\ iterNow \in Nat /\ iterNow <= now /\ lastExport \in Int /\ ExportRes \in Resolutions
        /\ lastExport <= iterNow /\ phase = "up"
    BY <1>1, ExportAssumption DEF CollectorInv, PhaseInv, LoopInv
  <1>5. /\ Get(ExportRes, iterNow) \in Int /\ Get(ExportRes, lastExport) \in Int
        /\ Get(ExportRes, lastExport) <= Get(ExportRes, iterNow)
        /\ Get(ExportRes, iterNow) <= iterNow
        /\ ExportRes.len \in Nat \ {0}
    BY <1>4, GetBounds, GetMono, ResolutionType
  <1>6. \A x \in exported : x \in Int /\ x <= Get(ExportRes, lastExport)
    BY DEF SealInv
  <1>7. CASE /\ windows = <<Get(ExportRes, iterNow)>>
             /\ k = Get(ExportRes, iterNow) /\ Tail(windows) = << >>
    <2>1. LoopInv'
      BY <1>1, <1>4, <1>7 DEF LoopInv, Never, None
    <2>2. \A x \in exported' : lastExport' # Never /\ x \in Int /\ x <= Get(ExportRes, lastExport')
      BY <1>1, <1>4, <1>5, <1>6, <1>7 DEF Never
    <2>3. \A x \in exported' : Get(ExportRes, iterNow) > x => x \in sealed' \cup missed'
      BY <1>1, <1>5, <1>7 DEF SealInv
    <2>4. SealInv'
      BY <1>1, <1>7, <2>2, <2>3 DEF SealInv, SealedUnlessMissed, Never, Get
    <2> QED BY <1>2, <1>3, <2>1, <2>4
  <1>8. CASE /\ k = Get(ExportRes, lastExport)
             /\ Tail(windows) = <<Get(ExportRes, iterNow)>>
             /\ Get(ExportRes, lastExport) + ExportRes.len <= Get(ExportRes, iterNow)
    <2>1. windows' = <<Get(ExportRes, iterNow)>> /\ iterNow' = iterNow
      BY <1>1, <1>8
    <2>2. LoopInv'
      <3>1. (windows = <<Get(ExportRes, iterNow)>>)'
        BY <2>1 DEF Get
      <3>2. (computed = None)'
        BY <1>1 DEF None
      <3>3. (/\ iterNow \in Nat /\ iterNow <= now
             /\ lastExport \in Int /\ Never <= lastExport /\ lastExport <= now
             /\ phase = "up" /\ lastExport <= iterNow)'
        BY <1>1, <1>4, <2>1 DEF Never
      <3> QED BY <3>1, <3>2, <3>3 DEF LoopInv
    <2>3. \A x \in exported' : lastExport' # Never /\ x \in Int /\ x <= Get(ExportRes, lastExport')
      BY <1>1, <1>4, <1>5, <1>6, <1>8 DEF Never
    <2>4. \/ sealed' = sealed /\ missed' = missed \cup {k}
          \/ sealed' = sealed \cup {k} /\ missed' = missed \ {k}
      BY <1>1, <1>4, <1>5, <1>8
    <2>5. \A x \in exported' : x \in sealed' \cup missed'
      BY <1>1, <1>5, <1>6, <1>8, <2>4 DEF SealInv, SealedUnlessMissed
    <2>6. SealInv'
      BY <1>1, <2>1, <2>3, <2>5 DEF SealInv, SealedUnlessMissed, Never, Get
    <2> QED BY <1>2, <1>3, <2>2, <2>6
  <1> QED BY <1>1, <1>7, <1>8, WindowsForms

(* and the janitor removes files but changes none. *)
LEMMA CleanupIInv ==
  ASSUME IInv, Cleanup
  PROVE  IInv'
  <1> USE DEF IInv
  <1>1. /\ UNCHANGED <<now, phase, repoVars, walVars, scrapeVars>>
        /\ UNCHANGED <<iterNow, windows, computed, lastExport, sealed, exported, missed>>
        /\ files' = [k \in {x \in DOMAIN files : x >= Cutoff} |-> files[k]]
    BY DEF Cleanup, collectorVars, loopVars
  <1>2. CollectorInv' /\ \A ts : Past(ts) => Past(ts)'
    BY <1>1, PipelineOnly, PastKept DEF scrapeVars, CollectorInv
  <1>3. LoopInv'
    BY <1>1 DEF LoopInv, None, Never, Get
  <1>4. SealInv'
    BY <1>1 DEF SealInv, SealedUnlessMissed, Get
  <1>5. FileInv'
    <2>1. DOMAIN files' \subseteq DOMAIN files /\ \A k \in DOMAIN files' : files'[k] = files[k]
      BY <1>1
    <2>2. /\ \A k \in DOMAIN files' : \A ts \in files'[k] : Past(ts)' /\ InWindow(ExportRes, k, ts)
          /\ computed # None =>
                \A ts \in computed : Past(ts)' /\ InWindow(ExportRes, Head(windows), ts)
      BY <1>2, <2>1 DEF FileInv
    <2>3. (/\ computed # None /\ computed # {}
           /\ Head(windows) \in DOMAIN files'
           /\ Head(windows) >= Limit(ExportRes))
             => \A ts \in files'[Head(windows)] :
                   (ts \in Range(wal) \ unread \/ (stage = "log" /\ ts = nextScrape))
                       => ts \in computed
      BY <2>1 DEF FileInv
    <2>4. Limit(ExportRes)' = Limit(ExportRes)
      BY <1>1, LimitIs
    <2> QED BY <1>1, <2>2, <2>3, <2>4 DEF FileInv, None, InWindow, Get, Range, walVars, scrapeVars
  <1> QED BY <1>2, <1>3, <1>4, <1>5

(* Every step of the pipeline keeps the invariant. *)
LEMMA NextIInv == IInv /\ [Next]_vars => IInv'
  <1> SUFFICES ASSUME IInv, [Next]_vars PROVE IInv'
    OBVIOUS
  <1>1. CASE UNCHANGED vars
    <2>1. /\ UNCHANGED <<now, phase, repoVars, walVars, scrapeVars>>
          /\ UNCHANGED <<iterNow, windows, computed, lastExport, files, sealed, exported, missed>>
      BY <1>1 DEF vars, collectorVars, exportVars, loopVars
    <2>2. CollectorInv'
      BY <2>1, PipelineOnly DEF IInv
    <2>3. LoopInv' /\ SealInv'
      BY <2>1 DEF IInv, LoopInv, SealInv, SealedUnlessMissed, None, Never, Get
    <2>4. FileInv'
      <3>1. UNCHANGED <<wal, unread, stage, nextScrape>> /\ Limit(ExportRes)' = Limit(ExportRes)
        BY <2>1, LimitIs DEF walVars, scrapeVars
      <3>2. \A ts : Past(ts) => Past(ts)'
        BY <2>1, PastKept DEF IInv, CollectorInv, scrapeVars
      <3>3. /\ \A k \in DOMAIN files : \A ts \in files[k] : Past(ts)' /\ InWindow(ExportRes, k, ts)
            /\ computed # None =>
                  \A ts \in computed : Past(ts)' /\ InWindow(ExportRes, Head(windows), ts)
        BY <3>2 DEF IInv, FileInv
      <3> QED BY <2>1, <3>1, <3>3 DEF IInv, FileInv, None, InWindow, Get, Range
    <2> QED BY <2>2, <2>3, <2>4 DEF IInv
  <1>2. CASE Next
    BY <1>2, CollectorStepIInv, ReadyIInv, CrashIInv, ExportBeginIInv, ComputeIInv, ExportFailsIInv,
       ExportIInv, CleanupIInv DEF Next
  <1> QED BY <1>1, <1>2

(* The inductive invariant holds throughout, crashes and restarts included. *)
THEOREM Inductive == Spec => []IInv
  BY InitPipeline, NextIInv, PTL DEF Spec

-----------------------------------------------------------------------------
(* Every store holds the samples of its window, each once and in the order *)
(* of their timestamps, also one that was rebuilt from the log: the order  *)
(* that the increase, rate and uptime aggregators need.                    *)
THEOREM InOrderHolds == Spec => []InOrder
  <1>1. IInv => InOrder
    <2> SUFFICES ASSUME IInv, NEW r \in Resolutions, NEW k \in DOMAIN stores[r],
                        NEW i \in DOMAIN stores[r][k]
                 PROVE  k <= stores[r][k][i] /\ stores[r][k][i] <= k + r.len
      BY DEF IInv, CollectorInv, Ascending, InOrder
    <2>1. stores[r][k][i] \in Nat /\ InWindow(r, k, stores[r][k][i])
      BY DEF IInv, CollectorInv, StoreInv, Past
    <2> QED BY <2>1, GetBounds, ResolutionType DEF InWindow
  <1> QED BY Inductive, <1>1, PTL

(* "restore applies updates from wal files to restore the state of the     *)
(* previous updater(repo)": a running process has in its stores what the   *)
(* log has and a resolution retains.                                       *)
THEOREM RecoveredHolds == Spec => []Recovered
  <1>1. IInv => Recovered
    BY DEF IInv, CollectorInv, PhaseInv, HeldInv, Held, Recovered, Range
  <1> QED BY Inductive, <1>1, PTL

(* Whatever a store retains can be restored after a crash: the Walinator   *)
(* never cleans the log of what some resolution still needs.               *)
THEOREM BackedHolds == Spec => []Backed
  <1>1. IInv => Backed
    BY DEF IInv, CollectorInv
  <1> QED BY Inductive, <1>1, PTL

(* exportWindowsFor goes back to the window it left: once a later window   *)
(* is exported, the file was written after the end of its window, unless   *)
(* the last attempt at it failed or had an empty set to write              *)
(* (controller.go, exportWindowsFor; exporter.go, Export).                 *)
THEOREM SealedUnlessMissedHolds == Spec => []SealedUnlessMissed
  <1>1. IInv => SealedUnlessMissed
    BY DEF IInv, SealInv
  <1> QED BY Inductive, <1>1, PTL

(* No export, no restart and no cleanup takes a sample out of an exported  *)
(* file that the log still has, while its window is in retention.          *)
THEOREM ExportKeepsLoggedHolds == Spec => ExportKeepsLogged
  <1> DEFINE Kept == \A k \in DOMAIN files : \A ts \in files[k] :
                        (k >= Limit(ExportRes) /\ ts \in Range(wal) \ unread)
                            => k \in DOMAIN files' /\ ts \in files'[k]
  <1>1. ASSUME IInv, [Next]_vars PROVE [Kept]_vars
    <2>1. CASE files' = files
      BY <2>1
    <2>2. CASE Export
      <3> DEFINE k == Head(windows)
      <3>1. windows # << >> /\ computed # None
        BY <2>2 DEF Export
      <3>2. CASE files' = [x \in DOMAIN files \cup {k} |-> IF x = k THEN computed ELSE files[x]]
                 /\ ~(k \in DOMAIN files /\ computed = {})
        <4>1. ASSUME NEW ts \in files[k], k \in DOMAIN files, k >= Limit(ExportRes),
                     ts \in Range(wal) \ unread
              PROVE  ts \in computed
          BY <1>1, <3>1, <3>2, <4>1 DEF IInv, FileInv
        <4> QED BY <3>2, <4>1
      <3> QED BY <2>1, <2>2, <3>2 DEF Export, IsOverwrite
    <2>3. CASE Cleanup
      <3>1. /\ ExportRes \in Resolutions /\ now \in Int /\ JanitorRetention \in Nat
            /\ JanitorRetention >= ExportRes.retention
        BY <1>1, ExportAssumption DEF IInv, CollectorInv, PhaseInv
      <3>2. Cutoff \in Int /\ Limit(ExportRes) \in Int /\ Cutoff <= Limit(ExportRes)
        <4>1. (ExportRes.retention - 1) * ExportRes.len <= JanitorRetention * ExportRes.len
          BY <3>1, MulMono, ResolutionType
        <4>2. /\ (ExportRes.retention - 1) * ExportRes.len \in Int
              /\ JanitorRetention * ExportRes.len \in Int
          BY <3>1, ResolutionType
        <4> QED BY <3>1, <4>1, <4>2, GetBounds DEF Cutoff, Limit
      <3>3. \A k \in DOMAIN files : \A ts \in files[k] : k \in Int
        BY <1>1, <3>1, GetBounds DEF IInv, FileInv, InWindow, Past
      <3>4. files' = [k \in {x \in DOMAIN files : x >= Cutoff} |-> files[k]]
        BY <2>3 DEF Cleanup
      <3> QED BY <3>2, <3>3, <3>4
    <2> QED BY <1>1, <2>1, <2>2, <2>3
            DEF Next, CollectorStep, PipelineReady, PipelineCrash, ExportBegin, Compute, ExportFails,
                vars, exportVars
  <1>2. IInv /\ [Next]_vars => [Kept]_vars
    BY <1>1
  <1> QED BY Inductive, <1>2, PTL DEF Spec, ExportKeepsLogged
=============================================================================
