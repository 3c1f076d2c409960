---------------------------- MODULE PortfolioSync ---------------------------
(***************************************************************************)
(* Where the crypto portfolio is kept (CryptoPortfolioTracker.jsx): the    *)
(* table on the screen, its copy in localStorage, and the encrypted file   *)
(* in the cloud that several PCs share.  A change is saved 750 ms after    *)
(* the last one; each start and each "Force Pull" reads the file.          *)
(*                                                                         *)
(* Prices of coins: the files in which cryptoMarketData.js keeps what      *)
(* CoinGecko answered, one per requested set of coins and one per coin.    *)
(* A price is the time it is of.                                           *)
(*                                                                         *)
(* The price history of a coin that cryptoMarketData.js keeps for ever:    *)
(* the days there are, on this PC and in the cloud, and the request for    *)
(* what happened since the last of them.                                   *)
(***************************************************************************)
EXTENDS Naturals, FiniteSets

CONSTANTS MaxEdits,     \* bound: changes
          MaxReads,     \* bound: reads of the file
          MaxTime,      \* bound: saves, of this PC and of the others; the time of prices
          SyncFaults    \* "upload" fails, "overtaken" an upload ends after a later one, "stale" the
                        \* user goes on with a table older than the file, "hurry" a read begins or
                        \* ends while a change is not saved, "close" the program ends with one, or
                        \* "turns" two PCs are used at a time

SyncAssumption ==
  /\ MaxEdits \in Nat /\ MaxReads \in Nat /\ MaxTime \in Nat
  /\ SyncFaults \subseteq {"upload", "overtaken", "stale", "hurry", "close", "turns"}

Edits == 1 .. MaxEdits
Nothing == [edits |-> {}, time |-> 0]     \* no copy yet

VARIABLES
  opened,       \* the program runs
  table,        \* transactions
  updatedAt,    \* portfolioUpdatedAtRef
  mutatedAt,    \* lastLocalMutationAtRef
  loaded,       \* hasLoadedRef, or its 50 ms timer runs
  saveTimer,    \* the 750 ms
  cache,        \* PORTFOLIO_CACHE_KEY
  file,         \* portfolio.vscrypto
  uploads,      \* payloads under way
  reads,        \* downloads under way: [request, startedAt, cached]
  request,      \* cloudLoadRequestRef
  time,         \* of the last save anywhere
  blank,        \* the first read failed and there was no copy
  done,         \* changes so far
  everyone      \* (ghost) the changes that somebody made and the user has not cleared

syncVars == <<opened, table, updatedAt, mutatedAt, loaded, saveTimer, cache, file, uploads, reads,
              request, time, blank, done, everyone>>

Payloads == [edits : SUBSET Edits, time : 0 .. MaxTime]

TypeOK ==
  /\ \A b \in {opened, saveTimer, blank} : b \in BOOLEAN
  /\ loaded \in {"no", "soon", "yes"}
  /\ table \subseteq Edits /\ everyone \subseteq Edits /\ done \in 0 .. MaxEdits
  /\ {updatedAt, mutatedAt, time} \subseteq 0 .. MaxTime /\ request \in 0 .. MaxReads
  /\ cache \in Payloads /\ file \in Payloads /\ uploads \subseteq Payloads
  /\ reads \subseteq [request : 1 .. MaxReads, startedAt : 0 .. MaxTime, cached : BOOLEAN]

Init ==
  /\ opened = FALSE /\ table = {} /\ updatedAt = 0 /\ mutatedAt = 0 /\ loaded = "no"
  /\ saveTimer = FALSE /\ cache = Nothing /\ file = Nothing /\ uploads = {} /\ reads = {}
  /\ request = 0 /\ time = 0 /\ blank = FALSE /\ done = 0 /\ everyone = {}

Screen == <<table, updatedAt, mutatedAt, loaded, saveTimer>>
Idle   == ~saveTimer /\ uploads = {} /\ reads = {}

-----------------------------------------------------------------------------
\* loadPortfolioData: the copy is shown at once, and the file is read.
LoadPortfolio ==
  /\ request < MaxReads /\ request' = request + 1
  /\ reads' = reads \cup {[request |-> request + 1, startedAt |-> time, cached |-> cache # Nothing]}
  /\ IF cache # Nothing
     THEN table' = cache.edits /\ updatedAt' = cache.time /\ loaded' = "soon"
     ELSE UNCHANGED <<table, updatedAt>> /\ loaded' = "no"
  /\ saveTimer' = (saveTimer /\ cache = Nothing)
  /\ UNCHANGED <<mutatedAt, cache, file, uploads, time, done, everyone>>

Start == ~opened /\ opened' = TRUE /\ blank' = FALSE /\ LoadPortfolio

ForcePull ==
  /\ opened
  /\ saveTimer \/ uploads # {} => "hurry" \in SyncFaults
  /\ LoadPortfolio /\ UNCHANGED <<opened, blank>>

FinishLoad ==
  /\ loaded = "soon" /\ loaded' = "yes"
  /\ UNCHANGED <<opened, table, updatedAt, mutatedAt, saveTimer, cache, file, uploads, reads,
                 request, time, blank, done, everyone>>

\* Mutant: what was changed since the read began is forgotten.
AppliesAlways(r) == r.request = request

\* A read that others have followed, or that is older than a change, is not shown.
Applies(r) == r.request = request /\ (mutatedAt <= r.startedAt \/ file.time >= updatedAt)

\* applyPortfolioPayload: the change of the table takes a waiting save with it.
CloudRead(r) ==
  /\ r \in reads /\ reads' = reads \ {r} /\ file # Nothing
  /\ saveTimer => "hurry" \in SyncFaults
  /\ IF Applies(r)
     THEN /\ table' = file.edits /\ updatedAt' = file.time /\ cache' = file
          /\ loaded' = "soon" /\ saveTimer' = FALSE
     ELSE UNCHANGED <<table, updatedAt, cache, loaded, saveTimer>>
  /\ UNCHANGED <<opened, mutatedAt, file, uploads, request, time, blank, done, everyone>>

\* No file, no network: without a copy the program goes on with an empty table.
CloudReadFails(r) ==
  /\ r \in reads /\ reads' = reads \ {r}
  /\ IF r.cached THEN UNCHANGED <<table, loaded, saveTimer, blank>>
     ELSE table' = {} /\ loaded' = "soon" /\ saveTimer' = FALSE /\ blank' = (file # Nothing)
  /\ UNCHANGED <<opened, updatedAt, mutatedAt, cache, file, uploads, request, time, done, everyone>>

-----------------------------------------------------------------------------
\* The user changes what is as new as the file.
MayChange == "stale" \in SyncFaults \/ (~blank /\ file.time <= updatedAt)

\* Transactions, the watch list and the coin ids are changed alike.
Edit ==
  /\ opened /\ done < MaxEdits
  /\ \/ "hurry" \in SyncFaults
     \/ loaded = "yes" /\ \A r \in reads : r.cached
  /\ MayChange
  /\ done' = done + 1 /\ table' = table \cup {done + 1} /\ everyone' = everyone \cup {done + 1}
  /\ saveTimer' = (loaded = "yes")
  /\ UNCHANGED <<opened, updatedAt, mutatedAt, loaded, cache, file, uploads, reads, request, time, blank>>

\* Mutant: the copy on this PC is left as it was.
CopyKept(payload) == cache

Copy(payload) == payload

\* savePortfolioData: the copy, then the upload.
Save(edits) ==
  LET payload == [edits |-> edits, time |-> time + 1] IN
    /\ opened /\ time < MaxTime /\ time' = time + 1
    /\ mutatedAt' = time + 1 /\ updatedAt' = time + 1
    /\ cache' = Copy(payload) /\ uploads' = uploads \cup {payload}
    /\ UNCHANGED <<opened, loaded, file, reads, request, blank, done>>

TimerFires == saveTimer /\ saveTimer' = FALSE /\ Save(table) /\ UNCHANGED <<table, everyone>>

ForcePush ==
  /\ MayChange
  /\ loaded = "yes" /\ Save(table) /\ UNCHANGED <<table, saveTimer, everyone>>

\* The empty table is saved at once and, as a change of the table, once more.
ClearPortfolioData ==
  /\ MayChange /\ loaded = "yes" /\ table # {} /\ table' = {} /\ everyone' = {} /\ Save({})
  /\ saveTimer' = TRUE

UploadEnds(p) ==
  /\ p \in uploads /\ uploads' = uploads \ {p}
  /\ \/ /\ \A q \in uploads : "overtaken" \in SyncFaults \/ p.time <= q.time
        /\ file' = p
     \/ "upload" \in SyncFaults /\ UNCHANGED file
  /\ UNCHANGED <<opened, Screen, cache, reads, request, time, blank, done, everyone>>

-----------------------------------------------------------------------------
\* Another PC reads the file, adds a transaction and writes it.
OtherPC ==
  /\ done < MaxEdits /\ time < MaxTime /\ done' = done + 1 /\ time' = time + 1
  /\ opened \/ uploads # {} => "turns" \in SyncFaults
  /\ file' = [edits |-> file.edits \cup {done + 1}, time |-> time + 1]
  /\ everyone' = everyone \cup {done + 1}
  /\ UNCHANGED <<opened, Screen, cache, uploads, reads, request, blank>>

Close ==
  /\ opened /\ opened' = FALSE
  /\ saveTimer \/ uploads # {} => "close" \in SyncFaults
  /\ table' = {} /\ updatedAt' = 0 /\ mutatedAt' = 0 /\ loaded' = "no" /\ saveTimer' = FALSE
  /\ uploads' = {} /\ reads' = {} /\ blank' = FALSE
  /\ UNCHANGED <<cache, file, request, time, done, everyone>>

Next ==
  \/ Start \/ ForcePull \/ FinishLoad \/ Edit \/ TimerFires \/ ForcePush \/ ClearPortfolioData
  \/ \E r \in reads : CloudRead(r) \/ CloudReadFails(r)
  \/ \E p \in uploads : UploadEnds(p)
  \/ OtherPC \/ Close


-----------------------------------------------------------------------------
(* Properties. *)

\* What somebody entered is not lost: it is in the file, or on the way there.
EntriesReachTheFile ==
  everyone \subseteq file.edits \cup (IF saveTimer THEN table ELSE {})
                       \cup UNION {p.edits : p \in uploads}

\* With nothing under way, the copy that the next start shows is the table, and the
\* table is the file when this PC has written last.
CopyIsTable ==
  opened /\ loaded = "yes" /\ ~blank /\ Idle /\ cache # Nothing =>
    table = cache.edits /\ (cache.time = file.time => table = file.edits)

PortfolioKept == EntriesReachTheFile /\ CopyIsTable

-----------------------------------------------------------------------------

CONSTANTS Coins,        \* 1 .. n, in the order in which their ids are sorted
          NameLength,   \* how many ids fit into the 160 characters of a file name
          Fresh,        \* MARKET_CACHE_MS: a file is used while it is younger
          Stale         \* MARKET_STALE_CACHE_MS: the price of a coin may be this old

MarketAssumption ==
  /\ Coins = 1 .. Cardinality(Coins) /\ Coins # {} /\ NameLength \in Nat
  /\ {Fresh, Stale, MaxTime} \subseteq Nat

VARIABLES
  now,
  setFiles,      \* market_<ids>.json: [at, rows]
  coinFiles      \* market_coin_<id>.json: the time of the price

marketVars == <<now, setFiles, coinFiles>>

Never == MaxTime + 1
Rows  == [Coins -> 0 .. Never]         \* the price of a coin, or none
NoRows == [c \in Coins |-> Never]
IdSets == SUBSET Coins \ {{}}
Of(rows) == {c \in Coins : rows[c] # Never}

\* The name of a file is cut.
NameOf(ids) == {c \in ids : Cardinality({d \in ids : d <= c}) <= NameLength}
FileNames == {NameOf(ids) : ids \in IdSets}

MarketTypeOK ==
  /\ now \in 0 .. MaxTime
  /\ setFiles \in [FileNames -> [at : 0 .. Never, rows : Rows]] /\ coinFiles \in Rows

MarketInit ==
  /\ now = 0 /\ setFiles = [n \in FileNames |-> [at |-> Never, rows |-> NoRows]]
  /\ coinFiles = NoRows

-----------------------------------------------------------------------------
Tick == now < MaxTime /\ now' = now + 1 /\ UNCHANGED <<setFiles, coinFiles>>

Cached(ids) == setFiles[NameOf(ids)]
IsFresh(f)  == f.at # Never /\ now - f.at < Fresh

\* Mutant: an old price of a coin is as good as a new one.
CachedRowsOfAnyAge(ids) == [c \in Coins |-> IF c \in ids THEN coinFiles[c] ELSE Never]

\* getCachedCoinMarketRows
CachedRows(ids) ==
  [c \in Coins |-> IF c \in ids /\ coinFiles[c] # Never /\ now - coinFiles[c] <= Stale
                   THEN coinFiles[c] ELSE Never]

\* CoinGecko knows some of the coins; the others get the price they had, for a day.
Requested(ids, known) ==
  LET others == CachedRows(ids \ known)
      rows   == [c \in Coins |-> IF c \in known THEN now ELSE others[c]] IN
    /\ ~IsFresh(Cached(ids))
    /\ coinFiles' = [c \in Coins |-> IF c \in known THEN now ELSE coinFiles[c]]
    /\ setFiles' = [setFiles EXCEPT ![NameOf(ids)] = [at |-> now, rows |-> rows]]
    /\ UNCHANGED now

\* What the page gets without a request, and when one fails: the file of the set,
\* however old, else the files of its coins; with neither the error is shown.
Answer(ids, online) ==
  IF Cached(ids).at # Never /\ (IsFresh(Cached(ids)) \/ ~online)
  THEN Cached(ids).rows ELSE CachedRows(ids)

MarketNext == Tick \/ \E ids \in IdSets : \E known \in SUBSET ids : Requested(ids, known)


-----------------------------------------------------------------------------
(* Properties. *)

\* What the page gets without a request of its own while CoinGecko answers is of
\* the coins it asked for, holds each of them it knows, and no price is older than
\* a day, however often a price was carried from one file to the next.
AnswersAreRecent ==
  \A ids \in IdSets :
    LET rows == Answer(ids, TRUE) IN
      /\ Of(rows) \subseteq ids
      /\ \A c \in Of(rows) : now - rows[c] < Stale + Fresh \/ now - rows[c] <= Stale

\* Without CoinGecko it still gets the prices it had of the coins it asks for.
MarketIsTrue ==
  /\ AnswersAreRecent
  /\ \A ids \in IdSets : Of(Answer(ids, FALSE)) \subseteq ids

-----------------------------------------------------------------------------

CONSTANTS LastDay,      \* bound
          MaxRequests   \* bound: requests that wait at once

HistoryAssumption == LastDay \in Nat /\ MaxRequests \in Nat \ {0}

VARIABLES
  today,
  history,   \* history_<coin>_max.json on this PC: the days it holds
  shared,    \* that file in the cloud, which the user's other PCs write too
  requests   \* for the days that are missing: [known, number]

historyVars == <<today, history, shared, requests>>

Days == 0 .. LastDay

HistoryTypeOK ==
  /\ today \in Days /\ history \subseteq Days /\ shared \subseteq Days
  /\ requests \subseteq [known : SUBSET Days, number : 1 .. MaxRequests]

HistoryInit == today = 0 /\ history = {} /\ shared = {} /\ requests = {}

NextDay ==
  today < LastDay /\ today' = today + 1 /\ UNCHANGED <<history, shared, requests>>

\* loadCache, of a file that is no longer fresh: the one of this PC, else the cloud's.
GetHistory ==
  LET known == IF history # {} THEN history ELSE shared IN
    \E n \in 1 .. MaxRequests :
      /\ \A r \in requests : r.number # n
      /\ requests' = requests \cup {[known |-> known, number |-> n]}
      /\ history' = known /\ UNCHANGED <<today, shared>>

LastOf(days) == CHOOSE d \in days : \A e \in days : e <= d

\* Mutant: the request is for today.
MissingToday(known) == {today}

\* From the second after the last point; all of it when there is none.
Missing(known) == IF known = {} THEN 0 .. today ELSE {d \in 0 .. today : d > LastOf(known)}

\* saveCache: the upload of the copy may fail.
Answered(r) ==
  LET prices == r.known \cup Missing(r.known) IN
    /\ r \in requests /\ requests' = requests \ {r}
    /\ history' = prices /\ shared' \in {shared, prices} /\ UNCHANGED today

\* What there is serves when CoinGecko does not answer.
Fails(r) == r \in requests /\ requests' = requests \ {r} /\ UNCHANGED <<today, history, shared>>

OtherPCShares ==
  /\ \E last \in 0 .. today : shared' = 0 .. last
  /\ UNCHANGED <<today, history, requests>>

\* The cache folder is lost with a new installation.
NewInstallation == history # {} /\ history' = {} /\ requests' = {} /\ UNCHANGED <<today, shared>>

HistoryNext ==
  \/ NextDay \/ GetHistory \/ OtherPCShares \/ NewInstallation
  \/ \E r \in requests : Answered(r) \/ Fails(r)


-----------------------------------------------------------------------------
\* A history is never one with a gap, which no later request would fill: over
\* overlapping and failed requests, other PCs' files and new installations.
HistoryHasNoGap == \A h \in {history, shared} : h # {} => h = 0 .. LastOf(h)
=============================================================================
