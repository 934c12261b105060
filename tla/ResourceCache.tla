----------------------------- MODULE ResourceCache -----------------------------
(* One standing resource of the web client in the query cache of               *)
(* use-resource-state: its automatic fetches, the reloads that follow a save,   *)
(* and the setters that write the cache directly.  Values are version numbers;  *)
(* a fetch is one request whose answer may be read at the server long before it *)
(* is applied.  The kind of the resource decides how it is saved and refreshed: *)
(*   "polled"  schedules and activity: saved, then reloaded; polled as well     *)
(*   "loaded"  presets and runs: saved, then reloaded; never polled             *)
(*   "toggle"  app settings: the cache is flipped first, then saved             *)
(*   "form"    safety: the cache is edited, and saved as it then is             *)
EXTENDS Naturals

CONSTANTS
    Kinds,       \* the kinds of resource
    Empty,       \* no data yet
    MaxVersion,  \* bound on the writes and edits of a behaviour
    MaxFailures    \* bound on failed requests

Lists == {"polled", "loaded"}
ASSUME KindsAssumption == Kinds \subseteq Lists \cup {"toggle", "form"}
ASSUME VersionAssumption == MaxVersion \in Nat /\ MaxFailures \in Nat /\ Empty \notin Nat

VARIABLES
    kind,     \* of this resource
    version,      \* the server's value
    cache,    \* data of the query
    fetch,    \* the query's request in flight
    job,      \* the handler in guarded that saves this resource
    outdated, \* its reload was handed a fetch the server had read before the save
    other,    \* guarded is held by a handler of something else
    newest,   \* the newest version (bound)
    failures
cacheVars == <<kind, version, cache, fetch, job, outdated, other, newest, failures>>

Versions == 0..MaxVersion
NoFetch == [at |-> "none", val |-> 0]
NoJob == [at |-> "idle", val |-> 0, prev |-> 0]
Fetches == [at : {"none", "asked", "answered"}, val : Versions]
Jobs == [at : {"idle", "post", "reload"}, val : Versions, prev : Versions \cup {Empty}]
HandlerFree == job.at = "idle" /\ ~other
Fetching == fetch.at # "none"

CacheInit ==
    /\ kind \in Kinds
    /\ version = 0 /\ cache = Empty /\ fetch = NoFetch
    /\ job = NoJob /\ outdated = FALSE /\ other = FALSE
    /\ newest = 0 /\ failures = 0

-------------------------------------------------------------------------------
(* The query.                                                                  *)

Ask ==
    /\ fetch' = [at |-> "asked", val |-> 0]
    /\ UNCHANGED <<kind, version, cache, job, outdated, other, newest, failures>>
\* Mutant: data that has been loaded once is never fetched again.
AutoFetchMissing == ~Fetching /\ cache = Empty /\ Ask
\* Mounting fetches data that is missing; refetchInterval only on a polled one
\* (staleTime Infinity and the default interval never do).
AutoFetch == ~Fetching /\ (cache = Empty \/ kind = "polled") /\ Ask

ServerAnswers ==
    /\ fetch.at = "asked"
    /\ fetch' = [at |-> "answered", val |-> version]
    /\ UNCHANGED <<kind, version, cache, job, outdated, other, newest, failures>>

\* The data is stored whatever was written to the cache meanwhile; a reload that
\* awaits this request ends its handler.
FetchLands ==
    /\ fetch.at = "answered"
    /\ cache' = fetch.val
    /\ fetch' = NoFetch
    /\ job' = IF job.at = "reload" THEN NoJob ELSE job
    /\ outdated' = FALSE
    /\ UNCHANGED <<kind, version, other, newest, failures>>

\* A refused or malformed answer (api throws) leaves the data as it was.
FetchFails ==
    /\ Fetching /\ failures < MaxFailures
    /\ failures' = failures + 1
    /\ fetch' = NoFetch
    /\ job' = IF job.at = "reload" THEN NoJob ELSE job
    /\ outdated' = FALSE
    /\ UNCHANGED <<kind, version, cache, other, newest>>

\* Mutant: without staleTime 0 the handler goes on with what the cache holds.
ReloadFromCache ==
    /\ outdated' = (fetch.at = "answered")
    /\ fetch' = IF Fetching \/ cache = Empty THEN fetch
                ELSE [at |-> "answered", val |-> cache]
\* reload: fetchQuery with staleTime 0; the query has one request at a time, so a
\* reload during a fetch gets the promise of that fetch.  The answer is too old just
\* when the server has read it already.
reload ==
    /\ outdated' = (fetch.at = "answered")
    /\ fetch' = IF Fetching THEN fetch ELSE [at |-> "asked", val |-> 0]

-------------------------------------------------------------------------------
(* Saving.                                                                     *)

Fresh == newest + 1
CanWrite == newest < MaxVersion

\* patchStatus, run-now, delete, createSchedule; saveCurrent and the deletion of a
\* preset; the row controls of a run: post, then reload.
ClickSaveList ==
    /\ kind \in Lists /\ HandlerFree /\ CanWrite
    /\ job' = [at |-> "post", val |-> 0, prev |-> Empty]
    /\ UNCHANGED <<kind, version, cache, fetch, outdated, other, newest, failures>>

\* setDialogPhotos flips the cache, then hands the save to guarded, which drops
\* it when it is busy.
ClickToggle ==
    /\ kind = "toggle" /\ CanWrite
    /\ newest' = Fresh
    /\ cache' = Fresh
    /\ job' = IF HandlerFree THEN [at |-> "post", val |-> Fresh, prev |-> cache] ELSE job
    /\ UNCHANGED <<kind, version, fetch, outdated, other, failures>>

\* SafetyEditor edits the cache; loadPreset writes into it as well.
Edit ==
    /\ kind = "form" /\ CanWrite
    /\ newest' = Fresh
    /\ cache' = Fresh
    /\ UNCHANGED <<kind, version, fetch, job, outdated, other, failures>>
\* SafetyPanel: the value that is shown (emptySafety while nothing is loaded).
ClickSaveForm ==
    /\ kind = "form" /\ HandlerFree /\ cache # Empty
    /\ job' = [at |-> "post", val |-> cache, prev |-> cache]
    /\ UNCHANGED <<kind, version, cache, fetch, outdated, other, newest, failures>>

\* The server carries the post out and the handler goes on: a list is reloaded.
PostSucceeds ==
    /\ job.at = "post"
    /\ IF kind \in Lists
       THEN /\ CanWrite /\ newest' = Fresh /\ version' = Fresh
            /\ job' = [job EXCEPT !.at = "reload", !.val = Fresh]
            /\ reload
       ELSE /\ version' = job.val /\ job' = NoJob
            /\ UNCHANGED <<fetch, outdated, newest>>
    /\ UNCHANGED <<kind, cache, other, failures>>

\* The save is refused, or its answer is lost: a toggle is reverted.
PostFails ==
    /\ job.at = "post" /\ failures < MaxFailures
    /\ failures' = failures + 1
    /\ version' \in IF kind \in Lists THEN {version} ELSE {version, job.val}
    /\ cache' = IF kind = "toggle" THEN job.prev ELSE cache
    /\ job' = NoJob
    /\ UNCHANGED <<kind, fetch, outdated, other, newest>>

\* The server changes a list by itself: the scheduler fires, a run advances.
ServerMoves ==
    /\ kind \in Lists /\ newest + 1 < MaxVersion
    /\ newest' = Fresh /\ version' = Fresh
    /\ UNCHANGED <<kind, cache, fetch, job, outdated, other, failures>>

\* Another handler of the interface takes guarded and lets it go.
OtherHandler ==
    /\ job.at = "idle"
    /\ other' = ~other
    /\ UNCHANGED <<kind, version, cache, fetch, job, outdated, newest, failures>>

CacheAnswers == ServerAnswers \/ FetchLands \/ PostSucceeds
CacheNext ==
    \/ AutoFetch \/ CacheAnswers \/ FetchFails
    \/ ClickSaveList \/ ClickToggle \/ Edit \/ ClickSaveForm \/ PostFails
    \/ ServerMoves \/ OtherHandler

\* The network answers and the timers of a polled query fire.
CacheSpec == CacheInit /\ [][CacheNext]_cacheVars /\ WF_cacheVars(CacheAnswers) /\ WF_cacheVars(AutoFetch)

-------------------------------------------------------------------------------
(* Properties                                                                  *)

CacheTypeOK ==
    /\ kind \in Kinds /\ version \in Versions /\ cache \in Versions \cup {Empty}
    /\ fetch \in Fetches /\ job \in Jobs /\ outdated \in BOOLEAN /\ other \in BOOLEAN
    /\ newest \in Versions /\ failures \in 0..MaxFailures

\* A reload that ends without a failure leaves the handler's own save in the list.
\* The one exception is a reload that was handed an answer the server had read
\* before the save: its list is older, until the next fetch.
ReloadShowsTheWrite ==
    [][(job.at = "reload" /\ job'.at = "idle" /\ ~outdated /\ failures' = failures)
            => cache' >= job.val]_cacheVars

\* The list of a polled resource catches up with the server, whatever order
\* saves, polls and reloads were answered in.
PolledListConverges == kind = "polled" => <>[](cache = version)

\* The comment of the reloads: "fetchQuery with staleTime 0 forces a fresh fetch",
\* so that every successful reload after a save would show it.
ReloadIsFresh ==
    [][(job.at = "reload" /\ job'.at = "idle" /\ failures' = failures)
            => cache' >= job.val]_cacheVars

\* The comment of setDialogPhotos: "flip the UI immediately, revert if the save
\* fails", so that a toggle at rest shows what the server has.
ToggleIsSaved ==
    (kind = "toggle" /\ job.at = "idle" /\ failures = 0 /\ ~Fetching /\ cache # Empty)
        => cache = version
===============================================================================
