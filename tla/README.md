# Verification of html2pdf-service

TLA+ models of the two Go services of this repository, TLC configurations that
check them on small instances, and TLAPS proofs of what matters most about them
for every value of their parameters. Line numbers refer to the sources under
`src/`; `PROJECT.json` gives, for every definition that models code, the lines it
stands for.

## 1. The system

```
client -> Envoy -> ext_authz -> auth-service -> Redis (rate counters)
            |                        `-------> Postgres (tokens, on a timer)
            `----> pdf-renderer -> Redis (PDF cache)
                        `--------> Chrome (pool of tabs)
```

| Component | State it keeps | Operations | Hard behaviour |
|---|---|---|---|
| **Chrome pool** `pdf-renderer/internal/infra/chrome/pool.go` | channel of tokens `sem`, `browserCtx` with its cancel functions, `profileDir`, `closed`, `restarts`, mutex `mu`; directories on disk | `NewPool`, `Acquire`, `Release`, `Restart`, `Close`, `Stats` | the channel, the mutex and the unguarded fields are three ways to synchronise; directories are removed after the mutex is released; a restart takes the browser away from everybody who is rendering |
| **PDF request handling** `.../http/handlers/pdf.go` | `svc.pool` under `svc.poolMu`; PDFs in Redis | `getChromePool`, `processPDFGeneration`, `renderPDF` (with one retry), `renderPDFWithChrome` (without a pool), cache get and set, `HandleChromeStats` | creation race; timeouts while waiting for a tab, while rendering and while warming up; a failure of one request is answered with a restart that fails others |
| **Request validation and cache key** (same file) | PDFs in Redis, each with a lifetime | `validateAndExtract...`, `computePDFCacheKey`, `getCachedPDF`, `setCachedPDF` | requests that share a key; a slow render that overwrites the PDF of a later one; a lifetime of 0, which Redis takes for no end |
| **Page readiness** (same file) | none | `renderPDFInExistingTab`, `waitForRenderReady` | four polls that share one deadline, under a timeout that may lie before or after it; a page that changes while it is polled |
| **Token store and reloader** `auth-service/internal/tokens`, `.../infra/postgres` | the `tokens` table; `Cache.m`; a loaded map on its way to the cache | rows edited by hand; `LoadTokens`, `LoadOnce`, `Start`, `Replace`; `Ready`, `Validate`, `HasScope`, `RateLimit` | the table changes while it is being loaded and while requests read the copy; loads fail |
| **External authorization** `auth-service/internal/http` | per request: `api_key` | `OptionalAPIKeyAuth`, `TokenRateLimit`, `UserRateLimit`, `ExtAuthzOK` | one request reads the token cache up to four times, with reloads in between |
| **Rate limiting** `.../middleware/rate_limit.go`, `.../infra/ratelimit` | limiter per limit; counters in Redis or in memory | `GetOrCreate`, the sliding window | check and create are not atomic; limits 0 and below |
| **Renderer process** `pdf-renderer/cmd/html2pdf/main.go`, `.../http/server` | the listener; all memory and Chromes of the service | start-up, listening, signals, shutdown | shutdown gives up after five seconds and does not close the pool; a signal may come before it is waited for; crashes leave directories behind |
| **Auth process** `auth-service/cmd/*/main.go` | - | start-up, first load | the service starts without a table |
| **Gateway, docs UI, deployment, scripts, logging** | - | - | configuration and pure output |

Interaction: the gateway asks the auth-service about every request and passes
on what it allows. Inside the renderer the handlers call the pool's methods from
one goroutine per request and share nothing else but `svc.pool` and Redis.
Inside the auth-service one goroutine reloads; requests only read `Cache.m`.

What makes each component correct:

- *Chrome pool*: at most `chrome_pool_size` renders at a time; no token is lost
  or forged under any order of timeouts, releases, restarts and close; one browser
  lives at a time and its profile directory exists; every other directory is
  removed or on the way; nothing starts after `Close`; every call returns.
- *PDF request handling*: one pool; every tab is released on every path; the pool
  is used as its interface allows; a retry does not go to the browser that has
  failed; restarts are bounded by requests; only good PDFs are cached; every request
  is answered.
- *Request validation and cache key*: what is cached is not older than its lifetime and
  a render, but for the time from printing to storing, which the code does not bound; a cached copy is laid out as it was asked for, and is of what was asked for (it is
  not: finding 4), or at least of a text that differs from it by no more than the name of a layout.
- *Page readiness*: a page is printed when it is ready or the deadline is over; a render does
  not hold its tab beyond its timeout.
- *Renderer process*: a signal ends it, whatever requests do; what it leaves on disk does not grow
  with the number of restarts of the browser.
- *Token store*: requests see one whole table, never an older one than before;
  failures leave the cache alone; revocations take effect.
- *Authorization*: an answer is one that some table in use during the request
  justifies, and that table was one in Postgres; a request is counted under a limit its key had
  meanwhile, or uncounted for a known reason; in the end revoked keys are refused.
- *Rate limiting*: no more than the limit passes in a window, however requests
  overlap, where one limiter counts; the user limiter counts as an atomic counter would; the race
  to make the limiter of a limit goes towards its end and never begins again; no mutex stays locked.

## 2. Plan

Order: what several actors share first, pure functions last.

| # | Module | What | State |
|---|---|---|---|
| 1 | `RenderSlots` | abstract: slots a worker asks for, gets, leaves | done |
| 2 | `ChromePool` | the pool; implements `RenderSlots` | done |
| 3 | `ChromePoolProofs` | its invariants and the refinement, proved | done |
| 4 | `Renderer` | the handlers over `INSTANCE ChromePool`; implements it | done |
| 5 | `TokenReload`, `TokenReloadProofs` | table, loader, cache; proved | done |
| 6 | `ExtAuthz` | one request through the middlewares over `INSTANCE TokenReload`, with reloads between its looks into the cache | done |
| 7 | `RateLimit`, `HitCounters`, `RateLimitProofs` | `LimiterCache` and limiters over one storage; the user limiter implements the abstract `HitCounters`; proved | done |
| 8 | `ExtAuthzProofs` | answers and counts, proved for any table and any number of edits | done |
| 9 | `RendererProofs` | the handlers implement a caller of the pool; their own invariants on top of `ChromePoolProofs` | done |
| 10 | `PdfParams`, `PdfCache`, `PdfCacheProofs` | validation, layout and key as operators; requests and the cache over time; proved | done |
| 11 | `RenderReady`, `RenderReadyProofs` | one render with its polls, deadline and timeout; proved | done |
| 12 | `RendererProcess`, `RendererProcessProofs` | `Renderer` in a process that starts, stops and crashes; proved | done |

What composes what: `Renderer` calls the actions of `ChromePool`, `RendererProcess` extends
`Renderer`, `ExtAuthz` calls the actions of `TokenReload`, `PdfCache` uses the operators of
`PdfParams`. `RenderSlots` is implemented by `ChromePool`, and `ChromePool` by `Renderer`;
`TokenReload` is implemented by `ExtAuthz`, and `HitCounters` by the user limiter of `RateLimit`.

What the text of the repository says and no run settles: the comment on `setCachedPDF`
(pdf.go:359) speaks of 24 hours, while the lifetime is configured; the README of
the renderer says that margins lie in 0.1 to 2.0, while `NaN` passes too
(pdf.go:218); "Server stopped cleanly" (main.go:77) is logged after a forced shutdown as well.

## 3. Modules

### RenderSlots (abstract)

A worker asks, is admitted or gives up, and leaves; at most `Slots` are admitted;
once the pool is shut nobody may ask. It knows neither tokens nor browsers.

### ChromePool

State and code:

| Variable | Code |
|---|---|
| `sem` | tokens in the channel `p.sem` |
| `closed` | `p.closed` |
| `mu` | holder of `p.mu` in the one critical section that takes more than one step (`Restart`); shorter sections are one step guarded by `mu = None` |
| `restarts` | `p.restarts`; since each successful restart installs one browser and one directory under the mutex, it also names `p.browserCtx` and `p.profileDir` |
| `live`, `profiles` | contexts that are not cancelled, directories on disk |
| `undeleted` | history: directories whose removal failed |
| `pc`, `tab`, `dir` | where a goroutine is, its `Tab`, its local `oldProfile` / `profileDir` |

A step ends where another goroutine could notice. `Acquire` is the check of
`closed`, the wait in the `select` (either branch may be taken when both are
ready) and the unguarded read of `browserCtx`. `Release` is the cancel of the tab,
the read of `closed` under the mutex, and the channel send after it. `Restart` is the
cancel (from which on `Acquire` hands out dead tabs), then success or
failure of `createProfileDir`, then the removal outside the mutex, which may
fail. `Close` sets the flag, then cancels, then removes. The workers of the module
may call anything in any order, except that they release a tab once; this is the
contract the comments on `Acquire` state.

Not in the model: the flags Chromium is started with, `sanitizeProfileDir`, the
warm-up of `NewPool` (its errors are ignored by the code), contents of directories.

### Renderer

A worker is a goroutine that serves one request at a time. Its `stage` says where
in `processPDFGeneration` it is; while it is `"rendering"`, `pc` of the pool says
where in `runOnce` or `Restart` it is. `made` counts the pools that `NewPool` has
made and `poolMu` is held over `NewPool`. `attempt` and `outcome` follow the retry:
an outcome is one of the four cases that `processPDFGeneration` and
`IsSessionInterrupted` tell apart. Chrome itself is free: a render in a live tab may
end in any way, one in a cancelled tab cannot succeed. A document stands for a cache
key; a failing Redis is a miss, or a store that does not happen. A service that
runs without Redis is a service whose Redis always fails.

`pooled` says whether `chrome_pool_size` is above 0. Without a pool, `StartOwnChrome`,
`RenderAlone` and `RemoveOwnProfile` are `renderPDFWithChrome`: a profile directory of its own
for each request (`own`), one attempt, and the removal before the answer.

The variables of the pool are those of `ChromePool`, whose actions the handlers call
through `Pool == INSTANCE ChromePool`. Before the pool exists they have the value
`NewPool` gives them, except that there is no browser and no directory;
`PoolInUse` hides that difference, so that `ImplementsPool` says: the
handlers, seen from the pool, are workers of `ChromePool`.

### TokenReload

The table maps each key to its row, to `NoRow`, or to `BadRow`: a scope that is JSON
but cannot be unmarshalled into a map of booleans, which the column allows.
`LoadTokens` is one snapshot (a single `SELECT`); what it returned waits in `loaded`
until `Replace`, while `Edit` goes on. Anything that makes `LoadOnce` return an error
is `LoadFails`. One goroutine loads at a time: `main` finishes the first `LoadOnce`
before it starts the ticker, and the ticker's goroutine calls it in sequence.
`cacheAt`, `loadedAt` and `past` are history, used by the properties only.

### ExtAuthz

A worker is a goroutine that serves a request of the gateway; `stage` names the
middleware it is in. `OptionalAPIKeyAuth` looks into the token cache up to three
times (`Ready`, `Validate`, `HasScope`) and `TokenRateLimit` once more (`RateLimit`), each time
under the read lock and each time in whatever map is there by then. So each look is
an action, and the actions of `TokenReload` (`Store == INSTANCE TokenReload`) happen in
between. `during` collects, as history, the caches in use while the request was under
way: the properties compare answers with what those tables would say.

A row says what its columns `rate_limit` and `scope` say: a limit and whether the
scope `ops` is there. A header is a key with or without white space
around it: the validator trims the copy it gets, keyauth stores the
key as it came, and `RateLimit` is asked for that one. `Padding` says which headers
reach the handlers: Envoy and fasthttp remove plain blanks
themselves, but not all that `strings.TrimSpace` removes, such as a non-breaking
space. A key that reaches them with white space has no limit, since `RateLimit` does not
find it. `AsUser` marks a request counted by the user limiter. Whether a
limiter lets a request through is a choice here; the counters are in `RateLimit`. The
health check, which comes before the middlewares and reads no state, is left out.

### RateLimit

`handlers` is `LimiterCache.handlers`. `GetOrCreate` looks under the read lock, makes a
limiter with no lock held and stores it under the write lock without looking again:
these are `TokenEnterHit`, or `TokenEnterMiss` and `StoreLimiter`. A limiter is known by its
`Max` and by the request that made it, which keeps two limiters of one limit apart. No
request makes two of one limit, since by its second look the first is stored. The one user limiter is made at start-up.

The limiter itself is the library's sliding window. What the model takes of it is what
the code relies on: a mutex per limiter, a storage with get and set, and one hit more for
every request, refused ones included. Hits of the previous window count in part, and
the part is a choice. A new window may begin at any `Get`, and must at `MaxHits` hits, the bound
of the model. `passed` and `countedBy` are history: who was let through in this window, and by which
limiter the key was ever counted.

### HitCounters (abstract)

What a limit means to a client: one sliding window each, in which a request is counted and
decided in one step. It knows neither storage nor mutex. `RateLimit` implements it for users: the
hits of a user are what the storage holds, or what the request between its get and its
set has read (`Entry`), so that a request counts when it writes back. For keys
this would be wrong, since several limiters may count one key (finding 3).

### PdfParams, PdfCache

`PdfParams` has no state. `Status` is the answer of both validations, in the order of their
checks; `Params` and `Paper` are the parameters and the layout that are made of the fields; `Key`
is `computePDFCacheKey`, whose hash is modelled as the sequence of what is written into it. The text
is a sequence of words of which formats and orientations are some, so that text and fields can run
into each other as they do in the code. Margins are integers (thousandths of an inch), rounded to
hundredths as `FormatFloat` does, and `NaN`, which passes validation.

`PdfCache` adds Redis and time: a request is validated, looked up, waits for its tab, renders,
gives the tab back, stores and answers. An entry knows the PDF, whose page was fetched at a time, and the end of its
life; `printed` and `stored` are history. `Tick` drops what is too old and does not pass the deadline of a render that
prints (`chromedp` stops printing when its context ends). Nothing else on the way is bounded in time. Between printing and
storing, `Release` waits for the tab to close and for `p.mu`, which a `Restart` may hold (pdf.go:177), or, without a pool, Chrome is
shut down and its profile removed (pdf.go:380-404), all without a deadline. The `Set` has a context of a second
(pdf.go:361), but a command that Redis has received takes effect even if nobody waits for it any more.
That two requests for one key render at once and store in either order is not prevented by the
code nor by the model. The pool is left out, since `Renderer` has it: `Fail` and `Again` stand for
what it may do to a request.

### RenderReady

One render in a tab: `Load` (which makes the `deadline` of `waitForRenderReady`), the polls
(`Look`, then `Seen` or `NotSeen` and `Sleep`), `GiveUp` when all is seen or the deadline is
over, `Printed`. Only calls to Chrome notice that the context has ended; `time.Sleep`
does not. The page is free: in `PageChanges` conditions come and go at any time. `ready` is
what holds now, `lost` (history) what was seen and went again.

A page that never gets ready under a timeout of 15 seconds or less times out rather than being
printed, and a timeout counts as an interrupted session: `renderPDF` then restarts the browser.

### RendererProcess

It extends `Renderer` by the process around it. `main` and `startServer` are `Start`,
`Listen` (whose failure is logged only: the process goes on without a listener), `Notify` and `Signal`;
between `Listen` and `Notify` requests are served while a signal kills. `ShutdownWithContext` closes the
listener and waits: `DrainedExit` when nothing is under way any more, `ForcedExit` after five
seconds. `Crash` is any other end. `Exit` counts, as history, the requests under way
(`cutOff`) and the directories that nobody will remove any more (`orphans`), and puts memory back to what it
was; Redis stays as it is.

### MC modules

`MCChromePool`, `MCRenderer`, `MCTokenReload`, `MCExtAuthz`, `MCRateLimit`, `MCPdfCache`,
`MCRenderReady` and `MCRendererProcess` extend the modules and define rows of the table, forms,
paper sizes and, for `MCPdfCache`, a symmetry set.

## 4. Runs

| Run | Instance | Properties | What it shows |
|---|---|---|---|
| `chrome_pool` | 3 workers, 2 tokens, 3 restarts | `CapacityConserved`, `OneLiveBrowser`, `LiveBrowserHasProfile`, `NoProfileLeak`, `NoStartAfterClose`, `ImplementsSlots`, `CallsReturn`, `CloseCompletes` | tokens, browser and directories stay consistent in every interleaving of all four methods; no call gets stuck; a closed pool comes down |
| `renderer` | 2 workers, 1 token or no pool, 2 documents of which one is too large, 2 requests | `SinglePool`, `OneRestartPerRequest`, `RetryAvoidsFailedBrowser`, `AnsweredMeansReleased`, `CacheHoldsGoodPDFs`, `ImplementsPool`, `EveryRequestAnswered` | the handlers make one pool, use it correctly while they break it under each other, and answer every request |
| `restart_without_breakage` | 2 workers, 1 token | `RestartOnlyOnBreakage` (violated) | finding 1 |
| `pdf_cache` | 2 requests at a time of 10 kinds, lifetime configured as 0, a render and a lifetime of one tick each, 2 ticks | `TypeOK`, `CacheIsFresh`, `ServedAsAsked`, `ServedTextIsClose` | how old a PDF in the cache can be, and that only its own request can make it older; a copy is laid out as it was asked for; its text is the one asked for but for the name of a layout |
| `cached_copy_of_another` | the same, with two documents | `CachedCopyIsOfTheRequest` (violated) | finding 4 |
| `render_ready` | wait 4, poll 2, timeouts 3 and 8 | `TypeOK`, `PrintedWhenReady`, `EndsInTime`, `NotReadyIsNoTimeout` | what is printed unready, and what times out, is only what the code accepts |
| `renderer_process` | 2 lives of the process, 2 workers, 1 token or no pool, 2 requests | `ProcessTypeOK`, `LeftOnDisk`, `SignalEndsProcess` | an exit at any point of any request leaves few directories; a signal ends the process |
| `token_reload` | 2 keys, 2 entries, 3 edits | `CacheIsSnapshot`, `CacheNeverGoesBack`, `RevocationTakesEffect` | one whole table at a time, never an older one; revocation works while loads succeed |
| `ext_authz` | 1 request at a time, 1 key, 3 kinds of row, 2 edits, keys with and without white space | `TypeOK`, `AnswerIsJustified`, `CountedAsDue`, `UncountedForAReason`, `AnswersComeFromTheTable`, `RevokedKeysAreRefused` | reloads in the middle of a request do not make an answer that no table would justify, nor one that Postgres never gave; who is not counted is known; revocation reaches the gateway |
| `revoked_key_uncounted` | 1 key, 1 edit | `LimitedKeysAreCounted` (violated) | finding 2 |
| `rate_limit` | 2 requests at a time, 1 key, 1 user, limits 1 and 2, `user_limit` 1, 2 hits | `TypeOK`, `OneLimiterKeepsTheLimit`, `LimiterSettles`, `UsersAreCountedAtOnce`, `RequestsAreDecided` | the limits hold where one limiter counts, the user limiter is as good as an atomic one, a race for a limiter only comes to its end, and limiters always answer |
| `two_limiters_one_counter` | 2 requests at a time, limit 1 | `ExceededMeans429` (violated) | finding 3 |

The passing runs have up to 1,361,000 distinct states (`pdf_cache` the most,
`renderer_process` 344,000, `rate_limit` 255,000, `ext_authz` 143,000).

**Bounds.** `MaxRestarts` bounds `restarts` in the guard of `RestartBegin`: three
restarts let one begin while another still removes its directory and a closer comes
in between. In `Renderer` the requests bound the restarts (this is
`OneRestartPerRequest`), and `MaxRestarts` is set above `MaxRequests`, so the bound never
stops a handler. `MaxRequests` bounds `Receive`; statistics requests are not
bounded. There are more workers than tokens in every run, so that some wait: with one token
one worker renders while the other waits or restarts, and two requests with two attempts each fail each
other. What more of them could do is covered by the theorems of `RendererProofs`. `MaxEdits` bounds the edits of the
table: two edits are enough for a half-old table, the third changes a key back.
Requests in `ExtAuthz` share nothing but the cache, which they only
read, so one at a time shows what reloads can do to it; the first table is any, so that two edits let a request
meet three tables, and an edited row can change kind, vanish or come back. In `RateLimit` two requests meet on one key:
two limits let a key change its limiter, and `MaxHits` reaches the
larger limit, so that refusals happen; hits beyond it begin a new window.
In `PdfCache` the lifetime is configured
as 0, the case the code treats specially, and a render and the lifetime that replaces 0 take one tick each. `MaxTime` of 2 lets
a request print and wait for its tab to be released while another one fetches, prints and stores, so that the older PDF
overwrites the newer one, and lets entries end; entries of both kinds reach the bound of `CacheIsFresh` exactly. The 10
forms are URLs that share a key with different texts (a URL that ends in the name of a format, and the one without it
in that format), margins on both sides of a rounding, a margin `NaN`, and requests that are refused for each kind of reason. In `RenderReady` the times are scaled (a wait of two polls, one timeout
before and one after it); time is bounded by the timeout. `MaxRuns` in `RendererProcess` is two lives, so that one begins
with what another has left; requests are bounded over all of them.
The proofs hold for every value of these bounds. Workers are interchangeable, which `WorkerSymmetry` uses in
the runs of `PdfCache`, where no liveness is checked.

**Fairness.** `ChromePool`: `WF(Finish(w))`, since the `select` in `Acquire` ends with
its context, callers must release their tab, and calls to the file system and to
chromedp return; `SF(ReleaseCheck(w))`, since it waits for a `sync.Mutex` that others may take
again and again, and Go's mutex switches to handing itself over to a waiter that has waited
for a millisecond. No fairness for starting a call. `Renderer`: `WF(Handle(w))`, since
every render and every Redis call is bounded by a timeout, and `SF(Lock(w))` for
the steps that wait for `poolMu` or `p.mu`. No fairness for requests and expiry.
`TokenReload`: the ticker never stops, so `WF(Replace)`, and `SF(LoadTokens)`: Postgres may be
down again and again, but not for good. `RevocationTakesEffect` assumes in
addition that the table ends up without bad rows. `ExtAuthz`: `WF(Handle(w))`, since the
middlewares take locks only for an instant, and the fairness of `TokenReload`.
`RendererProcess`: `WF(ForcedExit)`
alone, since the timer of the shutdown ends whatever requests do; nothing is assumed of requests.
`PdfCache` and `RenderReady` check safety only.
`RateLimit`: `WF(Pass(w))`, since calls to the storage return, and `SF(Get(w))`, which waits for
the mutex of its limiter.

What a run leaves to another: `TypeOK` of the pool and of the handlers are parts of `ProcessTypeOK`, and that of the
token store is part of `TypeOK` of `ExtAuthz`, so that they are checked where everything is composed. Some properties are
proved and in no run, because a run checks what implies them or what they are for: `UserLimitHolds` follows from
`UsersAreCountedAtOnce`, and that no mutex is left locked (`LockHasHolder`, `LocksHaveHolders`) is needed for
`CallsReturn`, `EveryRequestAnswered` and `RequestsAreDecided`. Deadlock is checked in every run but
`renderer_process`, which stops after `MaxRuns` lives.

## 5. Proofs

TLAPS checks, for every `Worker`, `ChromePoolSize > 0` and `MaxRestarts`
(`PoolAssumption`: the workers are finite, `None` is none of them and no number):

- `ChromePoolProofs`: `TypeCorrect`, `CapacityIsConserved`, `OneBrowserLives`,
  `ProfileOutlivesBrowser`, `ProfilesAreRemoved`, `ClosedForGood`, `LockIsReleased` and
  `PoolImplementsSlots` (the pool refines `RenderSlots`).

None of the properties is inductive alone. That the clean-up outside the mutex
removes no directory in use depends on which directory the worker remembered. So `IInv` adds
`RestartIsExclusive` (who is between cancel and install holds the mutex, remembers the
current directory, and no browser lives), `CloseIsLast` (a closed pool has no restart under
way, and who closes remembers the current directory) and `CleaningIsSafe` (a directory being
removed is an old one and belongs to no live browser). Even `TypeOK` needs the last one,
for `RemoveProfile` copies what was remembered. Capacity rests on a lemma on the
cardinality of `Holders`: each step moves at most one worker in or out. The refinement maps `asked`
to the workers in `select` and `admitted` to the holders of a token; `Ask`
needs `closed = FALSE`, which is why a worker that passed the check
before `Close` may still be admitted and one that comes later may not.

- `TokenReloadProofs`, for every `Token`, `Entry` and `MaxEdits` (`TokenAssumption`: the
  marks are none of the entries): `TypeCorrect`, `SnapshotInUse`, `NoStepBack`. The
  invariant adds that the table in flight is a snapshot too, that it is not older than
  the cache and not newer than the table.

- `RateLimitProofs`, for every `Worker`, `Token`, `User`, `Limit` and `UserLimit`
  (`RateLimitAssumption`: keys and users differ, limits are positive; `MarkAssumption`: `None` and
  `Several` are no limiters): `TypeCorrect`, `LimitKeptByOneLimiter`, `UserLimitKept`,
  `LimitersSettle`, `LocksAreReleased`, `UserLimiterIsAtomic`. That a limit holds compares the requests let through with the
  entry in the storage, or, while a request is between get and set, with the entry it has
  read. The invariant says both (`InEntry`), and that at most one request of a limiter is
  between get and set, holding its mutex and having claimed the key (`Exclusive`).
  `UnderWay` and `Claimed` tie users to their one limiter. `UserLimiterIsAtomic` is the refinement of `HitCounters`:
  as at most one request counts a user, the mapped entry has one value (`EntryValue`), a get leaves it as it is or begins a new
  window, and a set is the hit of the abstract counter, let through or refused as it would be there.

- `RendererProofs`, for every finite `Worker` and every `Document`, `Oversize`, `ChromePoolSize > 0`,
  `MaxRestarts` and `MaxRequests` (`RendererAssumption`): `TypeCorrect`, `OnePoolIsMade`, `CachedPDFsAreGood`,
  `PoolIsUsedAsAllowed` (the handlers implement callers of `ChromePool`), `AnsweredRequestsHoldNothing`,
  `RetriesAvoidFailedBrowser`, `RestartsAreBounded`, `NoCircularWait`.

The argument has three layers. `ServiceInv` is what the handlers ensure on their own: who is creating the
pool holds `poolMu` and there is none yet, and a request is in a method of the pool only while it
renders. This is enough for each step to be one of `ChromePool` or none (`PoolStep`), so that the theorems of
`ChromePoolProofs` hold of the pool in use, which an instance of that module provides (`PoolFacts`). What
handlers and pool ensure together rests on both (`BothInv`): that an idle service has all its tokens is
`ServiceInv` and the capacity of the pool. `MemoryInv` says what a request may remember of a
browser: one that is not newer than the current one and, once its restart has begun, one that is dead.
`RestartsInv` counts the requests that may still restart the browser together with
the restarts there were: no step increases the sum but the arrival of a request. `NoCircularWait` needs both layers:
`poolMu` belongs to a request that is making the pool, and while there is none nobody can be in `Restart`, whose
caller renders in the pool and so holds `p.mu` alone.

- `RendererProcessProofs`, in addition for every `MaxRuns`: `ProcessTypeCorrect`, `FewDirectoriesAreLeft`,
  `PromisesSurviveProcesses` (every invariant of the run `renderer`, now over any number of starts, shutdowns and crashes).
  The end of a process leads from any state to one like the initial state, so that `BothInv` holds
  from life to life. `FewLeft` counts what is on disk when a process ends: by `NoProfileLeak` of the pool, the
  current directory and one for each request in its clean-up; and the requests in a clean-up and those
  with a profile of their own are different ones, all of them under way.

- `ExtAuthzProofs`, for every `Token`, `Entry`, `MaxEdits` and number of requests (`ExtAuthzAssumption`): `TypeCorrect`,
  `AnswersAreJustified`, `RequestsAreCountedAsDue`, `UncountedHaveReason`, `StoreIsTokenReload`,
  `AnswersAreFromTheTable`. No single look at the cache justifies an answer.
  `RequestInv` says what is known after each: the table in use is one of the request's time, and a request that
  passed the validator was authorized by one of these, though perhaps by none that is still in use. `ReasonInv` carries the reason why a
  request is not counted from the look of `TokenRateLimit` to its answer; it holds because what a request has seen only grows and
  a cache that was loaded stays loaded. `StoreIsTokenReload` shows that the store under the requests implements
  `TokenReload`: an instance of `TokenReloadProofs` (`StoreFacts`) says that the cache is a version of the
  table, and `SeenInv` that so is all that a request has seen, which makes `AnswersAreFromTheTable` of `AnswersAreJustified`.

- `PdfCacheProofs`, for every `PaperSizes`, lifetime, timeout and set of forms (`ParamsAssumption`,
  `CacheAssumption`: formats and orientations are different words, `None`, `Empty` and `NaN` are
  none of the values they stand beside): `TypeCorrect`, `CacheStaysFresh`, `CopiesHaveTheLayout`, `CopiesAreClose` and `KeyDeterminesLayout`. The age of a
  PDF adds up over the steps of its request (`AgeInv`): it was printed within the timeout of its render, and lives for one
  lifetime after it was stored. What lies between is in the bound of `CacheIsFresh` as it was (`Delay`), since the code puts no limit to it. That a copy has the layout asked for needs
  that a key can be read in one way behind a given text: formats, orientations and margins
  differ, so that fields that are left out cannot be mistaken for others. Of different texts it says nothing; this is
  `TextsOfOneKey`: two keys are equal only if the margins are and what precedes them reads the same, so that the longer text is the
  shorter one and the beginning of the names behind it (`CommonBeginning`, `BeginningOfNames`). `CopiesAreClose` is what
  follows for the requests.

- `RenderReadyProofs`, for every `Wait`, `Poll > 0` and `Timeouts` (`ReadyAssumption`): `TypeCorrect`,
  `PrintsWhatIsReady`, `RenderEndsInTime`, `WaitingIsBounded`. `SleepInv` says that each sleep follows a look before the
  deadline, and so how much can have been slept in all.

Only model-checked: liveness under fairness (`CallsReturn`, `CloseCompletes`,
`EveryRequestAnswered`, `RevocationTakesEffect`, `RevokedKeysAreRefused`, `RequestsAreDecided`,
`SignalEndsProcess`), which the prover does not handle, and the violated properties. Every
invariant and every action property of the passing runs is proved. No module uses `RECURSIVE`.

## 6. Findings

1. `RestartOnlyOnBreakage`. `IsSessionInterrupted` (pool.go:319-345) is documented as a conservative
   detector of broken sessions, but takes every `DeadlineExceeded` for one, and `Acquire`
   returns exactly that after five seconds without a free tab. Under load, a
   request that merely waited restarts a healthy browser and cancels the renders it was waiting for. The
   trace: one request renders, the other times out in `Acquire` and begins a restart.
2. `LimitedKeysAreCounted`. `TokenRateLimit` asks the cache for the limit of a key that was validated
   before. If a reload removed the key in between, `Cache.RateLimit` answers 0 (cache.go:44), which means
   unlimited (rate_limit.go:85), and since the request has a key, it is not counted as a user either.
   `UncountedForAReason`, proved for any tables, says that there is no other way around a limit but white space
   around the key and the limit 0.
3. `ExceededMeans429`. `GetOrCreate` may make two limiters for one limit (rate_limit.go:38-69). Each
   has its own mutex but both have one storage, so one overwrites the hit the other has counted, and two
   requests pass under a limit of 1. `LimiterSettles` shows how far this goes
   for one limit: once `LimiterCache` has a limiter nobody begins to make another, after the last one is stored it is the limiter for good,
   and the requests that go through another become no more; `RequestsAreDecided` shows that these are answered, after
   which all requests of the limit meet at one mutex. Until then hits can be lost, also after the last limiter was
   stored. Limiters of different limits never exclude each other, so a key whose limit is changed by a reload can lose hits again.
4. `CachedCopyIsOfTheRequest`. `computePDFCacheKey` (pdf.go:322-336) writes the text, the format and the orientation
   into the hash with nothing between them. A text that ends in the name of a format has the key of
   the text without it in that format, and one is answered with the PDF of the other.
   `ServedAsAsked` shows what the key does ensure: for one text, the layout. `ServedTextIsClose` shows how far a copy can be
   wrong: by the name of a format, of an orientation or of both at the end of the text, and by nothing else. (That HTML may
   also read like the URL of a page is not a difference in text.)

One thing to know that no text of the repository contradicts: one row whose scope cannot be decoded makes
`LoadTokens` fail as a whole, and the cache stays as it is, deleted keys included, until somebody mends the
row. `RevocationTakesEffect` therefore assumes that there are no such rows in the end.

## 7. Not modelled

Chromium, chromedp, fiber and Redis are external; their outcomes are choices of the model. That chromedp may tie
a browser to the context of its first `Run`, which the warm-up in `NewPool` ends, and that a new browser is not
warmed up after a restart, are two of the ways in which a render may fail. Logging,
formatting of answers, Chromium flags, docs UI, examples, deployment and scripts carry no
state of the system; neither do the middlewares of the renderer (CORS, request IDs, health check), and the
configuration is read once. Prefork makes several processes as in `RendererProcess` that share nothing but Redis and
the disk. The models have one of them, so an entry that another process has stored appears in none, although it
would be one that this process could have stored itself. A rate limit below zero, for which the
library has a default, and a counter storage that fails are left to the library. That `NaN` passes for a margin is in
`PdfParams`; what Chrome is sent cannot be encoded, so such a render fails. `Acquire` reads
`browserCtx` without the mutex while `Restart` writes it, which is a data race in Go: the model lets the reader
see the old or the new browser. `RendererProcess` does not model the time of a shutdown, only that it ends.
