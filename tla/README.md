# Verification of the GTM waterfall enrichment backend

TLA+ models of `src/backend/src`, their TLC configurations and TLAPS proofs.
File names below are relative to `src/backend/src` unless they begin with
`src/`. `PROJECT.json` holds the same facts in machine-readable form: which lines
each definition translates, which properties each run checks, and for each
property a plausible slip in the code ("Altered" definitions in the modules)
that the run detects.

    tlc -workers 2 -config MCWaterfall_overlap.cfg MCWaterfall
    tlapm WaterfallProofs.tla

## 1. Inventory

The backend is a FastAPI application. Every request gets a SQLAlchemy
`AsyncSession` of its own; nothing but PostgreSQL and (if configured) a cache
server is shared by the requests, which run in several worker processes.

| Component | State it keeps | Operations | Correct when |
|---|---|---|---|
| Waterfall enrichment (`modules/contacts/service.py`, `services/enrichment/waterfall.py`) | rows of `contacts` and `enrichment_jobs`; in the session: the loaded row, the changed row, pending jobs | `POST /contacts/{id}/enrich` | contact and log agree; the log of a run is all or nothing; cheapest provider first and nobody after a hit; every request ends |
| Contact scoring (`modules/contacts/service.py`) | `contacts.icp_score` | `POST /contacts/{id}/score` | touches only the score |
| ICP scoring (`services/scoring/icp.py`) | none; reads `icp_configs` | `score`, `get_active_config` | the share of the configured weights in 0-100; an unconfigured criterion is neutral; matching more never scores less |
| Providers and registry (`services/providers`) | none | `enrich`, `get_provider` | each failure is a miss or an exception, never a false hit |
| Bulk import and companies (`modules/contacts/service.py`, `modules/companies/service.py`) | rows of `companies` and `contacts`, one session for a whole file | `POST /contacts/bulk` | rows of one domain share a company; the report is true; bad rows harm no good ones |
| Contact reads | none | `GET /contacts/{id}` | - |
| Response cache (`infrastructure/cache/decorator.py`) | entries of GET responses in Redis or Memcached | `@cache` on GET and mutating routes | an entry older than a finished mutation does not outlive it, or at least not its TTL |
| Cache provider and backends (`infrastructure/cache/provider.py`, `backends`) | per process: registered backends, the default one, their clients; shared: the server's entries | `register_backend`, `get`, `set`, `delete`, `delete_pattern`, `exists`, `clear`, `ping_all` | whichever server is behind it, callers see what the `CacheBackend` interface promises |
| Database session and pool (`infrastructure/database/session.py`) | bounded connection pool; the schema | `async_session`, `create_tables` | nobody waits for a connection for ever; the schema appears whole and before anybody is served |
| Error mapping (`modules/common`) | none | exception to status code and support id | every outcome of a route gets a status, and nothing of the exception leaks past the last layer |
| Application lifecycle (`infrastructure/app_factory.py`, `cache/initialize.py`) | what each worker has started | lifespan start and stop, `create_application` | what was started is stopped, also after a failed start; every worker serves again |
| HTTP middleware (`infrastructure/middleware.py`) | none | headers of an answer | every answer has the headers the deployment asks for, errors too |
| Logging (`infrastructure/logging`) | per process: the configured flag and its lock, handlers, levels, filters; per context: the correlation id | `get_logger` and its variants, `reconfigure_logger_level`, `configure_testing_logging`, ids | configured once and whole before anybody logs; a level stays as it was asked for; a record carries the id of its context |
| Settings (`infrastructure/config`) | environment, read once | - | - |
| CRM sync, task queue, migrations and scripts | - | not reached by the running program | - |

How they interact: the contact service calls the waterfall service three times
in one request (EMAIL, PHONE, COMPANY); the waterfall asks the registry for a
client per configured row and adds an `EnrichmentJob` to the same session; the
contact service commits once. Scoring reads the company and the active profile
and commits the same `contacts` row. The import creates the rows both work on.
Around all of them each worker process runs the lifespan of `app_factory.py`: it
creates the tables in the shared database, registers one cache backend with the
provider of the process, serves through a stack of middleware, and closes the
backend's client at the end. All workers use the same cache server. Modules ask for their
logger while they are imported, possibly in several threads; the first one configures logging.

What is hard about it:

- **Stale copies.** A request keeps the row it loaded across up to three
  waterfalls of ten-second provider calls, and writes back what it changed,
  column by column, while others commit to the same row.
- **A lock nobody asked for.** The query for the PHONE configuration autoflushes
  the EMAIL result, so the row is locked across the remaining provider calls.
- **One transaction, many paid calls.** Any exception rolls back the log of
  calls that were already made and paid for.
- **A session that stays broken** after a failed flush, inside a loop that is
  meant to tolerate bad rows.
- **Check-then-insert** of companies by concurrent imports.
- **Read, then store; commit, then delete** in the cache, with paged `SCAN`,
  failures and crashes between any two calls.
- **Look up, then create, in every worker**: `create_tables` runs in all processes
  at once, and the slower one's start fails.
- **Two servers with different ideas** of None, patterns and expirations behind one
  interface, with a codec that forgets types.
- **Layers inside layers**: whether an unforeseen error gets the headers depends on the
  order of calls in two files.
- **Double-checked locking** in the configuration of logging, with a file that may
  fail to open in the middle.

`PROJECT.json` "hazards" lists each of these at its line, with the properties
that watch it or the reason why none does.

## 2. Modules and the code

| Module | Models |
|---|---|
| `Providers` | the outcomes (hit, miss, exception) a client call may have for a field and a contact, in mock and live mode |
| `WaterfallEnrichment` | enrich and score requests on shared contacts: state machine |
| `EnrichmentLedger` | abstract specification: a run takes effect once, at once, on its own contact, or not at all |
| `WaterfallProperties` | invariants, action properties, liveness, the refinement, and documented claims that fail |
| `WaterfallProofs` | TLAPS proofs: types, evidence, the refinement of the ledger |
| `WaterfallAuditProofs` | TLAPS proofs: the log, the order of providers, row locks, columns |
| `ConnectionPool`, `ConnectionPoolProofs` | composes `WaterfallEnrichment` with the connection pool of each worker; its proofs |
| `ICPScoring`, `ICPScoringProofs` | score arithmetic, choice of the profile; its proofs |
| `BulkImport`, `BulkImportProofs` | CSV imports row by row, with company creation; its proofs |
| `ResponseCache`, `ResponseCacheProofs` | the cache decorator with one server; its proofs |
| `Application` | operators: which option decides, middleware layers, exceptions to answers, documentation pages |
| `Lifecycle` | start and stop of the workers of a deployment, `create_tables`, the provider's registrations: state machine |
| `CacheServer` | the cache server as the Redis and Memcached backends use it: operations |
| `Backend` | composes `Lifecycle`, `Application` and `CacheServer`: serving workers call the provider's functions |
| `SharedCache` | abstract specification: what the documents promise of a cache; `Backend` implements it for callers and connections of the kind section 2 names |
| `BackendProofs` | TLAPS proofs about the five above |
| `Logging`, `LoggingProofs` | configuration of logging, logger names, levels, correlation ids; its proofs |
| `MCWaterfall`, `MCICPScoring`, `MCBulkImport`, `MCResponseCache`, `MCConnectionPool`, `MCBackend`, `MCLogging` | the instances TLC runs |

### WaterfallEnrichment

`contacts`, `jobs`, `configs`, `icp` are the committed tables; `rowLock` is the
PostgreSQL row lock. Per request, `orig` and `row` are the loaded row and the
session's changed copy, `pending` the `EnrichmentJob`s added but not committed,
`plan` the configuration rows each `enrich_field` read, `todo` those not yet
tried, `returned` what the reply will list. `settled` (requests that committed)
and `attempted` (calls made, even of requests that were rolled back) are history.

| Action | Code |
|---|---|
| `LoadContact` | `db.get(Contact, id)`, 404 (service.py:107, 127) |
| `SelectConfigs` | the query for the enabled rows, with the autoflush of a changed contact (waterfall.py:32) |
| `ProviderHit`, `ProviderMiss`, `ProviderRaises` | one turn of the loop (waterfall.py:40-57), `_apply_result` included |
| `Exhausted` | the end of the loop: "failed" for EMAIL, the last job is returned (waterfall.py:59-65) |
| `ComputeScore` | active profile, 422 without one, score assigned (service.py:131-136) |
| `Commit`, `Respond` | commit (possibly with a lost acknowledgement), refresh and reply |
| `StatementFails`, `Crash` | a failing statement, the first `db.get` included; a dying worker. Both roll back |
| `ImportContact`, `EditConfig`, `EditIcp` | the environment: imports and an operator with database access |

Assumed of the ORM and the database, which are outside the repository: an UPDATE
sets only columns whose value differs from the loaded one; a query flushes first
(autoflush is on); an UPDATE waits for the row lock, which is held to the end of
the transaction; READ COMMITTED; closing a session without commit rolls back.

Abstracted: credits, error texts, phone and company payloads; of a contact the
email, status and score are kept, the columns that these handlers write.

### ConnectionPool

Extends `WaterfallProperties` and takes the statements of its handlers
(`LoadContact`, `Progress`, `StatementFails`) as they are. It adds `waiting` and `held`: which
requests wait for a connection and which have one. `Arrive` is the first statement's
request for a connection, `Checkout` the pool handing one out, to any waiter since a
newcomer may overtake. `Returned` gives it back when the transaction ends, and
`db.refresh` after the commit asks again. `PoolTimeout` is SQLAlchemy's `TimeoutError`.
`WorkerDies` ends all requests of a process and its pool together, which replaces the
per-request `Crash`. The pool's inside (pre-ping, recycling) is not modelled.

### BulkImport

One action per statement: the header check, the reader's passing over an empty line, the start of a row, the company
lookup, the company INSERT with its own commit, the contact INSERT with its
commit and refresh, the reply. A statement that fails leaves the session (`session`)
refusing everything until `rollback()`, which the code never calls. How it failed matters for
the reply: a failed flush expires the objects created so far, so that the reply
cannot be built and the request ends in a 500; after a failed query, refresh or COMMIT
they stay readable, until a later row's flush fails too. `spoilt` is the first row that
failed so. `ConnectionBreaks` comes at any statement, in a COMMIT with or without
effect, and in the refresh of a contact that is committed. Bad rows come in the two kinds the code
tells apart: refused before any statement ("nameless") and refused by the database ("overlong").
`csv.DictReader` passes over an "empty" line (`SkipEmptyLine`), so `at` is the line and `number`
what `enumerate` counts, the rows that the reader yields; it raises on a "broken" line (`ReadFails`)
or header (`Garbled`), which nobody catches: a 500 in the middle of the file.

### ICPScoring

Texts are sets of normalised values, weights whole numbers (the assumption
`ScoringAssumption` names it: nothing in the schema forbids a negative weight,
the defaults and tests use none), scores whole hundredths. `Rounded` rounds a tie to the even
digit, as Python rounds a float that shows the tie exactly (1/32); the float of another quotient may
lie on either side of its tie, which hundredths do not tell.

### ResponseCache

What a GET computes for a key is the vector of the versions of the resources it
depends on; a mutation makes the next version. Actions follow the decorator:
`BeginGet`, `GetCached`, `RunGet`, `StoreResult`; `RunMutation`, `DeleteKey` for
each key, `StartPattern` and `DeletePage` for the paged SCAN. `Expire`,
`HandlerFails`, `BackendFails` (before or after taking effect) and `Crash` come at
any point, `Misdeclared` (a placeholder without an argument, invalidations on a GET) where the decorator
formats what the route declares. `overtaken` is history: a delete passed a GET that was about to store.
An empty result is never a hit (`if cached_data:`), which version 0 stands for.
A key in `to_invalidate_extra` with a literal id is never deleted (`FormattedExtra`).
SCAN is modelled by its guarantee: it returns every key present from its start
to its end, and may or may not return the others. No route of this repository uses the
decorator yet; the model has arbitrary routes.

### Application, Lifecycle, CacheServer, Backend

A deployment is a record of the settings that decide something; all workers share one.
`Application` has no state: `AddOrder` is the order of the
`add_middleware` calls (`register_exception_handlers` makes the first), `AnswerTo` carries an
outcome of a route through the route's `except` branch (`HandlerStatus`), the exception handlers
(`Routed`) and each layer the deployment enables (`Wrapped`), innermost first.

| Action of `Lifecycle` | Code |
|---|---|
| `Boot`, `InitializeCache`, `CloseCache` | the lifespan (app_factory.py:44-64) with initialize.py |
| `CheckTable`, `StartCreating`, `CreateTable`, `CommitTables` | `create_all` in one transaction (session.py:129): first every table is looked up, then the missing ones are created |
| `TableExists`, `DatabaseFails` | `create_tables` raises, in a statement or in a COMMIT that may have taken effect; `close_cache` in the `finally` branch raises in turn, since no backend is registered; the process exits |
| `Stop`, `Die` | the supervisor's signal; a dying process, whose transaction is rolled back |

Of PostgreSQL it is assumed that DDL is transactional and that a CREATE TABLE waits for another open
transaction that has created the same name. `catalog` starts as any prefix of the
tables: none, an earlier release's, or all after a migration.

In `CacheServer` a value is its type and its characters; the server keeps characters,
and what comes back is what `json.loads` makes of them, or bytes (`Decode`). `Fate`
tells what an expiration does on each server. An operation that raises may have taken
effect (`Effect`). Entries expire, are evicted, or are lost with the server.

`Backend` is the composition: a worker that is serving calls a provider function
(`Set`, `Get`, `Delete`, `DeletePattern`, `ExistsKey`, `Clear`, `PingAll`) for the
default backend or a named one (`Through`); it gets `BackendNotFoundError`, a reply or
an error. Under the refinement mapping (`Readable`: what `get` would return for each key)
every step is one of `SharedCache` or a stutter. `SharedCache` is written from the documents, not from
the backends: any value comes back as it was set until it is dropped, replaced or forgotten; no connection
error is raised, `get` answers None and `exists` False instead (base.py:40-41, 54, 176); a pattern may be unsupported
and a backend unregistered. The backends keep this only under two conditions, which the refinement names. `Reliable`:
the server can be reached and connections do not break, as they raise otherwise. `WellUsed`: values are of
the types the codec keeps (`Faithful`: objects, numbers, bytes that are no JSON; not texts, which come back as
bytes or as whatever JSON they look like, nor Booleans), None is not one of them (`get` cannot tell it from a miss,
Memcached's `exists` says it is absent), and expirations last from a second to thirty days (0 is
refused by Redis and for ever to Memcached, a longer one is a past date to Memcached). Section 6 lists the
configurations that show what happens without each.

### Logging

Each caller is a thread with a context of its own. `Ask` reads the flag without the
lock, `Acquire` and `Recheck` are the second look with it; the configuration takes one action per
statement (`ClearHandlers`, `CreateHandlers`, `AddHandler`, `SetLevels`), since a
reader without the lock sees every state in between. `OpenFails` is a log file that
cannot be opened. `ReplaceForTests` is the fixture, which leaves the flag alone.
`asked` is history: levels asked for after the configuration. `FoundId` is the correlation filter with its three
sources, the context, an attribute of the thread and a request in a caller's frame; `IdOf` is the id
of a record, the filter's only where the filter sits (the root logger), the adapter's elsewhere. The last two
sources belong to whoever runs the code, so that they are parameters. Formatters are names; texts, rotation, child
loggers and merged extra fields are left out.

## 3. Runs

| Run | Instance | Shows |
|---|---|---|
| `waterfall_overlap` | 1 contact, 2 enrichments, 1 scoring, both providers live, 2 addresses, every failure | the safety properties, the row lock discipline and the refinement of `EnrichmentLedger` |
| `waterfall_edits` | 2 contacts, 2 enrichments, an operator who re-prioritises and disables Hunter at any time, every failure | `CheapestFirst` against the plan each run read; `EveryRequestEnds` |
| `pool` | 1 contact, 2 enrichments and 1 scoring on 2 workers with one connection each, timeouts, dying workers | no leak, no circular wait, every arrival ends, the ledger is implemented all the same |
| `import` | 2 imports of any two of 23 files of up to 3 rows and 5 lines, or a file refused as a whole; crashes, broken connections | companies are shared across files, a 200 is true but for at most one row, rows are independent until a statement fails, every import ends |
| `scoring` | 2 profiles over boundary values, boundary contacts | arithmetic against its reference properties |
| `cache_races` | 1 GET, 2 mutations, 2 resources, 5 keys, Redis, every failure | only one race leaves an old entry, and expiry repairs everything |
| `backend` | 2 workers, 2 tables, 5 deployments, one key, 6 values, 3 expirations, 2 mishaps, a server that fails | schema whole and there before serving, clients closed, answers pass every layer, every worker serves again |
| `cache_contract` | 2 workers with Redis or Memcached, 2 keys, 3 values of the types the codec keeps, the usual expirations, a reliable server, 1 mishap | `SharedCache` is implemented |
| `logging` | 2 threads, 3 deployments, 3 kinds of call, one failing file | configured once and whole, levels kept, the lock never left behind |
| `lost_attempts`, `import_bad_row`, `import_row_numbers` | minimal | section 6 |

Why the bounds are enough for the cases that matter. Two enrichments and a scoring
of one contact are the smallest set in which a column written by one request is
stale in two others of different kinds; two addresses and a hit or miss of each
provider make the runs disagree. Two providers at distinct or, after an edit,
equal priority give the order something to get wrong; `MaxPriority = 2` bounds
`priority_order`. One connection per worker is the tightest pool: any two requests
of a worker compete for it while a third, on the other worker, holds the row lock. A file of three rows has a row before, at and after a failing
one; two files race for one company, a second domain tells companies apart, and
a domain that is too long fails in the company INSERT. The files are the empty one, every
kind of row before a row without a domain, nine of three rows whose first two vary, four with empty lines
before, between and behind rows that fail or not, and three that the reader gives up in the middle; besides them a
file may be unreadable, or the reader raises on its header. Two pages of a pattern let a
SCAN stop half-way; two resources under one key let one mutation clear what the
other has changed, and the list that both change is named to one of them by a literal id. Two GETs with one mutation of one resource were also explored
while writing the model, with the same result; two GETs together with two
mutations of two resources exceed the time given to a run. Two workers and two tables let each worker be
overtaken before, between and after its CREATE TABLEs; `MaxMishaps = 2` lets a mishap hit each
worker, or one twice. The five deployments take every option to a value that differs from its
default and to none at all. `backend` has one cache key because
its invariants do not speak of keys; `cache_contract` has two, so that an operation on one could disturb the
other and a pattern take either. Two threads are enough for one to be at every
statement of the configuration while the other looks; `MaxFailures = 1` lets one attempt
fail before, during or after the other's.

`CHECK_DEADLOCK FALSE` is set where requests are finite in number and all end: the
system then rests. The scoring, backend and logging runs have no such end and check deadlock.

**Fairness.** `WaterfallEnrichment`: weak fairness of what the server does for a request
it has loaded (`Progress`), not of its arrival, nor of failures or crashes. It is
justified by the ten-second timeout of each provider call (hunter.py:55) and by
PostgreSQL serving lock waiters once the holder is gone. `ConnectionPool`: the same for a
request that has a connection, and each pool hands out a free connection while anybody
waits; not the pool's timeout. `BulkImport`: weak fairness of each
handler. `ResponseCache`: weak fairness of expiry alone, since `set` always
passes an expiration (redis.py:96); nothing is assumed of requests. `Lifecycle`: weak fairness
of what a process does by itself, including its start, which is the supervisor's
(uvicorn's, or the container platform's) job; mishaps are bounded, and nothing is
assumed of calls. `Logging`: weak fairness of each thread inside `get_logger`; the
lock is a `threading.Lock`, which promises no order, but every other thread takes it a finite number of times
before the configuration is made, so that a waiter's turn comes.

## 4. Proofs

All by TLAPS, for any number of requests, contacts, providers, addresses,
priorities, profiles, imports, files, routes, keys, workers, tables, deployments and threads,
from the named assumptions on the constants (below). Every invariant, every action
property and both refinements that the passing runs check are theorems.

| Theorem | Statement |
|---|---|
| `TypeCorrect` | `Spec => []TypeOK` of the waterfall |
| `SessionsAreSound` | `Spec => []StaleCopiesAreHarmless` |
| `EnrichedIsEvidenced` | `Spec => []EnrichedHasEvidence` |
| `LedgerIsImplemented` | `Spec => ImplementsLedger` (the ledger's `LSpec`) |
| `AuditsAreComplete`, `CheapestIsAskedFirst`, `FailedHasBeenTried`, `RepliesAreDurable` | `Spec => []` of `AuditIsComplete`, `CheapestFirst`, `FailedIsExhausted`, `ReplyIsDurable` |
| `LocksAreDisciplined` | `Spec => []LockDiscipline` |
| `ColumnsStayIndependent` | `Spec => ColumnsAreIndependent` |
| `PoolIsSound` | `PSpec => []PoolInv`, the inductive invariant of the pool |
| `PoolIsNeverOverdrawn` | `PSpec => []PoolTypeOK` |
| `NoConnectionLeaks`, `NoCircularWait` | `PSpec => []NothingLeaks`, `PSpec => []LockOwnersNeverWait` |
| `PooledEvidence`, `PooledLedger` | `PSpec => []EnrichedHasEvidence`, `PSpec => ImplementsLedger` |
| `ImportTypeCorrect`, `ImportResolvesCompanies` | `Spec => []TypeOK`, `Spec => []RowsResolveToTheirCompany` of the import |
| `RowsAreTolerated`, `ReportsAreTrue` | `Spec => []TolerantUntilSpoilt`, `Spec => []ReportIsTrue` |
| `ScoreIsBounded` | every score lies in 0-100 and is the percentage to half a hundredth |
| `ScoresArePercentages`, `IdleCriteriaAreNeutral`, `ScoresFollowMatches` | `Spec => []` of `ScoreIsThePercentage`, `UnconfiguredIsNeutral`, `MoreMatchesScoreNoLess` |
| `EntriesAreTyped`, `FinishedMutationsAreClean` | `Spec => []TypeOK`, `Spec => []NothingOlderIsLeft` of the response cache |
| `BackendIsTyped`, `ServedSchemaIsComplete`, `ClientsAreManaged`, `AnswersAreDressed` | `Spec => []` of `TypeOK`, `ServingHasSchema`, `ClientsFollowTheWorker`, `AnswersFollowTheDeployment` |
| `SchemaAppearsWhole` | `Spec => SchemaIsWhole` |
| `OneSharedCache` | if `Reliable` and `WellUsed`, `Spec => ImplementsSharedCache` (the contract's specification) |
| `LoggingIsTyped`, `LoggersAreConfigured`, `AskedLevelsStay` | `Spec => []` of `TypeOK`, `ReadyMeansConfigured`, `LevelsAreKept` |

**Evidence and the ledger.** `EnrichedHasEvidence` (an enriched contact carries an email some logged attempt
found) is not inductive: a commit writes columns that were computed from a row
loaded earlier, so nothing about the present row follows from it alone.
`StaleCopiesAreHarmless` adds, for every open session: since it was loaded the
email of the row has stayed as it was or has become an evidenced one; the session's
own copy is untouched, or failed with the loaded email, or enriched with an email its
pending jobs found; a score never vanishes; and what it has pending is its own.
Then each commit is a case analysis over the columns that are written: if the
email is written the pending jobs, now logged, are the evidence; if only the
status is, the row's present email is the loaded one, which the session found
again, or has evidence of its own. The log only grows, so evidence is never lost
(`FoundGrows`).
The refinement uses the same invariant: `Commit` is the ledger's `Enrich` or
`Score`, `ImportContact` its `Import`, and every other action leaves the ledger's
variables alone.

**The log.** `AuditIsComplete` speaks of finished runs; `AuditInv` says what a running one has
done so far (`Working`): for each field it is through with there is one hit or a miss of
every enabled provider, for the field under way every provider is still to try or has missed, and
whatever is pending is in order of priority. `Recorded` says the same of a committed run. Since an
operator may change the table at any time, order and completeness are those of the `plan` that the
run had read, which must not change once the run is in the log. `NextIsInOrder` is where `ORDER BY
priority_order` enters. All four properties of the log follow from `AuditInv`.

**Locks.** `LockInv` adds to `LockDiscipline` that an owner is an enrichment past the email field.
`ColumnsAreIndependent` follows step by step: a commit writes only what its session has changed.

**The pool.** `NothingLeaks` needs that nobody waits and holds at once, and
`LockOwnersNeverWait` that a row lock belongs to a request between the flush that
took it and the end of its transaction (`LocksOwned`). `StatementMoves` and
`StatementLocks` state once, for all statements of the handlers, how the position and the
locks may change; the pool's actions then need no look inside the handlers.
`PoolSteps` says that every step with the pool is a step of the waterfall or ends some requests
(`Ends`: a timeout one, a dying worker all it serves); such a step keeps `StaleCopiesAreHarmless`
(`EndsKeepSessions`), so evidence and ledger carry over to the composition.

**The import.** `RowsResolveToTheirCompany` speaks of stored contacts only; `ImportInv`
adds what an import knows before it stores one. `CompaniesSound` says that ids
and domains are one to one and that the next id is new, `Placed` that an
import about to insert has the company of its row, or none for an empty
cell, and `FiledRight` the same of each stored contact. Two imports that both
saw no company are kept apart by `Storable` alone, the unique constraint on
`companies.domain`. `EndOfRowIsSafe` and `MoveIsSafe` say once how a step that
ends a row, and one that does not, keep the invariant.
`ReportIsTrue` is about the end of an import only; `RowAccount` is its account of the rows it has
read so far: what is stored, created and reported, and that the session is usable exactly while no row
has spoilt it. `EndedRowIsAccounted` extends the account by one row, in whichever way the row ended; each action
then has only to say what became of its row. That a row whose INSERT is reached is
good needs that companies have storable domains and that nameless rows were refused before (`RowState`).
The numbers in the report are counted by the loop (`number`) and compared with the lines of the file (`RowNumber`):
`NumbersAdvance` takes one line of either kind. They are not
the sheet's numbers (`import_row_numbers`).
One contact to a row is counted through a bijection between contacts and rows (`OneContactToARow`).

**Scoring.** The rounding proof has to work around products of unknowns, which the SMT
backend does not decide: `DivisionBounds` states the two linear facts about `\div`
and the rest is linear (`RoundingBounds`, where a tie that goes down is
exactly half a hundredth off). `RoundingIsMonotone` carries the order through the rounding,
`ScoreFollowsTheShares` says that only what is configured and matched enters the score.

**The response cache.** A step of a request is `Calm` when it changes an entry only by removing it or by
storing what some GET carries, and lets a GET carry only what the database says now; it keeps
every finished mutation's account (`Accounted`): an entry under a key the mutation has cleared is no
older than it, nor is anything a GET is about to store there, save from a GET that its delete overtook.
A delete makes the account true for its key, a page for the keys on it. `CacheInv` adds what this rests
on: a mutation is never at a GET's statements (`Apart`; without it the type of the entries is not
inductive), and only GETs about to store, or past that, were overtaken.

**The backend.** `LifecycleInv` follows the transaction of `create_tables`: what a worker has looked up is
committed, made by it, or still in its list (`SchemaKnown`), so that a commit completes the schema, and a
worker past the creation has seen all of it committed; and it follows the client through start, service and stop (`ClientKnown`).
The refinement of `SharedCache` goes call by call (`CallsAreShared`): what `get` would return
for each key is the abstract store. `ReliableStaysUp`, `SetIsReadable` and `UsualFate` say where the two
conditions enter: no call raises for want of the server, what is set decodes to itself and is not taken for a miss,
and its expiration is neither refused nor past. That
every answer passes the enabled layers is a proof about operators: `RoutedIsAnswered`, then
`ErrorsAreCaught` for the innermost layer and `LayerDresses` for each further one.

**Logging.** `LoggingInv` is the double-checked lock: whoever configures has the lock and finds the
flag unset, and handlers made plus handlers to add are always those of the deployment (`Built`), so
the flag is set on a complete list. Levels asked for exist only behind the flag (`LevelsKnown`),
so that `SetLevels` cannot run over one.

**Assumptions.** `RequestsAssumption` and `ProvidersAssumption`: distinct kinds of requests, a registry of known
clients. `PoolAssumption`: each request has a worker, a pool has room for one connection.
`ImportAssumption`: an accepted file is a sequence of rows. `ScoringAssumption`: weights are whole numbers,
which the schema does not enforce. `CacheServerAssumption`: an object, a number or None is written by
`json.dumps` as characters that `json.loads` gives the same type. `LifecycleAssumption`: the tables are a
finite list. `LoggingAssumption`: the root logger and the fallback name are loggers. The others say that a value standing for "none" is
not a value. TLC evaluates all of them on the instances of section 3.

Each inductive invariant was checked by TLC on the run's instance before it was proved.

## 5. Checked only by TLC, and not modelled

Only model-checked: liveness (`EveryRequestEnds`, `EveryArrivalEnds`, `EveryImportEnds`,
`CacheSelfHeals`, `EveryWorkerServes`, `EveryCallIsAnswered`), because fairness and ENABLED are out of the
prover's reach; and that the documented claims of section 6 fail, which a counterexample shows.

Not modelled, and why:

- CRM sync: `sync_to_crm` is wired to no route, task or start-up code, so no
  behaviour of the program reaches it.
- Task queue: no task is defined and nothing enqueues one; the registry stays empty.
- Migrations and scripts: run by hand before a release; their effect is an initial state of `Lifecycle`.
- GET of a contact changes no state; `Application` covers what it is answered.
- Of logging: formatters, rotation, child loggers, the merging of extra fields. Of settings:
  URLs, sizes, texts. Of the OpenAPI metadata: everything but the paths.
- Credits, error texts, phone and company payloads of the waterfall.
- A command of the cache server that takes effect after the client has given up on it,
  and an operator who stops Redis for good.

## 6. Where code and documentation disagree

- `lost_attempts`: an exception in the middle of a waterfall rolls back attempts that were
  made; the docs say every attempt is logged.
- `import_bad_row`: a row the database refuses spoils the session; later rows
  fail and the request ends in a 500 although rows are stored.
- `import_row_numbers`: the csv reader passes over empty lines, so a row after one is reported
  under a smaller number than it has in the sheet, where comment and schema promise the sheet's.

Further documented claims that fail have a configuration of their own; TLC finds the
counterexample of each within seconds.

| Configuration | Claim | What the code does |
|---|---|---|
| `MCResponseCache_outage.cfg`, `CacheFailureIsHidden` | "falls through to the underlying handler" (`src/docs/user-guide/caching/index.md:117`) | `get` at decorator.py:90 is outside any `try`: a 500 before the handler, and another after it when a delete fails |
| `MCResponseCache_strict.cfg`, `WriteThroughIsStrict` | "strict consistency" for invalidation on write (`src/docs/user-guide/caching/cache-strategies.md:58-60`) | a GET that read before the commit stores after the delete |
| `MCResponseCache_literal_id.cfg`, `LiteralIdsAreInvalidated` | `to_invalidate_extra` with a literal id (`src/docs/user-guide/caching/redis-cache.md:126`) | an id that is neither an argument nor a placeholder is dropped (utils.py:97) |
| `MCBackend_unreachable.cfg`, `ConnectionErrorsAreHidden` | `get` returns None and `exists` False on a connection error (base.py:40-41, 176) | the client's exception passes through |
| `MCBackend_text.cfg`, `SetValueComesBack` | "any JSON-serializable type" (`src/docs/user-guide/caching/redis-cache.md:184`) | a text comes back as bytes, or as the JSON that it looks like |
| `MCBackend_expiration.cfg`, `SetValueIsStored` | an expiration in seconds, validated and limited (base.py:79, 85) | to Memcached more than thirty days is a date long past: `set` succeeds and stores nothing |
| `MCLogging_caller_name.cfg`, `DetectsTheCaller` | the name is that of the calling module (factory.py:29-30, 109-113) | `get_logger()` goes one frame too far: the logger is named after whoever imports the module, in practice `importlib._bootstrap` |
| `MCLogging_filter.cfg`, `FilteredRecordsCarryTheId` | child loggers inherit the filter of the root logger (config.py:223-225) | Python applies a logger's filters to what is logged through it alone, so that other loggers' records lack the id |

Also seen while modelling, without a configuration:

- Three overlapping enrichments: one commits a hit that does not show on the contact,
  since it loaded the row as enriched already and has no net change ("updates the contact on a
  hit", `src/README.md:77`). `ColumnsAreIndependent` and `EnrichedHasEvidence` bound the damage.
- Two faultless imports of one new company: the loser's INSERT fails and its later rows are
  lost; the `import` run explores it, `TolerantUntilSpoilt` says exactly which rows.
- `csv.Error` in the middle of a file ends the request in a 500 although rows are stored; that row too is
  "a reason to reject the whole file". `BadRowIsNoReasonToReject` leaves such files out (`Parseable`).
- `create_tables` "is idempotent" (session.py:106) for one process; of two that start at once one
  may fail. `EveryWorkerServes` relies on the supervisor.
- `configure_testing_logging` is undone by the first `get_logger` after it, since the flag stays
  unset.
- `/health` and error answers outside `/api/` may be cached publicly for `CLIENT_CACHE_MAX_AGE`.

## 7. Plan

Done: `Providers`, `WaterfallEnrichment`, `EnrichmentLedger`, `ConnectionPool`,
`BulkImport` with broken connections, `ICPScoring`, `ResponseCache`, `Lifecycle`, `Application`,
`CacheServer` and `Backend` with its abstract specification `SharedCache`, `Logging`, and the
proofs of section 4. Next:

1. An abstract specification of the import (a set of stored rows and a report) and the proof
   that `BulkImport` implements it.
2. Proofs under which conditions a documented claim of section 6 does hold: without exceptions every attempt
   is logged; without a failed statement no import ends in an error.
3. `set_default_backend` and several registered backends, once code uses them; `CRMSync`, once a
   route or a task reaches it.
