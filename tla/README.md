# A verification of the asset inventory service

The service keeps a multi-tenant inventory of attack-surface assets (domains,
addresses, certificates, ...) and typed relationships between them: a FastAPI
application with async SQLAlchemy sessions on PostgreSQL and a Redis cache for
asset graphs. This directory models what its requests do to each other: TLA+
modules translated from `src/app`, TLC configurations for small instances, and
TLAPS proofs of its invariants and of the refinement for instances of every size.

Contents: [inventory](#inventory), [modules](#modules), [abstractions](#abstractions),
[runs](#runs), [findings](#findings), [proofs](#proofs), [not modelled](#what-is-not-modelled),
[plan](#plan).

## Inventory

| component | state it keeps | operations |
|---|---|---|
| Tables and repositories (`models/`, `repositories/`, `alembic/`) | rows of `assets` and `relationships`, unique constraints `uq_asset_tenant_type_value` and `uq_relationship_details`, foreign keys with `ON DELETE CASCADE` | one statement per repository method: `get_by_id`, `create`, `update_status`, `delete_by_id`, `get_existing_by_type_value_pairs`, `get_existing_by_edge_tuples`, `get_adjacent`, paged listings |
| Sessions (`core/database.py`, `core/exceptions.py`) | one transaction and identity map per request | begin, flush, commit when the handler returns, rollback when it raises |
| Graph cache (`core/cache.py`) | `graph:{tenant}:{asset}` -> serialized graph, with a time to live | get, set, invalidate; every Redis error is swallowed |
| Asset operations (`services/asset_service.py`) | none of its own | create, get, list, update (merge), patch status, delete, graph |
| Relationship operations (`services/relationship_service.py`) | none of its own | create (verifies endpoints, looks for a duplicate, inserts, invalidates), list, delete |
| Import pipeline (`services/import_pipeline.py`) | locals of one call: loaded assets, temporary ids, counters | validate, normalize, look up, merge or create item by item, map and insert edges |
| Authentication (`api/v1/auth.py`, `core/security.py`, `api/deps.py`) | table `users` | register, login, resolve the tenant of a request |
| Configuration, migration, AI placeholder | settings; schema; nothing | read once; run before start; none |

The components meet in three places: the tables (through transactions that may
overlap), the Redis cache (shared by all requests, outside any transaction), and
the wall clock that `first_seen` and `last_seen` are read from. Handlers are
coroutines: between two `await`s on the database or on Redis a handler runs
alone, at an `await` every other request may run. With several worker processes
nothing changes, since handlers share no memory.

Hard behaviours, and what makes each component correct:

- **Check, then insert.** `create_asset`, `create_relationship`, `register` and both
  inserting stages of the import look a row up in one statement and insert it in another.
  No interleaving may leave two rows with one key (`NoDuplicateRows`,
  `OneAccountPerName`), and the loser should be answered with a 409: `register` does
  (`RegistrationIsTrue`), `create_asset` does not (`DuplicateIsConflict`).
- **One request, one effect.** Handlers are sequences of statements in a transaction
  that others overlap. Seen from outside, each takes its effect at once or not at all,
  and is refused for what is true at that moment (`ImplementsInventory`).
- **Tenant isolation of edges.** The schema's foreign keys do not know tenants.
  That each edge joins assets of its own tenant (`EdgesStayInTenant`) rests on checks
  several statements before the INSERT, against concurrent deletions.
- **Read, merge, flush.** PUT and import compute new column values from a row
  loaded earlier and flush only the attributes that changed: concurrent changes of
  other columns survive (`UpdateChangesOnlyItsColumns`), concurrent changes of the
  same column are overwritten (`NothingForgotten` fails when requests overlap).
- **Long transactions.** An import holds the locks of each item it flushed until it
  commits: it may deadlock with another import, cascades around a circle of relationships
  may deadlock, and an error or a lost connection in the middle must undo all of it
  (`ImportIsAtomic`, `EveryRequestAnswered`).
- **Cache ordering.** Invalidation happens before the commit, outside the transaction,
  and may fail silently (`NewEdgesAreServed`, `NoGraphStaysStale`, `GraphStaysInTenant`).
- **Graphs read in pieces.** The root, the relationships and each neighbour are separate
  statements that others commit between: no neighbour may be left out that is still there
  (`OnlyDeletedIsMissing`).
- **Batches.** Items of one import may be two spellings of one asset; links refer to
  items by temporary ids (`LinksAreWritten`, `CountersMatchTables`, `ImportIsIdempotent`,
  `OneAssetPerSpelling`).
- **Spelling.** What `_normalize` brings together must be one asset, and no more
  (`OneAsset`, `OnlySpellingIsLost`).
- **Pages.** A client reads a listing in several requests while its rows move
  (`NothingSkipped`, `NoOverlap`).
- **Commit and answer.** The commit is code after a `yield`: which of commit and response
  comes first depends on the version of FastAPI (`AnswerFirst`). Answers and tokens are
  true if the commit does (`RegistrationIsTrue`, `TokensAreHonoured`).

`PROJECT.json` lists every hazard at its line with the properties that cover it.

## Modules

```
Schema                      rows, payloads, the unique and tenant rules of the tables
  Store                     tables, constraints, locks, transactions
    Sessions                a request's life: begin, flush, commit, rollback
      AssetService          create / update / patch / delete of assets
      GraphCache            Redis: get, set, invalidate, expire, failures
        AssetGraph          get_graph, await by await
        RelationshipService create / delete of relationships
      ImportPipeline        the five stages; deadlocks of imports
        Api                 all of them composed; properties
          Listing           a client that reads page after page beside Api
  Inventory                 what the service promises: Api implements it
Normalization               _normalize on values
  Respelling                sources that spell one thing in many ways
Accounts                    register, login, tokens
MCApi, MCListing, MCAccounts, MCRespelling      instances for TLC
ApiProofs                   what every statement and every handler preserves; the invariants
                            of the tables
  HandlerProofs             the graph, the columns and times of assets, the links of an import
    InventoryProofs         the service implements Inventory
      PromiseProofs         what the tables promise under overlap; imports sent twice
        AloneProofs         what holds for requests served one at a time
  ListingProofs             the reader of pages
AccountsProofs              the accounts
RespellingProofs            the spellings, for values of any length
```

Each module extends the one it is indented under; `Api` extends all four services and
instantiates `Inventory`. `Accounts` stands alone: all it shares with the rest is the
tenant a token leads to, which is where a request of `Api` begins.

**Schema.** The rows of `assets` and `relationships`, the payloads the Pydantic schemas let
through, and the parameters of an instance.

**Store.** `assets` and `rels` are the committed rows by id (`Nil` never used,
`Deleted` used and gone); `wa[r]`, `wr[r]` are the writes of request `r` that are not
committed. `Asset(r, a)` is what a READ COMMITTED statement of `r` sees. One action
per writing statement (`InsertAsset`, `UpdateAsset`, `DeleteAsset`, `InsertRel`,
`DeleteRel`) with the constraint checks PostgreSQL makes before it returns, and
`CommitWrites`, `RollbackWrites`. A statement that must wait is disabled until the
`...Holders` set is empty: rows locked by an unfinished writer, keys being inserted or
deleted by another transaction, endpoints being deleted (the FOR KEY SHARE lock of the
foreign keys), edges that a cascade would remove.

**Sessions.** `pc[r]` names the `await` the handler of `r` stands at; `call`, `resp`,
`orm` (identity map), `now` are the request, its answer, the rows as loaded, and the
handler's `datetime.now()`. `Reply` leads to `Commit`, `Raise` rolls back, as `get_db`
does. `FlushAsset` writes the columns whose new value differs from the *loaded* one
over the *current* row, which is how the unit of work issues its UPDATE; a row that is
gone makes the flush raise (`FlushFails`). `Fail` is a connection lost at any await.

**GraphCache, AssetGraph, RelationshipService.** `cache[<<tenant, asset>>]` is the
stored graph. `get_graph` is five kinds of step: cache read, root read, relationships
read, one step per neighbour, cache write. `create_relationship` verifies the source,
verifies the target, looks for a duplicate, inserts, invalidates once per endpoint, and
only then replies and commits. With `"redis" \in Faults` each Redis command may fail
and is swallowed.

**ImportPipeline.** `imp[r]` holds the locals of `execute`: items left, temporary ids,
edges to write, counters. `LookupItems` is stages 1 to 3; `MergeItem` / `CreateItem`
one item of stage 4, in batch order; `MapEdges` the lookup of stage 5 and `InsertLink`
one row of its flush. `DeadlockAbort` is PostgreSQL's deadlock detector.

**Api.** `Next` interleaves arrivals, handler steps, deadlock breaking, lost
connections, the clock and cache expiry. Properties are stated here; `ApiInv` is the
inductive invariant.

**Inventory.** The abstract specification: two tables, and for each request the call it
asked and its answer. A request is asked, then in one step answered with its whole effect
(`Succeed`) or with a refusal and no effect (`Refuse`), whose reason, say "another asset
has the key", must hold in that step. `Api!Abstract` maps `asked` to `call` and `answer`
to the response once it can be acted upon; every await in between is a stutter. What the
inventory does not promise is deliberate: an update may merge with a row read earlier, an
import may fail with an `IntegrityError` or a `StaleDataError` for what others did, and
any request may end in an `OperationalError`.

**Listing.** `walk` is a client that asks for page after page until one is not full. A page
is any set of rows that an `ORDER BY last_seen DESC` with `OFFSET` and `LIMIT` may
return, ties in any order; relationships are listed with no order at all. The rest of
`walk` is history: which rows were there at the start, were touched since, or level with
another.

**Normalization.** Values are sequences over blank, dot, slash, colon, zero and a letter in two
cases; `Normalize` is `_normalize` after the strip of the schema, for every asset type. The
library functions `ipaddress.ip_address` and `str` of an address are the parameters `AddressOf`
and `TextOf`, of which `AddressAssumption` says that the text written for an address is read as
that address. `MCApi` takes the canonical keys of its instances (`Canon`) from it.

**Respelling.** `value` is how one thing in the world was reported last, `stored` the values
of the assets that the import made of it. `Init` is any value the schema accepts. `Respell`
reports it again with one change that means nothing (`Respellings`: a blank at an end, the case of
a letter, a dot behind a host name, another text of an address, blanks around the slash of a
service), `Reimport` sends back what an export of the inventory says. `MCRespelling` gives it the
IPv6 addresses that can be written in five characters, with the rules by which Python reads them
(groups of one to four digits, `::`) and writes them (no leading zeros, lower case, `::` for the
longest run).

**Accounts.** `users` is the table by tenant (each account has its own), `wu[r]` the row
`r` inserted and did not commit. `Register` looks the name up, `FlushUser` waits for
whoever inserts the same name and then inserts or fails, `Conflict` is the handler's own
rollback and 409. `Login` compares the name as typed; `Issue` puts the name of the account,
not the one typed, in the token. A client presents tokens that were sent (`Sent`); `Decode`
and `FindUser` are `get_current_user`.

Definitions marked `Mutant` in comments are plausible bugs of the definition beside
them; `PROJECT.json` says which property each of them breaks.

## Abstractions

- *One statement is one step*, including its lock waits: a disabled step is a statement
  that waits. The checks of a statement see the state in which it finally runs, as
  PostgreSQL's re-check under READ COMMITTED does. A multi-row flush (stage 5) is row
  by row, since it may wait between rows. The `refresh` after a flush reads a row its own
  transaction has locked and is folded into the flush.
- *Rollback is one step with the exception*: nothing another request can see lies
  between them. A commit either happens or the connection is lost before it; a commit
  whose outcome the server never learns is not modelled.
- *Commit and response*: `AnswerFirst = FALSE` is FastAPI 0.106 to 0.117 (and a request is
  answered when it is committed), `TRUE` is 0.118 and later (a client may act between the
  two, and the commit may yet fail). `pyproject.toml:8` allows both.
- *A Redis command ends or fails*. No timeout is set (`cache.py:17-25`), so a Redis that
  hangs would hold the request, and an invalidation also the locks of its transaction,
  though `asset_service.py:191` means the cache to be best-effort; liveness is stated for a
  Redis that does not.
- *Stages 1 to 3 are one step*: stages 1 and 2 do not await.
- *Data.* An asset's `(type, value)` pair is one `Key`; metadata and tags are small sets;
  in the handlers `_normalize` is a parameter `Canon` from keys to canonical keys (the
  proofs hold for every such function; the instances take it from `Normalization`).
  Sources and statuses are those of the code; the payload fields the service only copies
  are left out. Passwords are compared, not hashed; a token is what it says.
- *An asset is last seen on every write*: `last_seen` is always dirty, since a clock of
  microseconds never repeats; the other columns are dirty only when they differ.
- *Tenants.* A request of `Api` carries its tenant; how it comes by it is `Accounts`. No
  operation of one module writes what the other reads.
- *Ids* are fresh and never reused (uuid4). A deleted row's id stays known, so a cached
  graph or an import can still refer to it.
- Each request of an instance carries one call and is answered once; clients that retry
  are further requests with the same call.

## Runs

`tlc -workers 2 -config X.cfg M.tla` with the module of `PROJECT.json`, all
deadlock-checked: a final state is `Idle`, all requests answered, so an instance whose ids
ran out or whose requests waited for each other for ever would be reported. `Requests`
bounds the calls of a behaviour, `MaxInFlight` those served at once, `MaxTime` the clock.
The hazards of this code need two requests to collide and at most a third to have prepared
or to observe the collision, so three requests are enough for each; every property has a
mutant that the same bounds catch. Requests are interchangeable in all safety runs
(`SymIds`), row identifiers where the tables start empty (`SymRows`).

| run | instance | distinct states | what it shows |
|---|---|---|---|
| `integrity` | 3 requests at once, two tenants that share a key, edges both ways between two assets so that two cascades cross, create, delete, relate (also across tenants), import with a link, graph reads, Redis failing, connections lost, responses before commits | 125 000 | `TypeOK`, `NoDuplicateRows`, `EdgesStayInTenant`, `LinkEndpointsHeld` (an endpoint cannot vanish between stages 4 and 5 of an import), `GraphStaysInTenant`, `OnlyDeletedIsMissing` (an answered graph, cached or not, leaves out no neighbour but the deleted): none of them needs the commit before the response |
| `merge` | 3 requests at once on one asset, two PUTs, PATCH, import, delete, create, clock to 2, and a client that lists the assets one by one | 360 000 | `UpdateChangesOnlyItsColumns`, `SeenInOrder`, `NothingSkipped`, `ImplementsInventory` |
| `alone` | 4 requests one after the other, every operation, clock to 1 | 49 000 | what holds without overlap: `OnlyDeclaredAnswers`, `NothingForgotten`, `ReimportedIsActive`, `GraphIsClosed`, `NewEdgesAreServed` (for edges created by hand: the import of this run links to no item of its batch), `ImplementsInventory` |
| `imports` | 3 imports at once, two spellings, a link of an asset to itself, reversed lock order, connection lost at any await | 51 000 | `ImportIsAtomic`, `ImportIsIdempotent`, `OneAssetPerSpelling`, `CountersMatchTables`, `LinksAreWritten`, `ImplementsInventory` |
| `settles` | 3 requests at once, crossing imports, delete, relate, separate, graph read, Redis failing, fairness | 86 000 | `EveryRequestAnswered`, `NoGraphStaysStale` (every cached graph, whatever is outdated in it) |
| `accounts` | 3 requests that register one name in two spellings, log in, use tokens; a token lives 1 of 2 ticks; connections lost; fairness | 212 000 | `TypeOK`, `OneAccountPerName`, `RegistrationIsTrue`, `TokensAreHonoured`, `OnlyTheOwnerLogsIn`, `EveryRequestAnswered` |
| `spelling` | every accepted value of up to 3 characters, blanks inside included, every type, reports of up to 5 | 75 000 | `OneAsset`, `OnlySpellingIsLost`: three characters are enough for a separator between, before or behind two others and for `a .`, five for blanks and dots around them and for addresses with several texts (`0::a`, `::0a`, `::A`) |

Five further runs each violate one statement of the documentation; see below. They are one
or two requests, the calls that meet the hazard and nothing else.

With `AnswerFirst = TRUE`, `ImplementsInventory`, `RegistrationIsTrue` and
`TokensAreHonoured` fail as soon as a connection is lost between a 201 and its commit, or a
token is used before it: to see it, change that line of `accounts.cfg`.

**Fairness** (`FairSpec`, runs `settles` and `accounts`). Weak fairness of each request's `Serve`: the
event loop resumes every coroutine whose await completed, and PostgreSQL completes a
statement once the locks it needs are free. Weak fairness of `BreakDeadlock`: the deadlock
detector runs after `deadlock_timeout`. Weak fairness of `ExpireGraph`: `SETEX` gives each
entry a time to live. Nothing is assumed of clients (`Arrive`), of the clock, or of
faults. `EveryRequestAnswered` says that no lock outlives its request and that no cycle of
waiting imports lasts; `settles` has crossing imports so that cycles occur. `NoGraphStaysStale`
checks the expiry alone: it would hold without any invalidation.

**Limits of the properties.** `ImportIsIdempotent` is about batches of active items: an item
that says `stale` is created as stale and set to active by a second import of the batch
(`import_pipeline.py:88` decides on the existing row). `ReimportedIsActive`, `GraphIsClosed`,
`NewEdgesAreServed`, `NothingForgotten` and `OnlyDeclaredAnswers` are checked for requests
served one at a time; with overlap the last four fail (findings), and so does the first: a
PATCH to `stale` that commits between the lookup and the flush of an import stays, because
the import's `status` was not dirty. `CountersMatchTables` is about instances without
deletions, `OneAssetPerSpelling` about inventories filled by imports: creation by hand only
strips the value (`asset_service.py:81`). `NothingSkipped` excuses an asset that shares its
`last_seen` with another, or that was touched, and says nothing once an update has set
`last_seen` back or a row has left the listing: then pages shift and rows are skipped.
`NothingForgotten` is about tags and metadata entries; of the other columns
`UpdateChangesOnlyItsColumns` speaks. `OneAsset` excepts the host names with a blank before the
root's dots (findings): they are further assets, of the same root, and the only ones. Two things
`Respelling` shows beside its properties: a host name of dots only becomes the empty value that
the schema refuses (`import_schema.py:59`), and an address that does not parse is kept as it is,
case included. An import may write an edge of an asset with
itself (two spellings linked to each other), which `schemas/relationship.py:32` refuses by
hand; the model does the same.

## Findings

| run | code | what happens |
|---|---|---|
| `lost_tags` | `asset_service.py:97` | two overlapping PUTs: the later flush overwrites the tags the earlier one committed, though "merges instead of overwrites" |
| `create_race` | `asset_service.py:89` | two overlapping creations: the second ends in an unhandled `IntegrityError` (500), not the documented 409; `create_relationship` has the same shape |
| `stale_graph` | `relationship_service.py:82` | the graph is invalidated before the commit: a read in between caches the old graph |
| `page_ties` | `asset_repository.py:52` | an import gives a batch one `last_seen`, the only order of the listing: two pages of a table at rest may overlap; relationships are listed with no order (`base_repository.py:40`) |
| `link_twice` | `import_pipeline.py:168` | two spellings of one asset with one link in one batch: the whole import fails on the unique constraint |

`NoGraphStaysStale` holds all the same: whatever the races leave in the cache, the time to
live removes.

More disagreements the model has, and a line of an instance or a look at a trace makes visible.
The host name `a .` is accepted (`import_schema.py:56`) and stored as `a `, since `_normalize`
strips blanks, then dots, and not blanks again (`import_pipeline.py:198-201`); the import of an
export, which strips, makes `a` a second asset: without its exception for such names (`Loose`),
`OneAsset` fails. The comment "normalizes IP (handles leading zeros etc.)"
(`import_pipeline.py:205`) is true of IPv6 only: since Python 3.9.5 `ip_address("10.0.0.01")`
raises, the value is kept as it is, and is an asset beside `10.0.0.1`; that such a value "will
surface as a validation error upstream" (line 209) does not happen either. An item whose
`id` or `value` is not a string fails the batch it is in, since building its error entry
raises (`import_pipeline.py:56`; "valid records proceed", `tests/test_import.py:236`): the
`"unreportable"` item of `imports`. Edges created by an
import invalidate no graph (`import_pipeline.py:181`): link the import of `alone` within its
batch and `NewEdgesAreServed` fails. An asset deleted between two reads of a graph leaves an
edge whose end is no node of the answer (`asset_service.py:161`): `GraphIsClosed` fails with
two requests in flight (`OnlyDeletedIsMissing` says that it fails for no other reason). And the late commit described under [runs](#runs). A login with the
name as it was typed at the registration, blank included, is refused (`auth.py:77` does not
strip, `schemas/auth.py:14` does); nothing in the repository promises otherwise.

## Proofs

`tlapm ApiProofs.tla` proves, for any sets of requests, tenants, ids, keys and calls, any
`Canon`, and either order of commit and response:

- `Invariance`: `Spec => []ApiInv`
- `TypeCorrectness`: `Spec => []TypeOK`
- `NoDuplicates`: `Spec => []NoDuplicateRows`
- `TenantIsolation`: `Spec => []EdgesStayInTenant`

None of the last two is inductive: a commit publishes rows that were written earlier, so
what makes them true is what the locks guarantee of rows *not yet* committed. `StoreInv`
adds that: no row has two unfinished writers (`LocksExclusive`); a rewritten row keeps
tenant and key (`WritesFit`); a row waiting to be committed has no twin, committed or not,
unless its own transaction deletes the twin (`KeysApart`, `EdgesApart`); the endpoints of
an edge waiting to be committed exist in its tenant and nobody else is deleting them
(`EndpointsLocked`); whoever deletes an asset deletes its edges (`CascadeComplete`).
`ApiInv` further says at which await a handler stands with which call and locals
(`HandlerInOrder`), and that what it has looked up is still true of the tenant, or deleted
(`LookupsSound`): ids are not reused, so an endpoint verified three statements ago cannot
have become another tenant's.

The argument has two layers. The first half of `ApiProofs` shows of each statement, commit and
rollback that it preserves `StoreInv` (`StoreStepInv`) and that no step of one request falsifies
what another has looked up (`StoreStepSound`). The second half shows of each operation that
every step of its handler is such a `StoreStep` which leaves the locals of the others alone
and re-establishes its own (`GoodStep`); `GoodStepInv` combines the two, and `NextInv` has
one case per disjunct of `Next`.

### The handlers

Five properties need what a handler alone knows, and are proved in `HandlerProofs` on top
of `ApiInv` for the same constants:

- `GraphIsolation`: `Spec => []GraphStaysInTenant`. A graph is
  read in four statements, stored, and served again much later, so `GraphInv` speaks of
  every graph there is, finished or not: one in the locals of a handler refers to assets of
  the tenant of its call (`GraphInOrder`), one in the cache to those of the tenant in its key
  (`CacheInOrder`), or to deleted assets. That is stable because a committed asset keeps its
  tenant until it is deleted (`KnownStays`), and true when a graph is assembled because the
  handler has written nothing yet, so that what it reads is committed.
- `NodesAreComplete`: `Spec => []OnlyDeletedIsMissing`. `MissingInv` follows a graph from its
  first read: an end of an edge it holds is a node, still to be read, or deleted
  (`MissingInOrder`). A neighbour that the loop of `get_graph` does not find is deleted, since
  it was an asset of the tenant when its edge was read (`GraphInv`, which it extends); deleted
  assets stay so (`DeletedStays`), which carries the claim through the cache (`NothingCachedIsMissing`).
- `EndpointsAreHeld`: `Spec => []LinkEndpointsHeld`.
  `ImportInOrder` says what stage 5 takes from stage 4: what a temporary id stands for has
  been written by the import itself, hence locked by it; every valid item has one when stage
  5 begins; the edges still to be inserted have both ends mapped. An endpoint that was only
  looked up in stage 3 would not do: a re-import without any change still flushes
  `last_seen`, and it is this UPDATE that keeps a deletion out.
- `TimesStayInOrder`: `Spec => []SeenInOrder`. A handler reads the
  clock, then waits for the row, which others may rewrite with later times meanwhile.
  `SeenInv` says why the order survives: `first_seen` is never written again and never in the
  future (`TimesInOrder`), and whoever is about to write a time saw, before it read that
  time, an asset that was there already (`ReadInOrder`); that asset keeps its `first_seen`,
  or is deleted for good. `last_seen` itself may go back, which no one promises otherwise.
- `OtherColumnsStay`: `Spec => UpdateChangesOnlyItsColumns`. The
  UPDATE of a PUT writes the dirty columns over the row as it is *then*, it is the first write
  of its transaction, and the row stays locked until the commit (`ColumnsInOrder`); the
  commit is the only end of a request that publishes anything (`CommitPublishes`).

### The refinement

`InventoryProofs` shows that the service implements the abstract inventory: `Refinement`,
`Spec => ImplementsInventory` if `AnswerFirst = FALSE`; with the answer first it is false
(a 201 is acted upon, then its commit fails).

A commit publishes in one step what a handler wrote over many, so the invariant has to say
of the writes at every await what they are worth against tables that others change
meanwhile. `EffectInv` (theorem `EffectsAreWritten`) does: what a request has written when
it stands before its commit *is* the effect of its call on the committed rows
(`EffectWritten`, one part per operation); until its first statement that writes, it has
written nothing; an import has written, item by item, what it counts as done
(`BatchInOrder`). It is stable because the effect reads committed rows only where the
request holds their locks. The other half is refusals: the step that raises a 404 or 409
still sees the reason, by the case analysis of the raising statement. `Refinement` then
has one case per disjunct of `Next`: a commit is `Succeed`, an exception is `Refuse`, an
arrival is `Ask`, all else a stutter.

### What the tables promise under overlap

`PromiseProofs` takes the six promises about imports from `EffectInv`, for any overlap. Each
has hypotheses on the instance, which the runs meet and without which it is false:

| theorem | property | if |
|---|---|---|
| `OneSpelling` | `OneAssetPerSpelling` | `SentNormalized`: `Canon` is idempotent on the keys, creations by hand and the first rows are canonical (`asset_service.py:81` only strips) |
| `AtomicImports` | `ImportIsAtomic` | `BatchesApart`: nobody deletes assets, nobody else creates a key of a batch, two batches of one tenant share all keys of the one or none. Otherwise a part of a batch is in the tables for reasons of others, which says nothing about the import |
| `ImportsReactivate` | `ReimportedIsActive` | `NobodyPatches`: a PATCH to `stale` between lookup and flush stays, since `status` was not dirty |
| `LinksAreEdges` | `LinksAreWritten` | `IdsApart`: items with one temporary id are one asset (the map of stage 4 keeps the last, `import_pipeline.py:102`); `NobodyUnlinks`: an edge that the import found may be deleted before its commit |
| `CountersAddUp` | `CountersMatchTables` | `NobodyDeletes`; `AnswersStand`: a connection is not lost between an answer and its commit (`AnswerFirst`), or the answer counts rows that were rolled back; `TablesFinite`, as the property counts |
| `RepetitionChangesNothing` | `ImportIsIdempotent` | `NobodyDeletes`, `NobodyPatches`, `NobodyRetags` (by PUT), `AnswersStand`; `OneSource`: the tags and metadata of an asset come from one batch. A batch whose tags another has overwritten since, from an older read, adds them once more |

`ImportsReactivate` and `LinksAreEdges` speak of a transaction that has not committed: they
follow from what it holds. `LinksInOrder` says of each link that stage 5 has looked up that it is an edge the import
holds the ends of, or still to be inserted.

`CountersAddUp` counts what a commit adds: at every await of stages 4 and 5 the counters of an
import are the numbers of the rows it has inserted and of the edges it has yet to insert
(`CountersInOrder`); a commit adds exactly the new rows to the tables and its counters to the
sums, an update nothing to either. The sums need no induction over the requests: they are
cardinalities of `Units`, the single units that the answers claim.

`RepetitionChangesNothing` relates two transactions with anything in between. Of the first,
once answered, `BatchStored` says what stays in the tables: every asset of the batch, active if
its items are, with all the tags and metadata the batch has to give, and every edge of its links.
That stays so because of what every writer does to such an asset: it is known of the columns
each handler *loaded* whether they were settled already (`ContentInOrder`), and an UPDATE from an
older read either leaves a settled column alone or comes from the one batch that settles it. Of
the second, the lookup of stage 3 may be older than the commit of the first; still, when it
commits, its writes are compared with the tables as they are then: a row it created would be a
second with its key, an asset it merged has nothing to gain (`RepeatKeepsAssets`), an edge it
inserted would be a second (`RepeatKeepsRels`). TLC shows each hypothesis necessary on an
instance of two or three requests. Two items with one temporary id are no exception: both
imports take the last of them (`IsLastWithId`).

### Requests served one at a time

With `OneClient` (`MaxInFlight = 1`, commit before response) a handler is alone with the
tables from its first await to its last, which `AloneProofs` states once: only one request is
in flight and the others have left nothing unfinished (`AloneInv`), hence what a handler
looked up is still so whenever it acts (`LookupsHold`). From it:

- `NothingForgottenAlone`: `Spec => NothingForgotten`: no step drops a tag of an existing asset,
  and its metadata entries change only to values that the committing request sent. And
  `ReactivateAlone`: `Spec => []ReimportedIsActive`, with patches.
- `DeclaredAlone`: `Spec => []OnlyDeclaredAnswers`: no flush misses its row, no constraint is
  violated. Besides connections (`DatabaseUp`) it needs `WellFormed` batches: one with an item
  whose error cannot be written fails, and so does one that gives a link twice; both are
  described under [findings](#findings).
- `ClosedAlone`: `Spec => []GraphIsClosed`. The ends of the edges a graph has so far are its
  nodes or still to be read, and exist (`ReadSoFar`); a cached graph is closed, whatever was
  deleted since (`CacheClosed`).
- `NewEdgesAlone`: `Spec => []NewEdgesAreServed`, if Redis answers (`RedisUp`) and imports link
  no items of their own batch (`BatchesUnlinked`: they would invalidate nothing). A cached
  graph shows every committed edge of its asset (`CacheShows`); a new edge comes from
  `create_relationship` only, which stands before its commit with the entries of both ends
  gone (`Invalidated`).

With two requests in flight each of the five fails (findings, and the limits above); what is
proved is that nothing but overlap makes them fail.

### The listing

`ListingProofs`: `PagesSkipNothing`, `ListSpec => []NothingSkipped`, for finitely many rows and
any size of pages. `WalkInv` says why a reader skips no row that nothing moved: such a row is
listed already, or at least `offset` rows stand before it in the order
(`Ahead`). A row that arrives or moves to the front pushes it back, never forward, and a full
page has exactly `PageSize` rows, which is what `offset` grows by; the last page, one that is not full,
leaves nothing behind it.

### The accounts

`tlapm AccountsProofs.tla` proves, for any clients, names, passwords and lifetimes:

- `TypeCorrectness`: `Spec => []TypeOK`
- `NamesAreUnique`: `Spec => []OneAccountPerName`, and `LoginsAreOwned`:
  `Spec => []OnlyTheOwnerLogsIn`, in either order of commit and response
- `RegistrationsAreTrue`: `Spec => []RegistrationIsTrue`, and `TokensLeadHome`:
  `Spec => []TokensAreHonoured`, if `AnswerFirst = FALSE`; without it both are false

Uniqueness of names is no more inductive than that of keys: `AccountInv` adds that a row
waiting for its commit has its name to itself, among the committed rows and the waiting ones,
and a tenant that no other registration works for (`NameReserved`), and that every account
has a registration that was answered 201 (`Registered`). To the table a step is the INSERT
of its row, the commit of that row, or nothing (`StepKinds`), which leaves three cases per
property. `HonestInv` adds what an answer and a token are worth (`AnswerTrue`, `TokenTrue`);
the one step that needs the commit first is a connection lost between the two.

### The spellings

`tlapm RespellingProofs.tla` proves, for values and reports of any length (the bounds of the run
play no part) and any `AddressOf` and `TextOf` with `AddressAssumption`:

- `SpellInvariant`: `Spec => []SpellInv`
- `SpellingsStayOneAsset`: `Spec => []OneAsset`, and
  `NothingButSpellingIsLost`: `Spec => []OnlySpellingIsLost`

`Normalize` is cuts and a change of case, or the text of an address, so no induction over sequences
is needed: what `Strip` and `RStrip` leave of a value is given by a first and a last position, which
exist by the least-number principle (`LeastExists`, from the well-foundedness of `<`) and are
unique. From where they are follows what each change of `Respellings` does to a normal form and
what is lost on the way, one lemma per asset type.

For all but host names, normalizing twice is normalizing once (`Settled`), and the store holds the
one normal form of the last report. For host names it is not, so `SpellInv` speaks of the *name* of
a report: what is left without blanks in front, blanks and dots behind, and case (`Name`). Every
change of `Respellings` keeps it, and so does an import of what is stored; and of what is stored
under a name (`StoredAs`) there is one value without a blank at its end.

### Assumptions, and what is only model-checked

Assumptions on the constants, all named, evaluated by TLC in each run, and as weak as the code allows:
`NilAssumption`, `GraphAssumption` (the two special values are no rows, ids, values or
graphs), `TimeAssumption`, `SeedAssumption` (the tables start within the constraints, each
asset first seen no later than last), `SessionAssumption` and `CallAssumption` (calls are
those of the API), `CanonAssumption`, `AccountAssumption` (stripping twice is stripping once;
a token lives for some time), `LengthAssumption` (the bound on the first report is a number), `AddressAssumption` (no text with a
blank is an address, and the text written for an address is read as that address). The hypotheses of single theorems are named above; TLC finds
those of `PromiseProofs` true of the instance `imports`, those of `AloneProofs` of `alone`.

Only model-checked:

- `EveryRequestAnswered` and `NoGraphStaysStale`: liveness under fairness, and ENABLED, are out
  of the prover's reach.
- that the hypotheses of single theorems are necessary, and the findings: these are
  counterexamples of TLC.

No module declares a RECURSIVE operator.

## What is not modelled

- **Hashes and signatures** (`core/security.py`): bcrypt and JWT are taken to do what they
  say; that bcrypt ignores what follows the 72nd byte of a password is out of the model.
- **Configuration, migration, containers, AI placeholder**: no behaviour at run time.
- **`get_by_source`** of the relationship repository: no caller.
- **`total` of a page**: it is the length of the page, which a client learns nothing from.
- **Characters beyond those `_normalize` treats apart**, and IPv4 addresses, whose grammar is that of
  Python's `ipaddress`; the instance has the short IPv6 ones.

## Plan

1. Done: `Schema`, `Store`, `Sessions`, the four services, `Api`, `Inventory`, `Listing`,
   `Normalization`, `Respelling`, `Accounts`; their runs; the proofs of all their safety
   properties and of the refinement.
2. Open: an abstract specification of the accounts.
