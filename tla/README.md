# Verification of fastdjango in TLA+

This directory holds TLA+ modules of the FastAPI template in `src/src/fastapi_template`
and of the dependency updater in `src/management`, the TLC configurations that
model-check them, and TLAPS proofs about the most important ones.

    tlc -workers 2 -config refresh_postgres.cfg MCRefreshSessions.tla   # model-check a run
    tlapm RefreshSessionsProofs.tla                                     # check the proofs

`PROJECT.json` lists the runs, the theorems, the hazards, and for each definition of
a module the source lines it models.

## 1. The system

| component | state | operations | what is hard | correct when |
|---|---|---|---|---|
| **Refresh sessions** (`core/authentication`) | rows of `refresh_sessions`: owner, token hash, expiry, rotation counter, revocation time | issue, refresh (rotate), revoke: one transaction each | requests of the same token race; a session is read, checked and then updated; row locks exist on PostgreSQL only; a commit is acknowledged late or never | a token is exchanged at most once; nobody holds a token the database lost; a revocation is final; a refusal has a cause |
| **Registration** (`core/user`) | rows of `users` with unique username and email | create user | check-then-insert: the lookup and the INSERT of two requests interleave; two indexes can report the duplicate | accounts are unique; a conflict is justified, and always translated |
| **Unit of work** (`infrastructure/sqlalchemy/unit_of_work.py`) | one object per use case; a context variable with the active session, transaction and repositories | `__aenter__`, repository access, `__aexit__` | a use case is built once with its controller, so all requests of its route use one object; errors and cancellation at every await | statements run in their own task's session; a failed body is rolled back; scope and connection are given back |
| **Session factory and lifespan** (`session.py`, `async_throttler_factory.py`, `entrypoints/fastapi/factory.py`) | lazily created engine and sessionmaker; the throttlers' store and its Redis client | create session, make throttler, dispose | creation against disposals that await, and raise; cancelled requests that still clean up; the app run again; connections that die in the pool | sessions share the run's engine; everything opened is closed at shutdown; failures end with their cause |
| **Throttling** (`core/shared/.../throttling`, `infrastructure/throttled`) | token buckets in Redis, per method, path and client or user | pre-body middleware, IP and user throttlers | requests of one client interleave; Redis may fail after it has counted; keys must keep clients apart and must not depend on how an address is written | a client has its quota and no more, and is turned away for its own requests only |
| **Access tokens** (`services/jwt.py`, `jwt_auth.py`, `current_user.py`, `staff_user_lookup.py`) | none: signed claims; users' flags | issue, authenticate, current user, staff lookup | the token outlives a deactivation or a loss of the staff flag; both change while a request runs | an answer goes to a user who was entitled to it; a refusal has a cause |
| **Request info** (`core/shared/delivery/fastapi/request.py`), **user identity, passwords** | none | normalise an address trace, a username, an email; password policy | one client, many spellings; parts that are no address | normalisation is stable; a client has one key |
| **Health** (`core/health`) | none | `SELECT 1` in a session of its own, over HTTP and a websocket | the pool after an outage | unavailable only when the database is |
| **Foundation, container, logging, telemetry, settings, migrations** | process configuration | start-up | - | - |
| **Dependency updater** (`management/dependency_updater/update_dependencies.py`, `sync_pyproject_dependency_versions.py`) | `pyproject.toml`, `uv.lock` | upgrade lock, sync bounds, update other pins, refresh lock | two files written by three steps without a transaction; a run ends anywhere; edits and releases meanwhile | a finished run leaves a current lock and bounds that follow it; plain bounds are never made contradictory |
| **Container images** (`update_container_image_versions.py`, `parallel.py`, `http.py`) | Docker files and documents | read references, look tags up, rewrite file by file | registries are read page by page and in parallel, pages fail; replacements are applied one after the other | versions are not lowered, variants are kept, documents follow the Docker files, repeated runs come to rest |
| **GitHub actions** (`update_github_action_versions.py`) | workflow files | look up the latest release, rewrite | the scan for the Compose step is by indentation; failed requests fall back to tags; files are read before and written after the lookups | all pins of an action agree after a completed run; no other version is touched |

How they interact: a request passes the throttling middleware, then FastAPI's dependencies
(bearer token, user throttler), then a controller that calls a use case. The use case opens the
unit of work, which takes a session from the session factory, and calls services that use the
repositories of that unit of work. Errors of the use case leave `async with` (rollback) and are
translated by the controller's `handle_exception`. The lifespan of the application disposes of the
throttling store and the engine.


The updater is another process: `make update-dependencies` starts it under `uv run`. It shares
nothing with the application but the repository's files.

## 2. Modules

| module | models | extends / uses |
|---|---|---|
| `SessionLifecycle` | abstract: a table of sessions that are created, rotated and revoked atomically | - |
| `RefreshSessions` | the three use cases of `core/authentication` as transactions over `refresh_sessions` | `SessionLifecycle` (refinement) |
| `RefreshSessionsInv` | the inductive invariant | `RefreshSessions` |
| `RefreshSessionsProofs` | theorems | `RefreshSessionsInv`, TLAPS |
| `Accounts` | abstract: an account is opened or refused in one step | - |
| `Registration` | `create_user` over `users` and its unique indexes | `Accounts` (refinement) |
| `RegistrationProofs` | theorems | `Registration`, TLAPS |
| `Transactions` | abstract: each task's units are atomic transactions, one at a time | - |
| `UnitOfWork` | `SQLAlchemyUnitOfWork` below those transactions: scope, session, connection | `Transactions` (refinement) |
| `UnitOfWorkProofs` | theorems | `UnitOfWork`, TLAPS |
| `AccessTokens` | claims, their acceptance, and the user's row behind them | - |
| `RateLimiting` | request info, keys and token buckets | `AccessTokens` |
| `RequestPipeline` | a request from the socket to its use case, and the answer | `RateLimiting` |
| `RequestPipelineInv` | the inductive invariant | `RequestPipeline` |
| `RequestPipelineProofs` | theorems | `RequestPipelineInv`, TLAPS |
| `RuntimeResources` | engine, pool and Redis clients over runs of the app | - |
| `RuntimeResourcesProofs` | inductive invariant, theorems | `RuntimeResources`, TLAPS |
| `ContainerTags` | pure: ranking of tags and choice of the successor | - |
| `ContainerImages` | `update_container_image_versions` over files and registries | `ContainerTags` |
| `ContainerImagesProofs` | inductive invariant, theorems | `ContainerImages`, TLAPS |
| `DependencyUpdater` | `update_dependencies` with `sync_pyproject_dependency_versions` | - |
| `DependencyUpdaterProofs` | inductive invariant, theorems | `DependencyUpdater`, TLAPS |
| `ActionPins` | `update_github_action_versions` over workflows and GitHub | - |
| `ActionPinsProofs` | inductive invariant, theorems | `ActionPins`, TLAPS |
| `MC*` | constants for TLC | the module of that name |

### RefreshSessions

One action is what one `await` of a request does. `rows` is what has been committed, `draft` what
a transaction would commit, `memo` the copy of the row that it loaded, `holder` who has the row's
lock. A token is the request that minted it: tokens are random and only hashes are stored, so two
mints never coincide. `issue` is authenticate - create - commit; `refresh` is load (`FOR UPDATE`) -
check - `UPDATE ... WHERE token_hash = expected` - reload the user - commit; `revoke` is bearer
check - load - owner check - UPDATE - commit. Every rejection leaves through `Raise` and a rollback.

* `RowLocks = TRUE` is PostgreSQL under READ COMMITTED: `SELECT ... FOR UPDATE` waits for the lock
  and returns the latest committed row.
* `RowLocks = FALSE` is the default SQLite database: `with_for_update()` is not rendered; the first
  UPDATE or INSERT takes the file's write lock until the end of the transaction. An expired busy
  timeout ("database is locked") is `Fail`.
* `Fail` is a driver error, a cancellation or the death of a worker; the database undoes the
  transaction. A token that cannot be signed fails before the commit and is `Fail` too.
* `LoseResponse` is a commit whose acknowledgement or response is lost: the row is changed, the
  caller does not know. What the caller does next is any other request with the token it has.
* `Tick` and `Deactivate` change the clock and `users.is_active`, which no code of the template does.

### Registration

`arrive - lookup - insert - commit`. `entered` holds the unique index entries of open transactions.
On PostgreSQL the INSERT enters the indexes in the order of the migration, waits while another
transaction has a key uncommitted, and fails at once when the key is committed. On SQLite it takes
the write lock first and keeps it after a failed INSERT until the ROLLBACK. `Constraint` is what
the error message names and `UserUniqueConstraints` what the repository recognises.
`normalize_username` is a constant: any function of the spelling. The password policy is decided
before the unit of work is opened and is a choice made on arrival.

`Accounts` is what a client is promised: at one moment between question and answer an account is
opened because none has the username or the address, or the registration is refused because one has.
`accounts` is the table of users and `answer` the reply. A rejection by the lookup is refused at the
lookup, one by an index at the INSERT, and an account is opened at the COMMIT.

### UnitOfWork

Each step of `__aenter__` and `__aexit__` is an action; `Statement` stands for whatever repositories
do. All tasks use one object: a use case is built once, with its controller, and keeps the unit of
work that was injected, whatever lifetime the container gives it. `scope` is the context variable. A connection is taken from the pool by the first statement and given back by commit,
rollback or close. `close()` can raise only while it has a connection to clean up, and then leaves
the scope set (`stuck`), as the code does.

`Transactions` knows neither sessions nor scopes: a task begins a unit, something in it may fail, it is
committed as long as nothing did or undone, and only then is the task told how it ended. `unitOf` is the
transaction of the task's last session, `toldTo` the outcome of its last `async with`; what is raised
while it is still inside, such as a nested unit that the body catches, is left out of it.
`RefreshSessions` and `Registration` take such transactions as given; that their steps are statements
of units is stated by the map and not proved.

### AccessTokens, RateLimiting, RequestPipeline

One action is what happens between two awaits, of Redis or of the database. The stages follow the
order of the code: the middleware (`ArriveThrottled`, `Admit`, `Turn`, `LimitFails`), then FastAPI's
dependencies (`Dispatch` with `JWTAuth`, the revoke route's `AdmitUser`, `TurnUser`,
`UserLimitFails`), then the queries of the use case, each an action. `GET` routes have no IP rule and
reach `JWTAuth` in their first step (`ArriveUnthrottled`). `refresh`, `revoke` and `create` end in
`Complete`, for what they do then is the matter of `RefreshSessions` and `Registration`.

* A token is its claims and whether the signature fits. `minted` has every token the service signed,
  `Foreign` the others; the assumption about them is what a signature is for.
* `ip_address` is the table `Canonical`, from the parts of a trace to what `str(ip_address(part))`
  returns, or `None` where it raises. A trace is a sequence of parts.
* The library takes a token from a bucket in one Redis script, so `Take` is atomic, and all workers
  share the buckets. A call that raises may have taken it (`TakeUnacknowledged`).
* `Tick` is one clock for token expiry and refill. How the two relate (15 minutes, 6 seconds) is
  left open: a bucket gains a token whenever the clock moves. A Redis that loses its data would fill
  the buckets; that is left out, and `QuotaHolds` speaks of a Redis that does not.
* `ChangeUser` is an operator's UPDATE of `is_active` or `is_staff`; no code of the template does it.
* `Finished` is the end of the modelled run: every request has been answered.

### RuntimeResources

What a process opens: an engine with its pool per session factory, a Redis client per store. Requests
open a session, use one connection and close it; what they do with it is the matter of `UnitOfWork`.
The lifespan's disposals are split at their awaits: closing the Redis client, closing each idle
connection, replacing the pool.

* `shared` is chosen in the initial state: whether the container gives one factory to all holders
  depends on diwire's default lifetime, which the repository does not state. With `FALSE` the
  lifespan disposes of factories that the requests do not use; the properties speak of those it has.
* `Stop` cancels the requests that are left, as uvicorn does at its graceful timeout; they clean up
  while the disposals await (`CleanUp`). A connection they give back to a pool that was replaced is
  `stray`: SQLAlchemy leaves it to the garbage collector.
* `Restart` runs the app again in a new event loop, as `TestClient` does with one app, or after
  building it again (`rebuild`), which makes new throttlers.
* `Outage` breaks every connection. `Connect` is the pool with `pool_pre_ping`. The size of the pool
  is left out; waiting for a connection is part of `UnitOfWork`.

### ContainerTags and ContainerImages

The regular expressions are the table `Parsed` (prefix, version, suffix, build, release time of each
tag) and `EndsWith`; the checked table holds tags as the registries name them, with the values the
expressions give, and one repository (`temurin`) whose names are made up, with a word in front of the
versions, for the case that `DefinitionsConverge` excepts. Two assumptions say how these tables hang together. `Surround` is how much text a
tag has around its version: in front of `-t`, `_CONTAINER_VERSION_RE` finds either the version of `t`,
with more text before it, or an earlier one, with all of `-t` after it (`SurroundAssumption`).
`latest` shows no version (`LatestAssumption`). A lookup fetches one page per step. A page that cannot be fetched ends the lookup
with the tags so far, as `_docker_hub_tags` and `_ghcr_tags` do. `Abort` is an uncaught exception or
an interrupt, which may leave the file that is being written truncated. `Publish` puts a tag into a
list at any time, also one that was listed before; a registry lists a tag once (`Without`). `Longer`
is the references by the length of their text, the order in which the replacements are applied, and
`Rewritten` what all of them make of one reference. A file is the set of references in it: the
boundaries of `_container_ref_pattern` keep one reference from matching inside another one.

### DependencyUpdater

`pyproject.toml` is a specifier for each package: its lower bound (`>=`, `>`), its upper bound (`<`,
`<=`) and the versions that its other clauses (`==`, `~=`, `!=`) admit. `with_lower_bound` replaces the
first one or puts it in front of the others, and `satisfies_upper_bounds` compares with the second one
only, as the code does. `uv.lock` is a version for each dependency, or none for one that was just added
(whose version then comes from pypi.org, as that of a build requirement does), and the specifiers that
it was made for. `ReadProject` and `WriteProject` are two steps
because pypi.org is asked in between. uv is any solution within the specifiers. `Specifiers` bounds what
people write. With `make`, `uv run`
first brings an outdated lock up to date (`Makefile:16`). `UpdatePins` stands for workflows and
images, whose files are others.

### ActionPins

A workflow is a sequence of lines with their indentation; `_ACTION_USES_RE`, `_YAML_VERSION_RE` and
`_MAJOR_REF_RE` are what a line shows and the table `Major`. The scan for the Compose step is
`InSetupComposeStep`, a closed form of the loop's two variables, while `InStepOf` is the reference:
where a YAML list item begins and ends. The two requests of `_latest_github_tag` are two steps, and a
request that fails is the same as one without an answer. Texts are read before the lookups and written
after them, so the model loses an edit in between as the code does (`Edit`). `Abort` may leave the
file that is being written empty. What the function returns is the difference of the texts.

The scan stops at a list item that is not indented further than `uses`. A list inside the step, at
that indentation and above the `version:`, would hide the version from it; `StepsHoldNoLists` says
that a workflow has none, as GitHub's schema requires of the keys of a step. Without this assumption
`PinsAgree` is false.

## 3. Runs

Every run is small enough to be exhaustive.

| run | instance | shows |
|---|---|---|
| `refresh_postgres` | 3 requests of one user, row locks, fair | no lost token, justified refusals, revocation is final; the transactions implement `SessionLifecycle`, its counters included; every request is answered although requests wait for locks |
| `refresh_sqlite` | 3 requests of 2 users, no row locks, lifetime 2, clock to 2 | the guarded UPDATE alone keeps tokens single-use; only the owner revokes; a request that was hopeless when it began never takes effect |
| `refresh_sqlite_unlocked` | 3 requests, no row locks | **violation**: the load does not lock (section 6) |
| `register_postgres` | 3 requests, fair, 3 spellings of 2 names, 2 addresses | unique accounts, translated conflicts, nothing left by a refusal; the lookups, INSERTs and COMMITs implement `Accounts`, so every conflict is justified; every registration is answered although inserts wait for each other |
| `uow_tasks` | 2 tasks, 2 units each, one connection | own session, clean after leaving; each task's units implement `Transactions`, so they are committed when ok and undone when failed |
| `requests` | 2 requests to any routes, 2 users, 9 inputs (7 addresses or traces, 3 kinds of header), bucket of 1, lifetime 1, clock to 1, 1 change of a user | clients have their quota and no more, however addresses are written and calls fail; a 429, 401 or 403 has a cause; nothing is shown or changed without entitlement |
| `resources` | 3 requests, 2 runs of the app, built again or not, 1 outage, factories shared or not | sessions share the run's engine; a shutdown leaves nothing open; an outage harms the requests of its time only |
| `images_whole` | 7 contents of the files (a Compose file, README, a document), 6 repositories, 2 pages, 2 runs, 2 publications | tags that are listed only rise within their variant; documents follow; repeated runs come to rest |
| `images_partial` | the same, 1 run | **violation**: a missing page lowers a version (section 6) |
| `updater_runs` | one dependency, one build requirement, 3 versions, 8 specifiers (with `==`, `~=`, `!=`), 2 runs, 1 edit, all options | a completed run leaves a current lock; bounds follow it and are never lowered; no requirement is made contradictory that has bounds only or whose version comes from a current lock |
| `actions_runs` | 2 workflows of 2 texts each, 2 actions and Compose, 2 runs, 1 edit, 2 publications | a completed run leaves one major version of each action and the latest Compose version, whatever was before |
| `actions_other_jobs` | the same, 1 run | **violation**: a version of another job is replaced (section 6) |

Why the bounds are enough. Three requests allow an issue and two racing uses of its token, or a chain
of rotations; the proofs cover every number. Clock 1 and lifetime 1 contain
"not yet expired" and "expired"; `refresh_sqlite` has the middle value. Three registrations hold two
that agree on the name and one that agrees on the address; the other way of waiting, SQLite's, is
covered by the proofs only. Two requests are the least that share a bucket or race for its last token:
with a bucket of 1 the second one is turned away, or finds it refilled; a clock of 1 and a lifetime of
1 have tokens that expire while their request runs. The inputs of `requests` have an address written
in two ways, a trace with a part that is none, a client without an address, a token of another type,
and users who look themselves up or somebody unknown. In `resources` two runs are the least at which
something of the first can reach the second; three requests are one that opens the engine, one that
finds it, and one that outlives the shutdown. Two workflows are the least between which a run can end, and their texts
have the Compose step inside and at the end of a job, pins by commit, and mixed majors.
One connection for two tasks makes waiting for the pool happen; two units per task make the state
that the first leaves behind matter. Two pages are the least at which a list can be partial, two
runs the least at which one run finds what another one left, and the three versions of
`updater_runs` leave room for a release below, at and above an upper bound. Requests and tasks are
interchangeable, so the safety runs use symmetry; runs with a liveness property do not.

Fairness: `WF` on the next step of each request. The event loop resumes a task whose awaited
operation has completed, databases grant a lock when its holder ends, and the ASGI server runs each
request to its end. Nothing is assumed of the clock, of failures or of clients, and no strong
fairness is needed: a lock's holder never waits for a second lock held by a waiter.

## 4. Properties worth a comment

* `DeliveredTokenIsCurrentOrSpent` relates what clients hold to what the table stores: whatever
  fails after the UPDATE, a client that got an answer can use its newest token.
* `DoomedNeverSucceeds`: a request that could not succeed when it began (expired session, inactive
  owner, spent token) never takes effect later. The converse is not claimed: a session that expires
  after its check is still rotated.
* `RejectionHasCause`: races may refuse somebody, never without a reason that was true. For
  registration this is part of `ImplementsAccounts`: at the moment a conflict is decided an account
  has the username or the address, and at the moment one is opened none has, although the
  lookup may be long ago by then.
* `ImplementsTransactions` has what single properties of a unit say (`OkMeansCommitted`,
  `FailedBodyIsNotCommitted`, `OneTransactionPerTask`, which are proved too) and their order: no
  transaction is ended twice, reopened or abandoned open, whatever was raised where. It does not
  say that an error means a rollback: a commit that raises may have taken effect.
* `QuotaHolds` and `LimitedHasCause` speak of clients (`Client`), a notion of the address that does
  not use the code's keys: normalisation, the fallback to the peer and the shape of keys all have to
  be right for them. Clients without a valid address are one client, as they are for the code. With
  `trust_forwarded_ip_header` the client is who the proxy says; who may write that header is a matter
  of deployment.
* `DataOnlyWhenEntitled` asks for an entitlement at one moment of the request, not at its end: the
  flags are read once, and a user who loses them after that still gets the answer. `RefusalHasCause` is
  the converse, for which one moment without entitlement suffices.
* `ShutdownReleases` and `SessionsShareTheRunsEngine` except what the code does not do. If the Redis
  client fails to close, the engine is not disposed of (`RedisCloseFails`) and the next run of the
  app gets it, with the connections of the old event loop. If the app is run again without being
  built again, the middleware still has the old store, whose client is opened again and not closed.
* `LeavingReleases` excepts tasks whose `close()` raised: they keep their scope, and their next
  `async with` is refused as nested.
* `DocumentsFollow` holds for completed runs, also with partial lists. A run that ends between the
  Docker files and the documents is never repaired, since later runs look for the references of the
  Docker files only; the repository promises nothing for that case.
  It also excepts chains (`Unchained`). If the Docker files have `a/b:latest` beside a tag with a
  shorter text, and the two lookups saw different lists, the tag that `latest` gets may itself be
  replaced: the Docker files take that second replacement too, whereas the bare `a/b` of the documents
  comes last and does not. `images_whole` contains this case (`valkey/valkey`), and without the
  condition TLC finds the violation.
* `DefinitionsConverge` excepts two things. Floating names are first raised and in the next run pinned
  (`alpine3.22` - `alpine3.23` - `8.10-alpine3.23`). And the tag that a floating name is pinned to
  may be of another variant than the name (`jdk-21` for `21`): the next run raises it within that
  variant, to a tag that need not end with the name (`jdk-21.1`). `images_whole` contains this, and
  without the exception TLC finds the violation. `SuccessorsHaveNoCycle` says that all this ends.
  In this form the property holds for every table of tags (section 5).
* `StaysSatisfiable` excepts specifiers with `==`, `~=` or `!=` whose version is not from a lock that was
  made for them, for the code does make these contradictory: it puts `>=v,` in front of any specifier
  without a lower bound (`sync_pyproject_dependency_versions.py:160-161`) and compares `v` with `<` and
  `<=` only (lines 169-187), so a build requirement `x==1.0` becomes `x>=2,==1.0` once 2 is released. The
  same happens to a dependency that is not in the lock, or was edited after the lock was made. Without the condition TLC finds
  this. No doc or test speaks of such specifiers, and the repository's `pyproject.toml` has none.
* `NeverLowersDependency` needs a lock that is current at the start or upgraded. With
  `--skip-lock-upgrade` and without `uv run`, a stale lock does lower a bound that was raised by hand.
* `PinsAgree` speaks of completed runs and of the answers they got. It holds although a run that was
  aborted between two files leaves two majors behind. It does not say that a major only rises: the
  code compares majors for equality, so a backport that is the latest release lowers a pin, and a
  failed request for the latest release falls back to the first tag.

## 5. Proofs

All theorems hold for every value of the constants under the named assumptions of the modules,
which TLC evaluates in the runs (finite instances of them).

* **RefreshSessionsProofs**. The invariant `IInv` strengthens the properties by what a request knows
  at each program point (`StepInv`), which drafts a commit may apply (`CommitInv`: the guarded
  UPDATE found the expected hash and nobody can have changed it since, by the row lock or by the
  file's write lock), who holds which lock (`LockInv`) and what became of each token (`RowInv`,
  `SpentInv`, `MintedInv`). It is needed because `SingleUse` alone is not inductive: nothing in it
  says that a transaction about to commit still holds the lock under which it compared hashes. The
  preservation proof has one lemma per action. `TypeCorrectness`, `RotationIsSingleUse` and
  `DeliveredTokensAreKept` hold for both databases; `RevocationIsFinal` and `LoadingLocks` under row
  locks; `Refinement` shows that every step is a step of `SessionLifecycle` or a stutter. The abstract
  sessions count their rotations, so this needs `CounterInv`: a counter that was read (`memo`) is the
  row's counter for as long as its holder can still commit a rotation of it, because whatever writes
  the row in between changes the hash or is excluded by the lock.
  `EntitlementInv` adds, for each request, what the checks of its use case rest on: the session it
  works on is the one its token was minted for, with the owner it was loaded with (`Owned`); a request
  that could not succeed when it began is still before a check that turns it away (`Doomed`); one that
  was refused had a token that opens nothing (`Refused`). It is kept because no step makes a session
  openable again that was not (`NextReopensNothing`): hashes are never restored, `revoked_at` is not
  cleared, the clock and the deactivations go one way. A new request is the exception, and its token
  is its own. From it `DoomedRequestsFail`, `RejectionsHaveCause` and `OwnersRevoke`.
* **RegistrationProofs**. `KeyInv`: a key in `entered` belongs to one transaction and to no
  committed row, so two inserts of one key cannot both reach their commit. From it
  `AccountsAreUnique`, `ConflictsAreJustified`, `DuplicatesNeverEscape`, `RefusalsLeaveNothing`.
  `Refinement`: racing registrations behave as if each were decided in one step of `Accounts`. The
  step of a success is the COMMIT. There `KeyInv` is what matters: a transaction that may commit has
  both its keys in `entered`, so no committed row has them, whatever happened since its lookup
  (`RivalsShareKeys` translates between keys and names).
* **UnitOfWorkProofs**. `ScopeInv` ties a task's context variable to its program point and
  `SessionInv` a session's transaction, connection and users to its owner's. From it
  `SessionsAreNotShared`, `OkIsCommitted`, `UnitsAreLeftClean`, `NoSecondTransaction`, and the action
  property `FailedBodiesAreUndone`. `UnitInv` adds where the transaction of a task's last session
  stands at each program point, and that a session which is not opened yet has none. With it
  `Refinement`: every step of `UnitOfWork` is a step of `Transactions` or a stutter. The steps that end a
  transaction commit it only if nothing has failed (`EndOf`); `Close` reports success only of a
  committed one (`OkMeansCommitted`); and all others find it closed (`OpenInside`).

* **RequestPipelineProofs**. `Accounted` says of every bucket that its tokens and its takers together
  are at least `Burst` and at most `Burst + now`; `Charged` says which buckets a request may have taken
  from at its stage, and that a limit is passed only with a token of its bucket. `QuotaIsKept` and
  `TurnedAwayForOwnRequests` follow from these two and from the keys: a client has one key
  (`OneClientOneKey`), two clients never share one (`OneKeyOneClient`), and a user's key is nobody's
  trace (`KeysDiffer`, from `KeysAssumption`). For a 429 the invariant is extended by
  `DrainedByOthers`: the bucket that was empty then has had that many takers, and takers stay.
  `Authentic` and `WellNoted` keep what was found true at an earlier await (the token was minted and
  not expired on arrival, the user's row allowed it) while the clock and the flags move on; from them
  `EntitledAnswers` and `RefusalsHaveCause`. They hold for finitely many requests (counting needs a
  finite set) of any number, any capacity and any lifetime of tokens.

* **RuntimeResourcesProofs**, for any number of requests, runs and outages. `UseInv` says who is at
  work: while the app is served no cancelled request is, and after that only cancelled ones are, so
  nothing is opened while the lifespan disposes. `FactoryInv`: at most one engine for a factory and a
  run, and a request that was not cancelled is bound to the one its factory has: `dispose()` forgets
  an engine only when no request that is still served uses it. `PoolInv`: an engine that the lifespan's factory no
  longer has (`Disposed`) has an empty pool, and each connection lent from it is of an older
  generation, so that it cannot come back; the generations are why a late `GiveBack` is harmless.
  `RedisInv` follows the store from the throttlers through `closing` to the closed client. `CauseInv`:
  a connection that does not work belongs to a request that met the outage. From these
  `SessionsShareAnEngine`, `ShutdownLeavesNothingOpen`, `FailuresHaveCause`.
* **DependencyUpdaterProofs**, for any dependencies, versions, runs and edits. `RunInv` says for each
  phase of an undisturbed run how lock and bounds are related: current while the project is read,
  each locked version within its bounds before the lock is made again, and lower bounds equal to
  it after `WriteProject`. The second `uv lock` keeps the versions because the first one is a
  solution of the new bounds (`UvLeavesCurrentLock`, with `LockIsReleased`). From it
  `CompletedRunsLeaveCurrentLock`, `BoundsEqualLock` and the action properties
  `DependenciesAreNeverLowered` and `RequirementsStaySatisfiable`. The last one needs `RunInv` for the
  specifiers with other clauses: the version of a lock that was made for them is one that they admit
  (`RaisedBoundsAreSatisfiable`).
* **ActionPinsProofs**, for any texts, actions, releases, runs and edits. The lemmas about texts come
  first: `VersionsInStepsAreFound` shows that the scan by indentation finds every version that the
  YAML structure puts into a setup-compose step (the last `uses` before it is the one that counts),
  and others that a rewritten text has the shape of the old one and what its pins are. `RunInv` says
  that during the writing each workflow is as it was read or as the run leaves it, and that those it
  has passed are the latter. `CompletedRunsAgree` follows.

* **ContainerImagesProofs**, for any repositories, tags, files, pages, runs and publications. The pure
  part comes first: `Lower` is a strict total order of ranks (`LowerIsTransitive`, `LowerIsIrreflexive`,
  `LowerIsTotal`), so a list with a ranked tag has a best one and the code's loop returns the first of
  them (`BestRankedIsFirst`), and the best of a list is the best of every part of it that contains it
  (`BestOfFewer`). Hence `ListedTagIsUpgraded`; and `NoCycle`: a tag is either raised, to the best of
  its variant, which stays where it is, or pinned to a tag that ends with it, which has more text
  around its version, so the tags of a cycle would have to gain text for ever.
  The recursive functions (`Rewritten`, `WholeList`) are shown to be defined by building them step by
  step (`RewrittenHasCourse`, `WholeListType`), with `BoundedInduction` in place of the library's rule.
  `RunInv` says that nothing is replaced before the lookups have ended, and that during the writing
  each file of `todo` is as it was found and each other one is rewritten; it is needed because
  `DocumentsFollow` relates files that are written at different times. `AlignmentSurvives` is the
  other half: rewriting all files by the same replacements keeps documents in line. From these
  `TypeCorrectness`, `ListedTagsAreNeverLowered`, `DocumentsFollowDockerFiles`, `SuccessorsNeverCycle`.
  `DefinitionsComeToRest` proves `DefinitionsConverge` in three steps. `ListInv`: in an undisturbed run
  a finished lookup has the whole list, so each replacement is the choice from that
  (`ReplacementsFollow`). `ChosenTagsRest`: a tag chosen from the whole list is at rest (`AtRest`): it is the
  best of its variant, or a floating name, or what one was pinned to (`SuccessorKinds`).
  `RewrittenRange`: whatever the order of the replacements, a reference becomes itself or the target of one
  of them. `RunInv` has each written file rewritten, so all of this holds of all files when the run has
  written the last one (`WriteRests`, `RestInvariance`).

The inductive invariants were checked with TLC on the same instances before they were proved, except
those of the container images that quantify over all contents of the files. Every invariant, action
property and refinement that a passing run checks is also proved. Model-checked only are the
two liveness properties, `EveryRequestIsAnswered` and `EveryRegistrationIsAnswered` (liveness and
`ENABLED` are out of the prover's reach), and the three properties that are violated.

## 6. Findings

1. `refresh_sqlite_unlocked`: `get_by_token_hash` ("Lock and load a refresh session by its hashed
   token value", `repositories/refresh_session.py:60`) does not lock on SQLite, the default database.
   A revocation may commit between the load and the commit of a rotation; the rotation succeeds and
   delivers tokens of a revoked session. Tokens stay single-use there (`refresh_sqlite`).
2. `images_partial`: `_docker_hub_tags` and `_ghcr_tags` return the tags so far when a page fails or
   when `_MAX_REGISTRY_PAGES` is reached. If the current tag was to come on a later page, the highest
   tag of the earlier ones replaces it, and `redis:8.10` becomes `redis:8.6`, whereas
   `test_update_container_image_versions_does_not_downgrade_dotted_versions` expects no downgrade.
   While the list contains the current tag no downgrade is possible (`ListedTagsOnlyRise`).
3. `actions_other_jobs`: the scan of `_updated_setup_compose_version_text` ends at a list item only.
   When `docker/setup-compose-action` is the last step of a job, a `version:` of the next job above
   its first list item (in its `env`, for example) is replaced by the Compose version; the docstring
   promises to "Update GitHub Action major-version pins". The repository's own workflows have no such
   line.

## 7. Not modelled

Tokens' text, hashing and signatures; HTTP, validation and formatting of requests; the wording of
errors; the script of the token bucket inside Redis, and a Redis that loses its data; the size of
the pool in `RuntimeResources`; the synchronous throttler factory, which nothing uses; uv's resolution; regular expressions and text layout of the
updater; start-up, logging, telemetry. `PROJECT.json` gives the reason for each component.

## 8. Plan

Modelled, checked and proved: refresh sessions, registration, unit of work, request pipeline, runtime
resources, the updater's orchestration, container images, action pins. Next, in this order:

1. `RefreshSessions` and `Registration` over `Transactions` instead of transactions of their own. With
   `ImplementsTransactions` this would carry their theorems down to `UnitOfWork`.
2. One run of the updater composed of `DependencyUpdater`, `ContainerImages` and `ActionPins`.
