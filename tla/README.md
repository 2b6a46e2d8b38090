# Verification of movie-service

TLA+ models, TLC runs and TLAPS proofs for the movie-service repository: Go
microservices that serve movie metadata and ratings over gRPC. Every definition
is translated from the source; `PROJECT.json` ("map") names the lines each one
stands for.

## The system

| Component | State it keeps | Operations | Talks to | What is hard |
|---|---|---|---|---|
| metadata (`metadata/`) | table `movies` in MySQL; cache entries and locks in Redis | `GetMetadata`, `PutMetadata` | Redis, then MySQL; called by movie | read-through cache with a lock that expires; lost replies; crash between two writes; a loop that ignores its context |
| rating (`rating/`) | table `ratings` in MySQL; the consumer's position; one channel between two goroutines | `GetAggregatedRating`, `PutRating`, ingestion of Kafka events | Kafka, MySQL; called by movie | offsets committed before events are handled; redelivery; shutdown racing two goroutines |
| ratingproducer (`cmd/`) | none | writes a file of events to the topic | Kafka | none |
| movie (`movie/`) | a rate limiter's tokens | `GetMovieDetails` | discovery, metadata, rating | stale addresses, retries, errors mapped at three layers |
| auth (`auth/`) | table `users` | `Register`, `GetToken`, `ValidateToken` | MySQL | an upsert that conflicts on two keys besides the id; late statements; a row rewritten during a login; a column that its DSN does not let it read |
| discovery (`pkg/discovery`, `internal/grpcutil`) | addresses and health of instances, in Consul or in memory | `Register`, `Deregister`, `ReportHealthyState`, `ServiceAddresses` | every service | an address outlives its instance |
| start and shutdown (each `cmd/main.go`) | context, server, wait group | register, report, migrate, listen, serve; signal, drain, deregister | discovery, MySQL | order of steps, a panic in the middle of a drain |
| migrations (`pkg/migrate`) | goose's version table, shared by three services | `MigrateFS` | MySQL | services that start in any order; a foreign key from one service's table to another's |
| HTTP handlers and gateways | none | the same operations over HTTP | each other | wired by no `main`; errors and ids treated differently |
| in-memory wiring (`test/integration`, `*/pkg/testutil`) | maps for the registry, metadata and ratings | the operations above | one process | a map of maps of slices without a mutex |

Generated code, tracing and metrics keep no state of interest.

What makes each component correct:

- metadata: the cache never disagrees with the table; a put that was
  acknowledged is stored; misses do not stampede the database; calls that stay
  open are answered; as a whole, clients see a linearizable write-once map.
- rating ingestion: an event is handled in order, none is lost while the
  process runs and few when it ends; a stored rating is not overwritten; the
  loop does not stop by itself; shutdown is graceful.
- movie: an answer pairs the metadata with the mean of the ratings at one moment
  of the request; an error has a cause; a request ends.
- discovery, start and shutdown: clients are sent to instances that serve;
  an instance that stops is forgotten; a drain ends.
- migrations: every service finds its table, whatever the order of starts (it
  does not; the properties say what holds instead).
- auth: keys stay unique and users whole, an id is never lost, a token is given
  and accepted only for credentials that were registered; as a whole, clients see
  a book of accounts whose operations take effect at one instant.
- in-memory wiring: a rating that was put stays and is seen, as far as that is
  true without a mutex.

## Modules

| Module | What it is |
|---|---|
| `MetadataStore` | what the metadata service promises: a write-once map whose operations take effect at one instant |
| `MetadataCache` | the service in detail: handlers, Redis, the lock, MySQL, faults |
| `MCMetadataCache` | its instance for TLC |
| `MetadataCacheProofs` | its theorems |
| `EventPipe` | what the ingestion promises: a bounded first-in first-out pipe |
| `RatingIngestion` | the ingester's goroutine, the channel, `StartIngestion`, Kafka, the process |
| `MCRatingIngestion` | its instance for TLC |
| `RatingIngestionProofs` | its theorems |
| `Migrations` | the start of auth, metadata and rating: goose on the version table they share |
| `MCMigrations` | its instance for TLC |
| `MigrationsProofs` | its theorems |
| `ServiceLifecycle` | every service process from start to end, the registry, and the callers that look a service up |
| `MCServiceLifecycle` | its instance for TLC |
| `ServiceLifecycleProofs` | its theorems |
| `MovieDetails` | `GetMovieDetails` over gRPC and over HTTP: metadata, then the mean of the ratings |
| `MCMovieDetails` | its instance for TLC |
| `MovieDetailsProofs` | its theorems |
| `AccountBook` | what the auth service promises: accounts that are registered, looked up and compared at one instant |
| `Accounts` | the auth service in detail: handlers, bcrypt, tokens, MySQL, faults |
| `MCAccounts` | its instance for TLC |
| `AccountsProofs` | its theorems |
| `InMemoryServices` | the services in one process, on in-memory repositories and registry |
| `MCInMemoryServices` | its instance for TLC |
| `InMemoryServicesProofs` | its theorems |

`MovieDetails` takes the metadata service as `MetadataStore` describes it, which
`MetadataCache` implements: once stored, always found. `RatingIngestion` and
`Migrations` say what the tables hold, `ServiceLifecycle` whom a call reaches.

### MetadataCache

Each member of `Requests` is one gRPC call and its goroutine. `pc` says which
remote call it makes next; one action is one remote call with one outcome. A
command to Redis has three outcomes: it runs, it fails without effect
(`CacheGetFails`, `SetNXFails`, `FillFails`, `UnlockFails`, `WarmFails`), or it
runs and its reply is lost (`SetNXUnacknowledged`, `UnlockRetried`,
`WarmUnacknowledged`). An unacknowledged GET or SET in a fill has the same effect
as a failed or a successful one. A statement to MySQL is the same
(`InsertUnacknowledged` leaves the call in `detached`, and `InsertLate` applies
it at any later time, or never). `movies`, `cache` and `locks` are the three
stores; `result` is the local variable the fallback's answer sits in while the
lock is released; `answer` is the gRPC status. `lost` is history: it counts locks
of an id that expired or vanished with Redis, or whose deletion was retried.

Abstractions: metadata is an opaque value, since JSON and protobuf copies are
lossless for its four strings (so `json.Marshal` cannot fail, and those two
branches of `redis.go` are unreachable). Ids are compared exactly; MySQL's
collation may be coarser. The 100 ms sleep is one step (`Wake`); the TTLs are
actions that may happen at any time while the key is there (`ExpireLock`,
`ExpireCache`), so every relation between five seconds and the length of a load
is covered, and so is a DEL that arrives late.

### RatingIngestion

An event is its offset. `ingester` and `controller` are the program counters of
the two goroutines, `sending`, `buffer` and `putting` the three places an event
can be: in the ingester's hands, in the one slot of the channel, in
StartIngestion's. `position` is the last offset `ReadMessage` returned and
`committed` what Kafka remembers. The configuration of the consumer leaves
`enable.auto.commit` on, so `AutoCommit` may commit `position` at any time, and
`CloseConsumer` does so at the end. `Signal`, `Exit`, `Crash` and `Restart` are
the process; memory is lost in `Die`. `CloseClosedChannel` is the second
iteration of the loop in `ingester.go:44-49`, which has no `return`.

A put that MySQL refuses ends `StartIngestion` (`controller.go:65-68`): a second
rating under one key (`PutEventDuplicate`), a rating by a user whom `users` does
not list (`PutEventUnknownUser`; `00003_ratings.sql:6` has a foreign key, and
`Unregistered` are the keys of such users, who may also register meanwhile), or
a failure (`PutEventFails`). The next life reads on after the committed offset.
That is why `EventsAreHandled` excepts an ingestion that has `Ended`: one event
of those is enough, and the property does not say it is harmless.

Abstractions: one partition and one consumer in the group (the configuration
says nothing of more); a rating's primary key is one value; a client's
`PutRating` is its single INSERT; an INSERT whose reply is lost is applied at
once. Topic configuration, including the group id that `config.go:25` reads
under another name than `default.yaml` writes it, is outside the model: a
subscription may fail (`SubscribeFails`). The type of an event (put or delete) is
not part of the model, because `StartIngestion` does not look at it: an event of
type `delete` (`rating.go:44`) adds a rating like any other.

### Migrations

`pc` is how far a process is in `NewWithMigration`; one action is one statement
that goose v3.26 (the version in `go.mod`) sends, as `goose.Up` sends them
without a session lock: read the version table, create it, insert version zero,
look for missing migrations, read the newest row, create the table, insert the
row. MySQL commits a CREATE TABLE by itself, so there is a step between the
table and its row. `Fail` is any statement that fails, or a crash: `main` panics
and is started again. `Version` gives each process the version its service
embeds (1, 2 and 3). A failure leaves no half statement behind.

`References` are the foreign keys between the tables: `ratings` references
`users` (`00003_ratings.sql:6`), so the CREATE TABLE of rating fails while auth's
table is absent (`CreateTable`), and `main` panics. The image is `mysql` without
a version (`docker-compose.yaml:3`): the present ones enforce a REFERENCES written
next to its column, the ones before 9 ignore it, which is `References` without
any. If metadata records its version before auth does, auth is refused for ever,
nobody creates `users` (`Lost`), and rating never starts (`Orphaned`).

### ServiceLifecycle

An instance is one process. `pc` is where `main` is, `stopper` where the
goroutine is that waits for a signal, `wg` the counter of the wait group. The
third goroutine, which reports to the registry every one or two seconds, is the
action `Report`, possible for as long as the process runs. `registered` and
`passing` are Consul's; a check with a TTL is critical until its first report
(`Report`) and five seconds after its last (`Expire`). `End` is what the end of a
process does to its port and its calls, whoever ends it: `main` returning
(`MainReturns`, `Exit`), `logger.Fatal` (`ServeRefused`, `TracerFails`), a panic
(`WaitGroupPanics`) or a crash. gRPC's server is modelled by what `Serve` and
`GracefulStop` do: Serve refuses after GracefulStop, which closes the listeners
it knows, waits for the open calls, and only then lets Serve return.

A caller is a gateway of movie (five attempts at metadata, one at rating) or an
external client (one). It asks for the passing instances, keeps one address for
all its attempts, and is connected to whoever listens there. A first attempt
waits for a server that listens and does not serve yet; after a failure the
connection may be backing off, and attempts fail whoever listens. `harmed` and
`cut` are history.

A call and its handler are two things: a caller that gives up (`Cancel`) is rid of
the call, the server is not of the handler until it returns (`HandlersReturn`).
`abandoned` are the instances with such handlers; one stands for all of its
instance, since only whether there is one matters, and `GracefulStop` waits for
them as for the others (`Busy`). The handlers of movie, rating and auth hand
their context to every remote call and return; metadata's Get does not look at
it while it waits for the lock (`redis.go:70-72`, the finding `GetReturns`), which
is what `heeds` says of each main.

Each of the four mains is a record (`MovieMain`, `MetadataMain`, `RatingMain`,
`AuthMain`) of what it does otherwise than the rest. `auth` deregisters in a
deferred call, goes on after a failure to listen and panics, and calls `wg.Done`
where the others call `wg.Wait`. `rating` runs the ingestion besides, which
panics once its context is cancelled (`IngestionPanics`, the panic that
`RatingIngestion` shows) and may take the draining calls with it; it only logs a
failure of the tracer, which ends movie and metadata. Whatever `main` does before
it registers (configuration, tracer, metrics) succeeds or ends the process
(`RegisterFails`); the metrics server may end it later (`Crash`). Abstracted: the
deadline of a call, and what the service itself does.

### MovieDetails

One request goes through `metadata`, `rating` and `mean`. `MetadataUnavailable`
is an attempt answered with a code that `shouldRetry` lists; it is not bounded
by `MaxFaults`, since a service may stay away. `ReadRatings` takes the rows of
one SELECT, `ReadSomeRatings` is the same when the connection breaks between two
rows and nobody asks `rows.Err`. `Mean` keeps the sum and the number of the rows,
which determine the quotient. Both gateways return gRPC's errors as they are, so
`gateway.ErrNotFound` and `movie.ErrNotFound` are never matched and every failure
is `Internal`: a missing movie too. `atStart`, `failed` and `partial` are
history. The rate limiter in front of the server may refuse any request
(`Limited`).

`over` is the transport of a request. Over HTTP the metadata gateway tries once
and translates 404 (`HttpMetadataMissing`); the rating handler compares the error
with the `ErrNotFound` of another package and drops every error it does not
recognise, so that a failed query is answered 200 with the rating 0
(`HttpRatingUnread`), while a movie without ratings is answered 500, because JSON
has no NaN (`HttpAnswer`); and neither the id of metadata nor the user of a rating
is checked (`HttpPutMetadata`, `HttpPutRating`).

### Accounts

Each member of `Requests` is one gRPC call, interleaved at each statement, and
stands for what that call draws at random: a user's id, a salt, a token's time.
bcrypt is a salt and a digest of what it reads of the password, its first 72
bytes (`BcryptKey`). It refuses to hash a longer one (`HashFails`), but compares
one by its beginning (`Matches`): a login with a registered password of 72 bytes
and anything after it is granted. A JWT is its claims; the key is a constant of
the program, so that a token outlives the process, until it expires (`Expire`).
`Upserted` is `INSERT ... ON DUPLICATE KEY UPDATE`: a new row, or the one
conflicting row with every column but its id replaced; if the username is one
user's and the email another's, MySQL refuses (`PutDuplicate`). A statement whose
context ends may be run at any later time (`PutUnacknowledged`, `PutLate`).
`found` is the row a login holds between SELECT and the comparison. `Login`
answers a failed query as it does a wrong password (`SelectFails`).

`GetByEmail` ends with a Scan of all columns, `created_at` into a `time.Time`. The
driver does that only if the DSN says `parseTime=true`; otherwise it hands over
bytes and Scan fails for every row there is (`Scanned`), which `Login` answers
like an unknown user. `parsesTime` is whether the DSN says so and never changes;
`DSNs` are the values it may have. The program's does not
(`auth/cmd/main.go:126`): it is `DSNs = {FALSE}`, and issues no token. The model
keeps the other value, because what follows the Scan (the comparison, the token,
its validation) is code too, and one word in a constant decides whether it is
reached. The run `AccountsLogin` is the program's, `Accounts` has both values, and
the theorems hold for either.

`AccountBook` is the same seen by a client: registrations, logins and checks that
take effect at one instant. It does not promise that `Register` "creates a new
user account" (`controller.go:42`): one that meets an existing username or email
takes that account over, password included, and is told OK. A login of
a book that is not `readable` is always refused, in the program each one.

### InMemoryServices

The integration test's process. The registry and the metadata repository hold a
mutex for each operation, which is one action. `Put` of the rating repository is
cut where it touches the shared maps: the check for the inner map (`Check`), its
creation (`Create`), the two lookups of `append` (`Look`, `Read`), the
assignment (`Assign`); `GetType` and `GetRecord` are the lookups of `Get`. The
inner map is named by the put that made it, since two puts may each make one.
`ConcurrentMapAccess` is Go's fatal error when it notices two accesses at once,
one of them a write; when it does not, they take effect in some order.
`NoAddress` is the panic of `rand.IntN(0)`: `ServiceAddresses` returns an empty
list without an error when every instance is silent, although `discovery.go:25`
says that `ErrNotFound` is returned when no addresses are found. `raced` is
history: the puts that overlapped with another.

Abstractions: one record type; two appends to one slice that write the same
element are not told apart from two that do not; slices torn between their words
are left out.

## Runs

| Run | Expect | Question | Bounds |
|---|---|---|---|
| `Metadata` | pass | cache against table, acknowledged puts, the lock, refinement of `MetadataStore`, calls that stay open are answered | 3 calls on 1 id, 2 metadata values, 2 faults |
| `MetadataGetReturns` | violation | also the cancelled ones? | 2 calls, 1 fault |
| `Rating` | pass | loss, ratings without a row, first rating stands, refinement of `EventPipe`, produced events are handled | 4 events of 1 key whose user may be unknown, 2 values and malformed messages, 1 fault, 2 lives |
| `RatingPanic` | violation | does a signal make a goroutine panic? | 1 event |
| `Migrations` | pass | recorded versions, who serves without a table, who is locked out, when the newest service starts | 4 processes of 3 services, the foreign key of the repository, 2 faults |
| `MigrationsTable` | violation | does a process that serves have its table? | the same |
| `Lifecycle` | pass | calls cut off, registrations left behind, ends of processes and calls | 2 processes of metadata on one port, 1 of rating, 1 of auth, 1 caller that may give up, 3 attempts, 2 faults |
| `Movie` | pass | which mean, which errors, the request ends, over either transport | 1 request, 2 movies, a user and the empty one, 2 values, 5 attempts, 1 fault |
| `MovieUnrated` | violation | is the rating a number? | the same, no fault |
| `Accounts` | pass | keys, whole users, tokens, ids, refinement of `AccountBook` | 4 calls, 2 usernames, 2 emails, 2 passwords and one too long that begins with one of them, both DSNs, 1 fault, symmetry |
| `AccountsLogin` | violation | is a login with the right password granted? | the same, with the program's DSN |
| `InMemory` | pass | which ratings survive the races and which are seen | 3 puts, 1 get, 2 movies, symmetry |

Why the bounds are enough. No operation of the metadata service touches two ids,
and the ids share neither entry, lock nor row, so one id shows what any of them
can do; the theorems hold for every set of ids. Three calls are what a lost lock
takes to go wrong: a slow load, its successor whose lock it deletes, and a third
reader; or a load and two rival puts. Two faults allow a fault during the
recovery from the first (a lost reply and a crash, a cancellation and a Redis
restart). Lock and cache expiry are not faults and are unbounded. Four events
fill the ingester's hands, the channel and StartIngestion's hands and leave one
behind; two lives give one crash, one redelivery and one final death. The bound
of three in `LossIsBounded` and `EventPipe` is tight: with two, TLC finds a
violation. Events of different keys meet only in the pipe, which does not look
at keys, so one key is enough. `LossIsBounded` counts what was never tried,
`MissingIsBounded` what has no row, a refused put included; that the put ends
the ingestion is what keeps it small.

Migrations needs three versions (one to be overtaken, one to overtake, one newer
than both) and two replicas that race for one of them; two faults can hit both
statements of one migration. The foreign key of the run is the one the
repository has. In Lifecycle the second process of metadata is a
replacement, started at any time: it finds the port taken, takes it over, or is
reached by a caller that was given the address of the first. Processes with
different ports do not affect each other, so each behaviour has those of one
service (`OneService`). Three attempts are one that dials, one that backs
off and one that gives up. Requests of Movie share only tables that none of them
writes, so one is enough for what a request promises; what two of them see of
each other (`RatingsAccumulate`: a later one never counts fewer ratings) is proved.

Accounts: two registrations make two users, the third straddles them, and the
fourth call logs in or presents a token meanwhile; two registrations, a login and
a check of its token are the other case that takes four. One fault makes one
statement late, or ends the process with several under way. InMemory: two puts
race for the inner map and a third comes after them, or a counted rating meets
two racing puts.

Deadlock is checked in the runs of metadata, accounts, rating ingestion and
migrations, which stop only in `AllAnswered` (every call has an answer) and
`Over` (the last life has ended). The processes of Lifecycle and InMemory and
the request of Movie really end.

Every property of a passing run has a mutant in `PROJECT.json`: a plausible bug
(`REPLACE INTO`, SETNX whose reply is not read, a lock without TTL, an offset
committed one too far...) that TLC must find.

## Fairness

`MetadataCache!Fairness`: weak fairness of every handler's next step (goroutines
are scheduled, and each remote call ends one way or another), of the expiry of
each lock (the TTL of `redis.go:42`) and of the restart of Redis. Nobody has to
call, cancel, crash or fail. Under it every call that is not cancelled is
answered: retries end because the lock is released or expires, and only finitely
many calls compete. `LiveCallReturns` needs Redis to come back.
`RatingIngestion!Fairness`: weak fairness of each goroutine, and of `Exit` once
the context is cancelled; an ingestion that has ended need not go on. Nobody has
to start the process again. `Migrations!Fairness`: weak fairness of every
process, and of its start: `main` panics when a migration fails, and the
deployments (`metadata/k8s/metadata-deployment.yaml`) start a container that
ended again. `ServiceLifecycle!Fairness`: weak fairness of `main`, of the
stopping goroutine, of each call and of the TTL of an instance that has ended.
Nobody has to signal, crash, call or give up; a running instance may be late
with its reports for ever. A handler whose caller has given up returns where
`Heeds` says so, and not otherwise: `SignalledEnds` is that a process that is
signalled ends, or is of metadata and keeps an abandoned handler from some time
on. `MovieDetails!FairSpec`: every call a request makes returns in success or in
error (module ServiceLifecycle shows that its attempts do). `Accounts` and
`InMemoryServices` state no liveness: their handlers have no loop.

## Proofs

All theorems hold for any values of the constants that satisfy the named
assumptions: a finite set of calls, a missing value that is no value, bounds
that are numbers.

`MetadataCacheProofs`:

- `TypeCorrect`, `CacheCorrect`, `PutsCorrect` from the inductive invariant
  `IInv`. `CacheMatchesDatabase` alone is not inductive: a fill writes what it
  read some time ago. `IInv` adds that what a load holds is still the row
  (`LoadsMatchDatabase`) and that a put that warms the cache has its row
  (`WarmedPutIsStored`); both are stable because rows are only inserted, never
  updated, which is the one fact the whole cache rests on. `HandlersFit` ties a
  handler's place to its call, and a detached INSERT to a call that was told of
  a failure.
- `LoadsBounded`: `LoadsBoundedByLostLocks` by counting. Each step that adds a
  loader takes the lock, and each step that removes the lock either ends a
  load or increments `lost`.
- `LaterGetsCorrect`: `LaterGetsAgree`, which relates two calls: after a client was
  told an id's metadata, no later get of the id misses it. The proof follows one
  get from its start. The row is there by then (`PublicIsOnItsWay`), rows stay,
  and whatever the get then reads, in the cache or in the table, is that row.
- `Implementation`: every step of `MetadataCache` is a step of `MetadataStore` or
  leaves it unchanged, under the mapping `Phase`. A get takes effect when it
  reads a row or a cache entry it returns, and, if it finds nothing, when it
  queries MySQL, before it releases the lock.

`RatingIngestionProofs`:

- `TypeCorrect`, `RatingsStand` from `IInv`, whose `HandsFit` orders the three
  places of an event by age and `EventsFit` says that only decodable events are
  held or stored.
- `Implementation`: the ingestion implements `EventPipe` with capacity three; the
  held offsets are the pipe and `attempted` what was handled.
- `LossBounded`: at most three offsets up to `position` are neither handled, nor
  skipped, nor held for each time the process ended, by counting over the same
  steps.
- `MissingBounded`: the same for events without a row. `attempted` does not help,
  since a put that was refused was attempted; the lemmas (`MissingStays`,
  `FewMore`) show instead that a step makes more events missing only when the
  ingestion ends, by one, and when the process dies, by what it holds: at most
  three, and at most two after the ingestion ended, whose hands are then empty
  (`HeldIsSmall`).
- `SendsAreSafe`: the ingester closes the channel only after it stopped reading
  (`ChannelFits`). It is what allows the model's `Send` not to ask whether the
  channel is open.

`MigrationsProofs`:

- `TypeCorrect`, `RecordedCreated`, `ServesCorrect` from `IInv`: a process about
  to record has created its table, the newest row is recorded, and a process
  that serves either is recorded or was overtaken. The last is what links
  goose's second read, the newest row, to the table.
- `LockedOutStays`: an action property; versions are recorded for ever, so a
  missing one stays missing unless one of its own processes is past the check.
- `NewestCorrect`: the newest service is the one that `ServesCorrect` leaves no
  excuse, which bounds the finding of `MigrationsTable`.
- `LostStays`: `LostForEver`, an action property: once a newer version is recorded
  and none of its own processes is past the check, a table that is not there is
  never created.
- `OrphanedStaysOut`: `OrphanedDoesNotServe`. A process of the newest service that
  serves has its table (`NewestCorrect`'s argument), and a table exists only next
  to those it references (`ReferencedExist`, in `IInv`).

`ServiceLifecycleProofs`:

- `TypeCorrect`, which needs that instances on one port belong to one service
  (`PortAssumption`), or a retry could exceed the limit of another service.
- `CallsAreFinished`: a call is handled only where Serve and GracefulStop have not
  returned (`HandledWhileServing`), so whatever ends a process afterwards, a
  return, a Fatal or auth's panic, finds no call.
- `LeavesRegistry`: `Counted` says what the wait group's counter is at each place
  of the goroutine, so that `main` returns only when it is finished, and
  `ForgottenWhenStopped` that it deregistered on the way.
- `WaitGroupCorrect`, `DrainsCorrect`: the safety half of `SignalledEnds`. Outside
  auth the counter is above zero at each `wg.Done` and zero when the goroutine
  has finished; and once GracefulStop is called an instance is given no other
  call, and no handler runs without a caller that did not run with one or
  without one before (lemma `AbandonedMove`; an action property), so that what it
  waits for only gets less. That it comes to an end, where the handlers return,
  is left to TLC.

`MovieDetailsProofs`:

- `TypeCorrect`, `DetailsCorrect`, `FailsCorrect` from `RequestsFit`: rows read for
  a request are rows the movie still has, since a rating is never replaced
  (lemma `RowsStay`). The sum itself is not unfolded: the same function of the
  same rows.
- `RatingsCorrect`: `RatingsAccumulate`, which relates two requests of any number:
  one that begins after another was told a rating reads at least its rows. The
  later one is followed from its start (`Later`): until it asks the movie has the
  rows, and then its `atStart` does. Requests that a fault hit (`partial`,
  `failed`) are excepted: their rating may be of fewer rows, or zero.

`AccountsProofs`:

- `TypeCorrect`, `UniqueKeys`, `WholeUsers`, `DeservedTokens` from `IInv`.
  `KeysUnique` needs that an id is new until its user is put, a late statement's
  id too (`IdsAreNew`); `TokensAreDeserved` needs that the row a login holds is the
  work of a registration although the table may have moved on (`FoundAreWhole`)
  and that clients present tokens they were given (`ChecksAreDeserved`). A token
  is `Deserved` only if times are parsed and a registration had its login's
  email and a password with the same `BcryptKey`. The
  lemmas on `Upserted` say what the table is after a put with no conflict or one.
- `NoTokenAsWired`: with the program's DSN (`DSNs = {FALSE}`) there is no token at
  all, in any behaviour: the finding of `AccountsLogin` for every instance.
- `StableIds`: an action property, from the same lemmas.
- `LoginsFollowDSN`: `DSNDecides`. No login is granted unless the DSN lets rows be
  read (`FoundAreWhole`). If it does, and as long as no different registration
  asks for the email or the username, a successful one has a row that suits it
  (`RegisteredHaveUsers`): the statement of the same registration, sent again or
  late, replaces it by its like, and any other leaves it. A login that starts
  then reads that row, because the email is one user's (`SelectProvides`).
  Without the exception, or for a login that a fault hits, TLC finds a
  counterexample.
- `Implementation`: every step is a step of `AccountBook` or leaves it unchanged.
  A login takes effect when it reads its row (phase `decided`), where the verdict
  is fixed although it is computed later.

`InMemoryServicesProofs`:

- `TypeCorrect`, `CountedRatingsStay`, `GetsAreCorrect` from `IInv`. The core is
  `CountedIsSafe`: once a rating counts, no put is about to replace the inner map,
  every put that has chosen one chose the present one, and no put holds a slice
  without the rating. It is inductive because a rating counts only when its put
  was alone from start to end (`Alone`).
- `RatingsAreExact`: a corollary. The maps hold nothing that was not put, and
  everything while no two puts have overlapped.

Nine properties are theorems and not part of a run: `LaterGetsAgree`,
`RatingsAccumulate` and `DSNDecides` are of the form `[](P => []Q)` and
range over pairs of calls, which makes a run with symmetry unsound or one without
it long; the others are by-products of the proofs, as strong as they are because
of the strengthened invariants. Before it was proved each was checked by TLC:
`LaterGetsAgree` under `Metadata.cfg` alone (three minutes), `RatingsAccumulate`
with two requests of one movie, `DSNDecides` with three calls, one email, both
DSNs and without symmetry, `SendsOnOpenChannel`, `NewestHasTable`, `LostForEver`
and `RatingsArePuts` under the configuration of their module,
`WaitGroupFits` and `NoCallAfterStop` under that of `Lifecycle` with one fault.

What stays with TLC: liveness (`LiveCallReturns`, `EventsAreHandled`,
`NewestServes`, `EndedIsForgotten`, `SignalledEnds`, `CallsEnd`, `RequestsEnd`),
since the prover has no rules for fairness and ENABLED.

## What the checks show

Properties that hold are listed above. Five do not, each stating what a comment,
a definition or a test in the repository says:

- a get whose context is cancelled never returns (`redis.go:70-72`), so a
  graceful stop of the metadata service can hang;
- the ingester closes its channel twice after a signal and panics
  (`ingester.go:47-49`);
- a service may serve without its table, because three services keep their
  versions in one version table (`migration.go:26`). `ServesOrOvertaken` says
  when: only if a service with a newer migration overtook it. A service that
  comes later still never starts (`LockedOutForEver`);
- details of a movie without ratings carry NaN (`controller.go:50`);
- nobody can log in: the DSN of auth lacks `parseTime=true`, so that every read of
  a user fails at `created_at` and is answered like a wrong password
  (`auth/cmd/main.go:126`, `mysql.go:82-88`).

The models show more weaknesses, which no run states since no text of the
repository denies them in so many words, or since their run would repeat a
definition:

- a mean may be of some of the ratings only (`ReadSomeRatings`), and over HTTP of
  none at all with status 200 (`HttpRatingUnread`);
- auth may end without deregistering (`WaitGroupPanics`), and so may any service
  that is signalled before it serves (`ServeRefused`), and rating when its
  ingestion panics first (`IngestionPanics`); `EndedIsForgotten` is what is left of
  a promise;
- rating never starts if metadata records its version before auth has created the
  table that the ratings reference (`OrphanedDoesNotServe`);
- a metadata process that is signalled waits for ever for a get whose caller has
  given up, as long as that get repeats (`SignalledEnds` excepts it);
- an event of a user whom auth does not know ends the ingestion
  (`PutEventUnknownUser`), as any refused put does;
- events of type `delete` are stored as ratings (`controller.go:65-66` of rating);
- a registration that meets an existing username or email overwrites that account
  (`mysql.go:52-60` of auth);
- a password of more than 72 bytes logs in with its first 72, though it could not
  have been registered (`Matches`; only a DSN that parses times gets this far);
- in memory, ratings that race are lost or end the process, and a registry whose
  instances are silent makes its callers panic;
- over gRPC the details of an unrated movie, which `test/integration/main.go:92`
  expects without a rating, fail: the in-memory repository's not-found arrives as
  a status that the movie controller does not recognise (`GetType`, `GetRecord`).

## Not modelled

- `src/gen`: generated protobuf and gRPC code and mocks; messages are records.
- `pkg/tracing`, metrics and yaml files: no state of the system.
- `auth/internal/repository/memory` and `GetByID`: nobody constructs the one or
  calls the other.
- The producer's reading of its file and its flush: only the events it appends.
- The number of the limiter's tokens: any request may be refused.
- Torn slices in the in-memory rating repository, and Kafka with several
  partitions or a rebalance.

## Plan

1. An abstract specification of the registry (a caller is sent to an instance
   that was alive a TTL ago) that `ServiceLifecycle` implements, and of the movie
   service (an answer is a function of the tables at some moments of the request)
   that `MovieDetails` implements, with proofs.
2. `ServiceLifecycle` composed with `MetadataCache`: the loop of an abandoned get in
   detail, instead of a handler that need not return, and when Redis ends it.
3. Several partitions and a rebalance in `RatingIngestion`.
