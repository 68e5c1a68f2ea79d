# Verification of acme-dns-rust

TLA+ models of the program in this repository, the TLC configurations that check
them on small instances, and theorems that TLAPS proves for every instance. All
paths below are relative to the repository; `cert.rs` stands for `src/cert.rs` and
so on.

Run `tlc -config X.cfg M` in this directory (table of runs below) and `tlapm M.tla`
for the modules whose name ends in `Proofs`.

## The system

The program is a DNS server that answers the ACME challenges of its own
certificate and of domains delegated to it, an HTTP API to register such domains,
and an hourly job that renews the certificate. One process runs three futures
under one `select!` (`lib.rs`); they meet in the database only.

| Part | State it keeps | Operations | What is hard about it |
|---|---|---|---|
| Renewal job (`cert.rs`) | its `memory_cert`, the current order | `manage`, `validate`, an hourly `Interval` | failures at every call; attempts that take longer than the interval; the row is the only lock |
| Certificate facade (`facade/cert.rs`) | table `cert`: state, time stamp, certificate, key | `start_cert`, `stop_cert`, `first_cert` | several managers; processes that die holding the job; queries and updates with no lock in between |
| Domain facade (`facade/domain.rs`) | table `domain`: credentials, TXT proof | find, create, update | whole-row updates from an earlier copy |
| DNS authority (`dns/authority.rs`) | configured records | `search`: SOA, configured records, CNAME, challenge, id | two reads per answer; a missing proof panics |
| PROXY stream (`api/proxy.rs`) | what was read ahead, where data starts | future of `real_addr`, `poll_read` | wakers; a header cut anywhere, or longer than the buffer; the end of the stream |
| TLS acceptor (`api/tls.rs`) | cached certificate and config under an `RwLock` | `load_cert` per connection | read, build and write are three critical sections; queries fail; certificates do not load |
| Start-up (`lib.rs`) | the runtime in an `Arc`, the futures of `select!` | `run` | who drops the runtime, and where; which part ends the program |
| Connection pool (`lib.rs`, the facades) | five connections, who waits for one | begin, execute, return, time out | `stop_cert` holds one and asks for another |
| HTTP server (`api/mod.rs`) | gauges of connections, one task per listener | bind, accept loop | tasks that panic, peers that hang, no free descriptor, listeners that are absent |
| Routes (`api/routes.rs`) | rows of `domain` | register, update, not found | a table shared with the job; clients that go away; failing statements |
| ACME persistence (`acme.rs`) | table `acme` | put, get | check-then-insert without a unique index |
| Metrics (`api/metrics.rs`) | counters by path and status | the wrapper of all routes, `remove_zero_metrics` | labels without a bound; a buffer cut in place |
| Configuration (`config/`) | listeners, `[records]` | deserialisation | names that are equal only after they are made absolute |
| Utilities (`util.rs`) | | `to_i64`, `to_u64`, `error`, `now` | u64 in a signed column; errors inside errors |

Interactions: the job writes `cert` and `domain` through the facades; the CA asks
the DNS for the proof (the authority reads `cert`, then `domain`); every TLS
connection reads `cert`; `stop_cert` is what the acceptor eventually sees.

What makes each part correct:

- Facade and job: at most one manager's `stop_cert` stores; the stored certificate
  only gets newer; a job in progress is left alone for an hour; an abandoned one is
  taken up again; rows do not multiply with retries; the DNS answers the proof of
  the order being validated.
- Authority: a challenge asked during a validation gets that order's proof, across
  its two reads; the panic on a missing proof is over once one is published.
- PROXY stream: the reader gets exactly the stream after the header, of any length; a connection
  is answered or ended, never left asleep.
- TLS acceptor: a connection is served with what its own query returned, or with
  something that works; the cache converges; the handshake starts once the header and
  the certificate are there.
- Process: a signal, or the failure of any part, ends all of it, and nothing else
  does; the runtime is never dropped inside an async call; no call waits for ever.
- Routes: whoever was told 201 has a row that the job never touches; every answer is
  counted once.
- Persistence: the table is a map for one process, and for several until they race;
  a race doubles a key at most once per process, and doubled rows agree again.
- Configuration: the DNS answers what the file lists last for a name, and only that.
- Utilities: no u64 is lost in the column, no error loses its kind.

## Modules

| Module | Models | Notes |
|---|---|---|
| `CertManager` | `cert.rs`, the rows of `facade/`, the clock, the CA | state and steps that both facades share; no specification of its own |
| `CertFacadeMemory` | `impl CertFacade for InMemoryFacade` | `start_cert` and `stop_cert` are one step each: they run under the Mutex |
| `CertFacadeDatabase` | `impl CertFacade for DatabaseFacade<Postgres>` | two steps each: the query, and the update with what follows; processes die and restart |
| `CertLease` | the promise of `start_cert` and `stop_cert` | abstract: who holds the job, which certificate is stored |
| `CertFacadeMemoryProofs` | | theorems about `CertFacadeMemory` |
| `Authority` | `dns/authority.rs`, on top of `CertFacadeDatabase` | every step of the job interleaves with the reads of a query |
| `Registration` | `api/routes.rs` and the wrapper of `api/metrics.rs`, on top of `CertFacadeDatabase` | handlers that are dropped, fail, or lose the answer of their insertion |
| `Services` | job, routes and authority on the two tables | composes `Registration` and `Authority` |
| `ProxyStream` | `api/proxy.rs` | one connection, the executor's wake-ups included |
| `TlsAcceptor` | `api/tls.rs` | connections and whoever stores certificates |
| `TlsWrap` | `tls::wrap` around `proxy::wrap` | composes `TlsAcceptor` and `ProxyStream`: one task joins both |
| `Pool` | the pool of `setup_database` as the facades use it | callers queue, and are served in order or time out |
| `Serve` | `serve` of `api/mod.rs` | one listener, its connections and descriptors |
| `Run` | `run` of `lib.rs`, `api::new`, the spawning of job and DNS | from the configuration to the exit code |
| `Persist` | the trait `acme_lib::persist::Persist` | abstract: a map |
| `DatabasePersist` | `acme.rs` and its table | several processes, each statement a step |
| `Records` | `config/records.rs`, `lookup_pre` of the authority | a step is one token of the file |
| `Metrics` | `remove_zero_metrics` of `api/metrics.rs` | byte by byte, a step is one line |
| `Util` | `util.rs` | integers of any width |
| `CertFacadeDatabaseProofs`, `ServicesProofs` | | theorems about `CertFacadeDatabase`, and about all of `Services` |
| `TlsAcceptorProofs`, `TlsWrapProofs` | | theorems about `TlsAcceptor`, and about `TlsWrap` with `ProxyStream` in it |
| `ProcessProofs` | | theorems about `Pool`, `Serve` and `Run`, and `MCProcess` |
| `DatabasePersistProofs`, `DataProofs` | | theorems about `DatabasePersist`; about `Records`, `Metrics`, `Util` and `MCData` |
| `MCCertFacadeMemory`, `MCServices`, `MCProcess`, `MCData` | | symmetry and bounds for TLC; the last two put several modules into one run |

Operators marked "A plausible bug" are wrong versions of the operator after them;
nothing uses them. They document which mistake each property would reveal.

### Abstractions

- A certificate and its key are always written together, so `pem` is one number:
  the order that issued them, 0 for `None`. A TXT proof is its order's number.
  Numbers grow with every order, so "older" is "smaller".
- A row is a record in a set. `SELECT * FROM cert LIMIT 1` has no `ORDER BY`, so
  `FirstCert` is the set of all rows (`None` when there is none).
- The whole-row `UPDATE` from the caller's copy is kept: `UpdateCert` overwrites the
  row by id with what the caller read earlier.
- Transactions are READ COMMITTED, Postgres's default, and nothing is read
  `FOR UPDATE`. What a transaction writes appears at its commit, so the last
  statement and the commit are one step; `now` is read in that step, whose length
  is far below the unit of the clock. `stop_cert` updates through the pool, outside
  its transaction: also one step.
- Every `?` is `Fail`: the attempt ends, an open transaction is rolled back, and the
  loop logs the error. Where it may happen is the constant `FailAt`.
- `Interval` bursts: `due` is the next deadline, missed ones fire at once.
- `HOUR` is the number of clock values between two ticks of the interval. The
  comparison with one hour ago is strict, as in the code.
- **The loop of this commit skips `manage`** (`if true { ... continue; }`,
  `cert.rs:60`). That literal is the constant `Skipping`. With `TRUE` the job does
  nothing and every property holds for want of steps, so all runs set it to `FALSE`:
  they check the protocol that the code implements around that line.
- All processes read one clock that never goes back.
- The CA accepts an order's own proof only, may hand out an order that is already
  valid, and may leave a refreshed order pending (the loop of `validate`).

In `ProxyStream` a stream is positions `1..Length`, the header the first
`headerLen`. `data` is a `Vec` with room for `BufferSize` bytes (256), and
`poll_read_buf` reads no more than fits (`Fill`); a `Vec` that is full doubles before the
read (`Reserve`), which takes another poll. A header of version 2 with extensions may be longer
than that, so `HeaderLens` has lengths on both sides of `BufferSize`. `woken` says that the executor will poll the task, `waker` that the
socket has its waker. A read that is `Ready` leaves none; that is why the second
half of a header is never looked for. `Rewake` is the extra poll that TLS
connections may get from the other future of `try_join!`; in `TlsWrap` that is the
answer of the database to `load_cert`, and only it. That a reader drops its
buffer on `Pending` is the contract of `poll_read`, and what hyper and rustls do.

In `TlsAcceptor` the cache holds a certificate and the config made of it: one
number, since both are always written together. Stored certificates only get
newer: `NeverOlder` of the facade.

In `DatabasePersist` the number of a row only tells it from others with the same
content, and `by` is history. A put that committed may still return an error. `get`
has no `ORDER BY`: it returns any row of its key.

In `Pool` a call is its demands for connections and nothing else. sqlx queues those
who wait; the time-out is `TimeOut`, an action without fairness, so that no property
relies on it.

In `Run` the sockets, the CA and the tasks fail when they like. `arcs` is who holds
the `Arc` of the runtime: `run` itself, the future of `CertManager::new`, the thread
of its `spawn_blocking`, or the task of the interval loop. `freed` says where the last
one was dropped, which panics in tokio if that is inside an async call. `Drop` waits
for the blocking thread if dropping the runtime does.

In `Serve` a failed `accept` for want of a descriptor is no step of its own: the loop
asks again at once and finds the same, so `Accept` waits for a descriptor. (The loop
spins meanwhile: a cost, not a state.)

In `Registration` credentials are left out: a random id is one that is not taken.

In `Metrics` a byte is one of the four that `remove_zero_metrics` tells apart; `"space"` is
the blank.

In `Util` the width is the constant `Half`, 2^63 in the code. An error is its type,
the kind of an `IoError`, and whether `anyhow` carries it.

## Runs

| Run | Module | Result | Question |
|---|---|---|---|
| `memory_job` | `MCCertFacadeMemory` | pass | two managers: unique holder, nothing older stored, fresh stamps respected, `CertLease` implemented |
| `memory_takeover` | `CertFacadeMemory` | violation | is only a timed-out job taken over? |
| `database_one` | `CertFacadeDatabase` | pass | one process that fails or dies: `CertLease`, proofs, nothing older, abandoned rows worked on again |
| `database_stop` | `CertFacadeDatabase` | violation | does `stop_cert` store only for the holder? |
| `services` | `MCServices` | pass | the job with a second one, with requests, or with DNS queries on the same tables |
| `connection` | `TlsWrap` | pass | every cut, end and poll of a stream; which certificate is served; when the handshake starts |
| `proxy_lost` | `ProxyStream` | violation | can what came with the header be read? |
| `proxy_truncated` | `ProxyStream` | violation | is a truncated header reported? |
| `process` | `MCProcess` | pass | pool, listener, program: does everybody who waits go on, does the program end when it must, and only then? |
| `data` | `MCData` | pass | the acme table, the column, errors, `[records]` and metrics: is everything read back as it was written? |
| `run_no_listener` | `Run` | violation | does a program without listeners go on? |
| `serve_gauge` | `Serve` | violation | is the gauge the number of open connections? |

`process` and `data` check modules that share no state. In each behaviour one of them
goes on (`part`) while the others stay in their initial state, so the states add up and
do not multiply; each property is about its own module. The config `.cfg` of a run
names the bounds of each module in it.

Deadlock checking is off in all runs: the bounded clock, a
connection, a file or the program comes to its end.

### Bounds

- `memory_job`: the clock reaches 4 hours. A takeover needs more than one, so two
  takeovers fit, and with them a manager that was taken over twice and finishes
  late. Three orders let both managers get a certificate and one of them twice.
- `database_one`: `HOUR = 2` puts ticks strictly inside the hour; four hours and
  four orders allow two takeovers by restarted processes. A second id lets a wrong
  second row appear. `Abandoned` demands that the clock still reaches the deadline
  after the hour.
- `services`: three ids for two processes, so that a third row would show; a row
  becomes claimable at the end of the two hours; two orders are a stale and a current
  proof. Beside the first manager either the second runs, or two requests come, or the
  DNS is asked (`FewActors`): all three only meet in the rows, which the first manager
  writes.
- `connection`: a stream of four parts and a buffer for two: headers of one part (data is
  read ahead with it), of two (fits exactly) and of three (does not fit; an extra poll may
  finish it), cut everywhere. A peer that says nothing has one header only. Two connections suffice to put an older certificate back;
  the middle one of three certificates cannot be loaded. Either the peer talks and the
  connection is alone, or it says nothing beside the other one (`alone`): the two sides
  meet in the cache only, which has the same values in both.
- `process`: two callers of `stop_cert` on three connections, so that both can hold
  one and wait for the other; with two they could be stuck, which is what `NeverStuck`
  excludes by its premise. Four connections on two descriptors, one hanging, make the
  others wait for each other. `Run` is not bounded: the listeners are the program's.
- `data`: two processes and two keys; three rows, one too many for one key. Integers
  of three bits have every case of sign and carry. Seven tokens are two tables for one
  name with two values each way; seven bytes two lines with a zero.

### Fairness

- `CertFacadeDatabase!FairSpec`: the clock advances, and each manager's ticks and
  steps happen when they can. The runtime polls ready tasks and every awaited call
  returns. Failures and crashes have no fairness; in `database_one` they are
  confined to what follows `start_cert`, since an interval whose `start_cert` never
  succeeds resumes nothing.
- `ProxyStream!FairSpec`: a woken task is polled. Nothing is assumed of the peer.
- `TlsAcceptor!FairSpec`: tasks are polled, connections keep coming, and a database
  that is asked again and again answers at some point (strong fairness of `QueryOk`
  only; every single query may fail). `TlsWrap!WrapSpec` has the same of both, and
  strong fairness for the other connections only.
- `Pool!FairSpec`: free connections are handed out, statements return. Nobody needs to
  time out.
- `Serve!FairSpec`: the loop accepts what it can; connections end, except those in
  `Hanging`, which may stay for ever.
- `Run!FairSpec`: the main thread and the executor go on. Neither the CA nor a socket
  has to answer, and nothing has to fail.

## What the violations show

- `memory_takeover`: the branch of `start_cert` for an `Ok` row does not refresh
  `update`. Once a row is more than an hour old, the job just started on it looks
  timed out, and the next manager takes it over at once. `FreshJobLeftAlone` is what
  remains true: a stamped job is left alone.
- `database_stop`: the check of `stop_cert` and its update are not atomic.
- `proxy_lost`: bytes read ahead are dropped if the socket is empty at the first
  read. `ReadsStreamAfterHeader` says that this is the only loss.
- `proxy_truncated`: an incomplete header leaves the task without a waker.
- `run_no_listener`: without a listener `api::new` returns at once, which is taken for
  the end of the program; the DNS server and the job stop with it, and the exit code is
  0. (The example in `README.md` binds `https` and `prom` to the same port, 8081: with
  it the program ends as well, with an error, which `Bind` has.)
- `serve_gauge`: a task that panics is counted as an open connection for ever.
  `GaugeKeepsPanicked` says that this is the only way in which the gauge goes wrong.

Two processes on one database also lose certificates in `start_cert`: it writes the
whole row back as it was read, a certificate stored in between included. Nothing in
the repository claims the opposite, so there is no run for it; `NeverOlder` is
checked with one process and in memory, where it holds.

A header of more than 256 bytes is half read, even if it arrived in one piece: the first
poll reads what fits into `data`, `get_header` returns `Pending`, and nobody asks for the
rest: the connection hangs. The repository names no length that it supports, so
this is a limit and not a finding. `WholeHeaderAnswered` and `HandshakeStarts` say that
every header up to that length is answered; without `headerLen <= BufferSize` both are false.

The second arm of `load_cert` (`api/tls.rs:107`) takes an error of the query like "cached cert
is already the newest" and reuses the config, however old: that is what a server should do, but
not what the comment says. `ReuseIsFresh` is what is true of the comment.

## Proofs

### `CertFacadeMemoryProofs`

For any set of managers and ids, any `HOUR > 0`, any
bounds and any `FailAt`. Assumptions: `Bounds` (the constants have their types)
and `NoneIsNoRow` (`None` is not a row), both in `CertManager`.

- `TypeCorrect`: `TypeOK`, together with "a manager at work has a certificate".
- `HandedOver`: the inductive invariant `HandOver`. `UniqueHolder` alone is not
  inductive: after a store the row is `Ok`, a later start makes it `Updating` with
  the *same* stamp, and a manager left over with that stamp would hold the job
  again. So the invariant says of every manager at work, holder or not, that its
  stamp is its own, and either equals the row's (which is then `Updating`) or lies
  more than an hour behind it. A start from `Ok` finds nobody with the row's
  stamp, a takeover stamps the row later than anyone's.
- `AtMostOneHolder`: follows from it directly.
- `CertificateNeverOlder`: only `stop_cert` changes a certificate, its caller has
  the row's stamp, and `HandOver` says that its order is newer than the row.
- `FreshJobIsLeftAlone`: the hour between stamps bounds the hour between starts.
- `Refinement`: `CertFacadeMemory` implements `CertLease`; `start_cert` is `Acquire`,
  `stop_cert` is `Store` or `GiveUp`, `Fail` is `GiveUp`, all other steps stutter.
  The lemmas `StartCases` and `StopCases` say what each call does to the only row.

### `DatabasePersistProofs`

For any writers, keys, values and rows. Assumption: `NotACall` (`Idle` is not a call).

- `InsertsOnce`: "at most one row per key and writer" is not inductive, because a put
  decides to insert before it does. `Inserted` adds that row numbers are unique, and
  that a writer that found no row has none of its own under that key: others may insert
  meanwhile, only itself could have.
- `AgreesUntilInsert`: what of `Agreement` is safety. An update reaches every row of its
  key, and who inserts found none and has none of its own (`Inserted`), so a key whose rows
  agree stops doing so at most once per writer.
- `StepsOfMap`: the refinement `Stored` picks a row of each key. While no key is
  doubled it is the only one, and since an update keeps `by` apart, a step never
  ends a doubling (`StaysDoubled`): if there is none after a step, there was none
  before, and the step is one of `Persist`, or stutters.
- `Refinement`: with one writer `InsertsOnce` says that no key is ever doubled.

### `CertFacadeDatabaseProofs`

For any finite set of managers, any ids, bounds and `FailAt`, and any `CrashAt`.
Assumptions: those of `CertManager`, `CrashAtPlaces` and `FiniteManagers`.

- `EveryDomainFound` rests on `Base`: types, a manager with the job has a certificate,
  and `Kin`. That "every certificate has its domain" holds is not inductive, since
  `stop_cert` and `start_cert` write back a copy; `Kin` says that every copy in memory is
  one of a row that is still there, equal in id and domain.
- `AtMostOneRowEach`: rows alone cannot be bounded, because any process that found the
  table empty may still insert. `Counted` says that rows and those processes (`Blind`)
  together are never more than the managers: inserting takes the inserter out of `Blind`.
- With one process (`OneManager`): the invariant `Alone` adds `Sole` (at most one row,
  `start_cert`'s copy is that row, and whoever has the job has the stamp of the row and
  an order newer than its certificate) and `Published` (the proof in the domain is that of the
  order being validated). From it `ProofIsAnswered`, `CertificateNeverOlder`, and
  `Refinement`: every step is one of `CertLease` or a stutter, a crash included, which
  leaves the lease as it is.

- `StopsOwnJobOnly`, with one process: `StopOnlyIfHolder`, the comment in `stop_cert`, holds.
- What `JobResumed` rests on, for any number of processes: a row left `Updating` stays as
  it is until a job is handed out (`RowWaits`), every interval ticks within the hour
  (`TicksWithinHour`), and a row that was read as claimable still is one at the commit,
  because whoever else writes it meanwhile writes the table and not the copy, and
  the clock only adds to its age (`ClaimableIsTaken`).

`OneManager` is one process on the database. The four results for it are false for two, which
TLC shows at once: a second process takes the job over while the first still works on it
(`database_stop`), and `start_cert` writes back what it read.

### `ServicesProofs`

For any processes, requests, questions and configured types. Assumptions, besides
the ones above: `AsksAreKinds` and `NoneIsNoId` (the requests are finitely many, of the kinds that the
routes tell apart, and `None` is no id), `QuestionBounds` (SOA is answered before the configured records) and
`LabelsApart`: an id is never the label `_acme-challenge`, one that is no
UTF-8, or none at all, since ids are UUIDs.

- `AtMostOneRowEachBesideRoutes`, `DomainFoundBesideRoutes`: a step of `Services` is one
  of `CertFacadeDatabase`, or adds a domain with a new id (`AddsDomain`), or leaves
  the tables alone. Only the second needs more than the results before.
- `RegisteredIsKept`: `Handled` says of each request how far its handler is (`Progress`),
  that the domain it has inserted is `Free` (no certificate uses it and no job has
  proved anything in it), and that no two requests have one domain.
- `EveryAnswerIsCountedOnce`: `Tallied` has the counter at each label as the number of
  requests that were `Answered` so, and nothing elsewhere.
- `ChallengeIsAnswered`, for one process: between the two reads of a query (certificate,
  then domain) the job goes on. `Answering` is inductive: `Alone`; every proof in the tables
  is of an order that was made (`Bounded`); an order in memory is one being worked on
  (`InHand`); the order a query was asked for keeps its proof for as long as it is worked
  on (`StillProved`); and between its reads a query has the domain of a certificate
  (`Searching`).
- `ProvenIsFound`: from the same invariant.
- `CertificateNeverOlderBesideRoutes`, `RefinementBesideRoutes`, for one process: a route's
  domain is in nobody's lease. From the refinement alone, `StoredOnlyGrows`: a change of the
  stored certificate is to a newer one. `TlsAcceptor!Store` assumes no more of whoever
  stores, so the job and the acceptor fit.

### `TlsAcceptorProofs`

For any connections and versions. Assumption: `VersionBounds`.

- `ServesFreshEnough`: the invariant follows a certificate through `load_cert`: what was
  seen is never older than what was stored at the call, what is about to be installed can
  be loaded.
- `EmptyOnlyAtFirst`: whoever installs has a certificate, and every other step leaves
  the cache.
- `ReuseIsFresh`: what is true of the comment on the second arm (`api/tls.rs:106`). If the query
  returned a certificate, what is reused is as new as the one stored at the call.
- `InstallsNothingOlder`, which `CacheFollows` rests on: the cache goes back only by a
  connection whose call was before the newer certificate was stored.

### `TlsWrapProofs`

For any connections, versions, lengths of headers above 0, `BufferSize > 0` and `Length`.
Assumptions: `VersionBounds` and `OwnConnection` (the connection is one of the acceptor's, and
the lengths are numbers).

- `WrapImplementsAcceptor`, `WrapImplementsStream`: each step of `WrapSpec` is a step or a
  stutter of `TlsAcceptor`, and of `ProxyStream`. The theorems about the acceptor follow
  for the connection as it is built.
- `ReaderGetsStream`: the reader's data as a sequence says little about the next poll; so
  `Delivered` says that it is a piece of the stream up to the last byte taken, from
  behind the header or from behind all that was read ahead, and `Read` what each phase
  has of it (until data is taken, nothing is delivered).
- `OnlyHalfReadIsForgotten`: the exception is what `proxy_truncated` shows, and there is no
  other. `Asleep` says why: a poll that returns `Pending` for any other reason found the socket
  empty and left its waker, and every arrival wakes who has one.
- `FittingHeaderIsRead`: a poll that finds the rest of a header of at most `BufferSize`
  bytes ends `real_addr`, however the parts before were cut. `Read` has for it that `data` is
  within its capacity, which never shrinks (lemma `Filled`).
- `AnswerPollsStream`: the poll that the database's answer brings is always there to be
  had, so `MaxRewakes` takes nothing from `HandshakeStarts`.

### `ProcessProofs`

For any size, callers, stoppers, connections and listeners. Assumptions: `PoolSize`,
`FewCallers`, `FewConns`.

- `PoolNeverStuck`: the invariant has the pool's own promise, `InUse <= Size`, and that a
  caller in the queue is one that waits, once. If all connections are in use and everyone
  who has one waits for a second, the holders are as many as the connections and all of
  them stoppers; there are fewer stoppers than that.
- `GaugesAlwaysCount` (`GaugeKeepsPanicked`): `ServeInv` adds that who waits is in the backlog once; otherwise
  accepting one connection would accept two.
- `WaitingIsQueued` and `QueueMovesOn` of the pool, `NobodyIsForgotten` and `BacklogMovesOn`
  of the listener: who waits has one place, and each step leaves it, moves it up by one,
  or serves it as the first (in the pool it may time out). Nobody is overtaken. That
  one place is unique is inductive only with who is in the queue; the lemmas
  `Appended` and `Shifted` say what both queues do to places.
- `EndIsOpen` and `EndIsNear`: once a signal came or a part failed, `select!` has a branch to
  take, nothing takes that back, and the phases only go on.
- `EndsOnlyOnSignal` and `RuntimeIsKept`: `RunInv` says that nothing begins without
  a runtime, that `run` keeps its own `Arc` until it returns (so no other can be the last
  to drop it inside an async call), and that the API is done only without a listener.
- `PartsBehave`: a behaviour of `MCProcess` is one of `Pool`, `Serve` and `Run`, so the
  `Process...` theorems are the properties that the run checks.

### `DataProofs`

For any names, data and lengths, and any `Half > 0`, so for 64 bits, too. Assumptions:
`SomeLabels`, and those of `DatabasePersist` and `Util`. The data are sequences of any
length. Nothing is proved by induction over them; the step of the loop or of the reader
is the induction.

- `NamesServedAsListed` (of the run) from `FileIsServed`: `RecordsInv` says what the file
  lists so far (`Keyed`: keys are read once, and each label has a last one), that the table
  being read is that listing but for the array being read (`Current`), and that each name
  has the last of its tables (`Finished`).
- `LinesWithZeroGo` from `ExactlyZerosGo`: `Lined` says that what is left of the text is
  its rest from the beginning of a line, and that what is kept ends with one. That is why
  the loop may look at the end of its result instead of the line (`ZeroOfLine`): a
  zero cannot be put together from two lines. `Kept` says that what is kept has, at the
  rank of each byte that stays, that byte. The lemma `Smallest` (a set of numbers has a
  least one) finds the end of a line.
- `DataTypesCorrect`: the types of the four parts; of the record sets that they list
  nothing twice, and at most one CNAME.
- `RoundTrip`, and from it that realms stay apart, that the column gives back what was
  written, that times below 2^63 compare like the clock, and that `error` keeps what its
  caller can act on (`ColumnsAndErrorsHold`, `ValuesAndErrorsKept`).

### Only model-checked

All safety properties of the passing runs are proved. What stays with TLC:

- Liveness, which is out of the prover's reach (fairness and `ENABLED`). For each of these,
  what a step may do to who waits is proved; that the step is taken is TLC's:

  | property | proved of it |
  |---|---|
  | `JobResumed` | `RowWaits`, `TicksWithinHour`, `ClaimableIsTaken` |
  | `CacheFollows` | `ServesFreshEnough`, `InstallsNothingOlder` |
  | `WholeHeaderAnswered` | `OnlyHalfReadIsForgotten`, `FittingHeaderIsRead` |
  | `HandshakeStarts` | `AnswerPollsStream`, `FittingHeaderIsRead` |
  | `EveryCallEnds` | `PoolNeverStuck`, `WaitingIsQueued`, `QueueMovesOn` |
  | `NobodyWaits` | `NobodyIsForgotten`, `BacklogMovesOn` |
  | `EndsAsAWhole` | `EndIsOpen`, `EndIsNear` |
  | `Agreement` | `AgreesUntilInsert`; the insertions to come are counted by TLC |

- That the four results for one process fail for more: that is what the violations show.

## Not modelled

- The handler of the DNS (`dns/handler.rs`): it times what the authority does. A
  message without a query makes it panic in the histogram; that task is the DNS library's.
- The option for a resolver (`config/dns.rs`), which nothing uses: some of its values
  reach `unreachable!()`.
- The histogram and the encoder of the metrics, logging, TLS and HTTP themselves.
- The ACME client library: its orders are what `cert.rs` uses of them.
  `create_p384_key` yields a PKCS#8 key and `create_server_config` reads RSA keys only,
  so a certificate that the job stores is one of those outside `Loadable`.
- That the reader's buffer may be too small for what was read ahead: `put_slice` in
  `poll_read` would panic; hyper and rustls bring larger ones. (A read of the socket
  may be as short as the reader likes.)

## Plan

Done: all components above, and proofs of every safety property and of the safety that
the liveness properties rest on. What is left:

1. The whole renewal: job, authority, CA and acceptor in one module, with what the
   acceptor can load, and its safety proved from the invariants above.
2. The resolver option and the sizes of read buffers, should the code come to use them.
