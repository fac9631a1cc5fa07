# Verification of the digital-signature trust platform

TLA+ models of the backend under `src/backend/app` (FastAPI, SQLAlchemy async,
PostgreSQL) and of the session client under `src/frontend/src/lib`, the TLC
configurations that check them, and TLAPS proofs of what matters most.

Everything here is translated from the source. Quotations of docs and comments
name the promise a property states; what the model *does* comes from the code.

## How the system runs

- Production runs three gunicorn workers (`src/backend/Dockerfile`) and one
  scheduler container over one PostgreSQL database. A worker is one asyncio
  event loop: its tasks interleave at every `await`, different workers
  interleave anywhere.
- A request's session reads with READ COMMITTED: every SELECT sees what is
  committed then. `autoflush` and `expire_on_commit` are off
  (`db/session.py:33-40`), so a row that was read keeps the values it had, and
  the commit writes values computed from those. There is no row lock and no
  version column anywhere. A SELECT is therefore one step and a commit another,
  and whatever the code read may be stale when it writes.
- Memory of a process (`_WRITE_LOCK`, the connection pool, the broker's queues,
  the rate limiter, the model cache) is one copy per worker and dies with it.
- A worker may die between any two steps. For a request that keeps nothing in
  shared memory this is the request never taking its next step, which every
  specification without fairness contains.

## Inventory

| Part | State | Operations | Hard because | What makes it correct | Modelled |
|---|---|---|---|---|---|
| Audit chain `services/audit` | `audit_logs` (primary key `seq`), a lock and a pool per process | `record`, `auth_event`, `AuditMiddleware.dispatch`, `verify_chain`, `create_anchor` | two workers compute the same `seq`; lock and pool wait for each other; crash between effect and row | the chain verifies at all times, anchors are true, a login and its row are atomic, nothing stays locked | `AuditChain`, `AuditLog` |
| Login and lockout `services/auth.py:61-121`, `api/v1/auth.py` | failure counter, lock, TOTP secret | `authenticate`, enroll, verify, disable | counter read, password hashed, counter written; a factor confirmed while it is replaced | failures in sequence lock, a lock goes with its time, a factor that is on was confirmed | `Login` |
| Refresh tokens `services/auth.py`, `services/users.py` | `refresh_tokens`, the account | login, rotate, logout, burn the family, revoke all, delete, reactivate, expire | check and commit are apart; a revocation misses rows inserted meanwhile | single use, dead sessions stay dead, an administrator's change ends sessions | `RefreshTokens` |
| Session client `lib/auth.tsx`, `lib/api.ts` | refs per tab, localStorage, cookie | bootstrap, login, calls with silent refresh, logout | several tabs and calls share one rotating token; lost answers; a logout overtaken | a session ends only for a reason; what is stored is alive | `SessionClient` |
| Detection `services/detection` | events, findings, alerts, incidents, rules | `run_detection`, `patch_rule`, `sync_rules` | read-then-insert replay check; unlocked counters; commit of the alert and of its incident are apart | earlier events are seen, bounds on incidents, alike alerts are linked, what is announced is durable | `Detection` (partly) |
| Alert triage `api/v1/threats.py` | alerts with status and notes | `patch_alert`, the retention purge | notes is read and written whole | notes and names survive patches that do not overlap | `Triage` |
| Users `services/users.py` | users | create, patch, delete | last-administrator check is read-then-write | an active administrator remains | `Users` |
| API keys `services/api_keys.py` | keys | create, revoke, verify, expire | a use commits after the revocation | a revocation holds | `ApiKeys` |
| Model registry `services/ml` | rows, files, a cache per worker | train, activate, deactivate, delete, score | file and row are two stores; caches of other workers; failures in between | at most one active model, scores come from it | `ModelRegistry` |
| Alert stream `services/realtime`, `api/v1/stream.py` | subscriber queues per worker | publish, subscribe, deliver, leave | full queue, slow or lost client | no gap in the middle of a stream | `AlertStream` |
| Scheduler `workers/scheduler.py` | tasks, stop flag | start, stop, job loops | cancellation at any await, also inside a job | stop ends | `Scheduler` |
| Rate limiter `core/rate_limit.py` | windows per worker | hit | window edge | the limit of a window | `RateLimiter` |
| Certificates and verdicts `services/crypto` | trust anchors, allow-list, certificates on file | `verify_raw_signature`, `validate_certificate`, `verify_document`, edits of the trust store | a greedy walk over certificates the sender chose; a trust store edited meanwhile; reads before an insert; findings and verdict computed apart | what is trusted leads to an anchor of the time, findings are exact, a verdict has its reason | `Verification` (partly) |
| Quantum-inspired optimisation `services/quantum` | scores, stored runs, rule weights | QUBO encodings, annealing, exposure scores, migration plans, weight tuning, incident grouping | energies kept up incrementally; penalties against objectives; an apply of a run computed earlier | answers have the energy they claim, plans are complete, tuning is never worse, an apply is whole | `Qubo`, `Annealing`, `Exposure`, `Migration`, `Tuning`, `Clustering` |
| Signature formats, notifications, HTTP shell, migrations, pages | none of their own | parsing, formatting, I/O | | | no (see below) |

How they interact: a verification or ingest request calls the crypto core, then
`run_detection` (events, alerts, incidents), which publishes to the alert
stream. Every mutating request passes the audit middleware; `authenticate`
writes to the audit chain in its own session. The client talks to the token
endpoints through the network; the scheduler anchors the audit chain and purges
old events, and with them their alerts and exposure scores. An administrator's
change of an account revokes its refresh tokens; an applied tuning run changes
the weights that detection scores with.

## Modules

| Module | What it is |
|---|---|
| `AuditChain` | the audit log with its three kinds of caller, locks, pools, crashes |
| `AuditLog` | the abstract append-only log that `AuditChain` implements |
| `MCAuditChain` | its instances; damage to historic rows (`DamageLocated`) |
| `RefreshTokens` | the token table of one account and every operation on it |
| `SessionClient` | browser tabs, composed with `RefreshTokens` (it extends it) |
| `MCSessionClient` | instances of both: a behaviour is one of the token table with requests from anywhere, or one of browser and table |
| `Detection`, `MCDetection` | `run_detection` on several workers, rule edits, the clock |
| `Verification`, `MCVerification` | a verdict from the certificate to the answer, and the trust store; a small PKI |
| `Users`, `Login`, `ApiKeys`, `ModelRegistry`, `Triage` | components that answer requests over rows of their own |
| `MCOperations` | instances of these five; it extends `Login`, the others share `v1` to `v9`; a behaviour is one of one of them |
| `Scheduler`, `AlertStream`, `RateLimiter` | background services with state in the process |
| `Qubo` | QUBO and Ising models, exact enumeration (operators only) |
| `Annealing`, `Exposure`, `Migration`, `Tuning`, `Clustering` | the solvers, and what is built on them |
| `MCServices` | instances of these eight; it extends `AlertStream`, `Scheduler` has variables of its own, the others share `v1` to `v13`; a behaviour is one of one of them |
| `MCTuning` | two tunings around a restart; a tuning of weights that are not stored as they are |
| `AuditChainProofs`, `DetectionProofs`, `VerificationProofs`, `UsersProofs`, `ModelRegistryProofs` | theorems about one component |
| `SessionProofs` | theorems about the token table and about the browser client composed with it |
| `OperationsProofs` | theorems about sign-in, API keys and triage, and what they and the two modules before say of `MCOperations` |
| `ServicesProofs` | theorems about the background services and the optimisers of `MCServices`, with a small library on sums |

Definitions named "Mutant" are plausible bugs of the definition after them. No
specification uses them; each shows that a property can fail.

### AuditChain

A task is one call of `record()` with the request around it: an `http` request
recorded by the middleware after its handler committed, a `login` whose attempt
is staged in the session that also carries the audit row, or an `anchor`.
`pc` follows the code's awaits: `wait_lock` (`async with _WRITE_LOCK`),
`read_head`, `commit`, `refresh`, then what `record()` did (`recorded`,
`raised`, or `conflict`, a failed flush that leaves the session's transaction
deactivated). Variables: `log` (the table), `writeLock` per process, `conn` (is
a connection checked out), `head` and `anchored` (what `_head()` returned to
`record` and to `create_anchor`), `effect` (the request's own change) and
`reply`. A commit succeeds when its `seq` is free and conflicts otherwise; the
pool raises only when it has nothing to give; `Crash(p)` takes a process's
tasks, lock and connections. A digest is the pair it was computed from, that
is, SHA-256 has no collision.

`AuditLog` is what a reader relies on: a sequence that grows only at its end,
in which nobody appears twice, where a recorded change was durable before its
row and a login and its row are one step. `Abstract` in `AuditChain` is the
refinement mapping: rows as who wrote them, effects as what is durable.

### RefreshTokens

A request is begun by its first read and then takes the code's reads and
commits one at a time: `rotate_refresh` is `RefreshReads`, `LoadsUser`,
`RotateCommits`; a refusal goes on with `_revoke_family` as `BurnReads`,
`BurnCommits`; `update_user` and `delete_user` are `ChangeReads`,
`ChangeCommits`, `DeleteCommits`. `seen` is what a request has read, `past` (a
history variable) the requests that had ended when it began. A commit that
finds its rows gone with the account fails (`CommitFails`). `Expire` may come
at any moment. The new token of a rotation does not depend on what happened
between the check and the commit, as in the code.

### SessionClient

`RefreshTokens` is the server; the client's variables are those of
`AuthProvider` per tab (`ref`, `status`), localStorage and the cookie. An
activity is one bootstrap, login, call or logout of a tab. Requests arrive
late, out of order or never, and answers may be given up at any time (`lost`).
Access tokens are not modelled: a call may be answered 401 at any time.
Opening or reloading a page abandons its activities. React's double mounting in
development is not modelled.

### Detection

A run is one call of `run_detection`: `Begin` reads the rules, `ReadReplay` and
`ReadBurst` are the two history queries, `CommitEvent` inserts the event with
its findings, `CommitAlert` the alert, `ReadRecent` and `JoinIncident` or
`OpenIncident` are `correlate()`, `Broadcast` ends it; `Fails` is the worker
dying or the database refusing anywhere. `JoinIncident` writes what the mapper
writes: `alert_count` from the row as it was read, `severity` only when the
alert's is higher than the one read.

Time stands still and then jumps. Moments with the same `now` are within ten
minutes of each other (so within the burst window and the 900 seconds of
`similarity`), moments one apart are within the six hours of `_WINDOW`, moments
two apart are not. Scores are exact, in tenths; rule weights are whole numbers.
Similarity is in hundredths, and its only fraction is cut off, which moves no
value across `_LINK_THRESHOLD` but may make two candidates equal; the model
then allows either.

### Verification

A request is one call of `verify_raw_signature`, `validate_certificate` or
`verify_document`; its `input` says which by what it brings: a "signature" with
a certificate (raw or CMS), a "certificate", a "key" (a raw signature with a
bare key, CMS without its certificate, or JWS with `x5c`: none of them asks for
a chain), a "pdf", or nothing that is signed. Whether the signature itself
verifies is part of the input.

`Lookup`, `ReadOthers` and `Save` are `_persist_certificate`; `ReadRoots` is
`enabled_anchor_certs`, whose rows come in any order; `ReachAnchor`, `DeadEnd`
and `TakeIssuer` are the three outcomes of one turn of the loop in
`build_and_validate`, `TooLong` its `else`; `CheckRevocation` is
`check_revocation` with its fallbacks (the answers of OCSP and CRL servers are a
choice); `ReadAllowlist` the query for T12, `Answer` the verdict and the
findings of a PDF. Between two awaits a request keeps its worker's event loop,
and the revocation servers are asked without an await: `Blocks` and `Runnable`.
An edit of the trust store is one step, because the unique key of
`trust_anchors` refuses the second of two additions. `Save` writes
`times_seen` from the value that was read; a second concurrent insert is
refused and ends its request with an error (`Forget`).

A certificate has names, a key, and its constraints; `Signed` says under whose
keys its signature verifies. Whether it is valid at the time asked about is the
input's `expired`. Findings are kept as a set of codes with the certificate
they are about. The history variables `known` and `offered` hold the
certificates on file when the request began and what has been an enabled anchor
since.

The signatures of a PDF are pyHanko's business; what the code gives it are the
anchors, and `None` when there is none, for which pyHanko takes the trust list of
the machine (`pdf_pades.py:63`). `PdfRoots` is that: the enabled anchors or, when
none is enabled, `DefaultRoots`, any set of certificates. A PDF may thus be valid
while nothing is an anchor, and `TrustIsGenuine` says when.

The code calls a chain "trusted" when it ends at an anchor: the violations of T06,
T08 and T16 on the way are findings beside the verdict, and only
`validate_certificate` turns T08 into "invalid". SECURITY.md:51-52 says that path
length and validity windows are enforced. The model does what the code does; the
run `verification_strict` checks the document, and fails. `VerdictExplained` is
about the rest: that a verdict has its reason among what was found.

### Users, Login, ApiKeys, Triage

A request reads and commits in steps of its own, as everywhere. A flush writes
the columns whose new value differs from the value that was *read*: `Flushed` in
`Users` and `Written` in `Login` and `Triage`. That is why an update computed
from a stale row can leave a mixture behind, and why these modules do not simply
assign.

In `Users`, `Begin` is the authentication (the caller is an active
administrator), `Reads` is `get_user` with what is decided from the row alone,
`Counts` is `_guard_last_admin`, and `Commits` the change. The identity map of
SQLAlchemy gives the caller's own row back unchanged when it is read as the
target: `Target`. The refusal to deactivate oneself comes before the guard in the
code only for some bodies; `Reads` and `Counts` keep that order. The history
variables `removals` and `during` record which commits took an administrator
away and which requests they overlapped.

In `Login` an attempt reads the row once (`Decides` is everything that follows
from it: the lock, the password, inactivity, the second factor) and commits
through `CountsFailure` or `Succeeds`; `EndsUnwritten` is a refusal, or the
conflict of its audit row that `AuditChain` explains. The hash of a password is
an await-free second during which other workers commit. The TOTP routes are
`TotpReads` and `TotpCommits`. A secret is named by the enrolment that made it,
and nobody has a code of a secret that was not answered yet.

In `ApiKeys` a use writes `last_used_at` and nothing else; keys expire at any
moment. In `Triage` a text of notes is the sequence of the requests whose lines
it has; a patch of an alert that the purge deleted fails with its note.

### ModelRegistry

`Train`, `Saves`, `Inserts`, `Evaluates` are a training: file first, then the
row, then the metrics, which load the file again. An activation is `Checks`,
`ActivateSweeps`, `ActivateCommits`: the UPDATE of all rows locks every row until
the commit and waits for rows another one holds. A deletion unlinks the file,
then deletes the row; whatever fails in between leaves the row without its file.
`Invalidates` drops the cache of the worker that served the request, and of no
other; `Score` reads the id of the active row and then looks into its worker's
cache. Ids are never given out twice.

### AlertStream, Scheduler, RateLimiter

A broker per worker; `Publish` is one step for all queues of a worker because it
has no await. A stream whose queue was dropped goes on sending what is in it and
then keepalives. A reconnecting client is a new stream.

In `Scheduler` a task stands in its first wait, in its job or in a wait between
two. `Stop` cancels every task that is not done and awaits them; a cancellation
that reaches a job usually ends it, but the job may turn it into an error of its
own that the loop logs. Then only the event that was set before ends the loop.

`RateLimiter` is one key in one worker; the first window opens at zero.

### The optimisers

`Qubo` holds a model as its linear and quadratic coefficients over pairs of
variables; a bitstring is the set of its ones. All coefficients are integers:
each user of it scales by what the code divides by, and says so in its first
comment. `Annealing` is one call of `solve`: spins start anywhere, a sweep visits
them in any order, an uphill move may be taken or not. So it covers every seed,
schedule and temperature. `Migration` builds `plan_migration`'s model, decodes
what a solver may answer and stores it; `Tuning` does the same for
`tune_weights`, with requests that read rules and history, store a run, apply one,
or patch a weight in between. `Clustering` takes clusters out of a window one by
one. An exact solver answers the first optimum in the order of the masks; any
other solver answers anything. `Before` compares two bitstrings as the masks that
`brute_force` counts through, by the highest bit in which they differ. `Exposure`
computes `score_qes` in thousandths and stores the scores of a window, while events arrive and are purged.

`Tuning` compares candidates as they are and stores them rounded (`as_dict`, three
decimals), as the code does. Weights are whole numbers of which `Unit` make 1.0, and
a stored weight is a multiple of `Grain`. The ratio of the two is a bound: with 10
steps in a unit a third of it is stored as three of them, as 0.333 is with the
code's 1000.

The objective of `Clustering` is the one the QUBO is built from, with gamma for
every pair (`correlation_qubo.py:98-101`); see below for what the documents say.

In `Tuning`, `order` is the part of the state that no code stores: in which order
a Python set of rule codes is iterated. It is fixed for a process and drawn again
by `Restart`.

## What the runs check

| Run | Instance | States | What it shows |
|---|---|---|---|
| `audit` | 2 processes, 3 tasks of any kind, pools of 2 | 130k | see below |
| `audit_login_answer` | 2 processes, 2 tasks | | **violated**: `LoginSurvivesAuditError` |
| `sessions` | 3 tokens, 4 requests; 2 tabs, 4 activities, 3 requests, 3 tokens | 0.5M | see below |
| `tokens_replay` | 3 tokens, 4 requests | | **violated**: `ReplayRevokesFamily` |
| `client_logout` | 2 tabs, 3 activities, 3 requests | | **violated**: `LogoutEndsFamily` |
| `detection` | 3 runs, 3 submissions, 1 rule, 3 moments | 0.8M | see below |
| `verification` | 2 requests of 7 kinds, 11 certificates, one edit | 0.3M | see below |
| `verification_strict` | 1 request, the same PKI | | **violated**: `ChainEnforced` |
| `operations` | 3 requests (4 in a sign-in), 2 people or workers, 3 models | 0.4M | see below |
| `services` | 2 workers, 2 streams, 2 jobs, QUBOs of up to 9 variables | 1.2M | see below |
| `tuning_reproducible` | 2 tunings, 1 apply, restarts | | **violated**: `RunsAgree` |
| `tuning_rounding` | 1 tuning of 3 rules | | **violated**: `ShippedNotWorse` |

Each passing run takes a few minutes at most with two workers.

`audit`. `ChainVerifies`: `verify_chain` accepts the table from every start at every
moment. `AnchorsTrue`: an anchor names a head that was there, although it is read
outside the lock. `LoginAtomic`: attempts and rows are committed together.
`DamageLocated`: a changed, rehashed or missing row that has a row after it is
reported at the row or right behind it, by a check from any start that is not behind
the damage (a check that starts at a missing row's number, except at the beginning
of the chain, takes its successor's link on trust). `ImplementsAuditLog`: refinement
of `AuditLog`. `TasksFinish`: two logins that hold the connections of their process
while they wait for the lock, and a middleware call that holds the lock while it
waits for a connection, block each other until the pool's timeout; every task that
has begun comes to an end all the same. Fairness: weak fairness of the steps of a
task that has begun (`Progress`), because the event loop resumes every ready task
and the pool's timeout expires. Arrivals and crashes are not fair.

`sessions`, the token table. `SingleUse`: two successors of one token need two
requests in flight together. `ReplayEndsFamily`: after a refused replay the family
is dead unless a rotation was in flight with the refusal. `ChangeEndsSessions`: a
password change or a deactivation ends every session whose request ended before the
change began. `DeadStaysDead`: no step brings a finished family back.

`sessions`, with a browser. `EndsAreExplained`: a tab loses its session only after
an answer was given up (for any error that the fetch or its parsing throws), a token
was presented twice or another tab left with the token. `StoredIsLive`: under the
same conditions the token in localStorage is alive or being exchanged. The
constraint `Relevant` stops behaviours of the browser at states where `lost` or
`PresentedTwice` holds: both are stable and make both invariants true.

`detection`. `EarlierEventsAreSeen`: a run that begins after an event with its
signature was committed reports T14, and one that completes a burst reports T15,
unless the rule was off when it began; the clock tells inside a window from outside
and does not examine its edge. `IncidentBounds`: an incident counts between one and
all of its alerts; its severity is one of theirs and not below that of the alert
that opened it, in spite of lost updates. `SerialIncidentsExact`: without overlap
the row is exact. `AlikeAreLinked`: an alert opens an incident only if nothing it
could have joined was there when its run began, and one that joined has its like
there. `AnnouncedIsDurable`: what is announced can be looked up, and no finished run
leaves its alert unannounced. Two runs that overlap may each open an incident for
alike alerts; the properties say exactly that much and no more.

`verification`. `TrustIsGenuine`: a trusted chain leads by issuance from the
certificate asked about to the key of an anchor that was enabled at some moment of
the request, and every signature of a valid PDF to such an anchor or, if no anchor
was enabled when they were read, to one of `DefaultRoots`. `ChainFindingsExact`:
violations of CA, keyCertSign and path length are reported for the chain that was
built, no more and no less. `FoundUnlessAmbiguous`: while no certificate at hand has
two issuers, the walk gives up only when no chain leads to an anchor (with two it
may go astray, and the model shows it does: the walk does not turn back).
`KeyReuseSeen`: of two certificates on file with one key and two subjects, the later
one was reported, unless the sightings overlapped or the request failed.
`VerdictExplained`: every verdict but "valid" names its reason among the findings,
and a valid one has no finding that makes others invalid or indeterminate
(violations of T06, T08 and T16 do not, see `verification_strict`).
`EveryRequestEnds`: rings of CAs and everything else a sender may choose end in an
answer or an error. The last one assumes weak fairness of the steps of a request
that its worker can run: the event loop resumes what is ready, the database answers
or times out, and so do the revocation servers (`httpx` has a timeout).

`operations`. `AdminRemains`: an active administrator is left unless the last two
left in requests that overlapped (any two such removals of the history exempt what
follows). `SerialFailuresLock`: wrong passwords each read after the one before was
recorded lock the account in time, whatever is committed between them.
`LockSurvives`: a lock in force goes with its time, or by the success of an attempt
that had read the row before the lock. `MfaConfirmed`: a second factor that is on
asks for a secret its owner has answered for, unless a TOTP request wrote across
another one: that overlap is allowed by the code and exempted here, so the property
is about what else may go wrong, not about the overlap. `RevocationHolds`: no
request that comes after the answer to a revocation, or after the expiry, is
admitted, although uses commit late. `OneActive`: at most one model is active; the
row locks of the sweep are what keeps it. `ScoredWasActive`: a score comes from the
model that is active when it is asked for, also on workers whose cache nobody
invalidated (the id that `/ml/score` reports beside it is read a second time and is
not examined). `TriageKept`: notes and names survive patches that do not overlap.

`services`. `StopEnds`: `stop()` returns, also when a job swallows its cancellation;
fairness as in the next section. `NoGap`: a slow client loses the end of its stream
and never a part of its middle. `WindowLimit`: a refused request had a full limit
admitted less than a window before it, and no stretch as long as a window admits
more than twice the limit. `BookkeepingExact`: local fields and carried energies are
what their definitions say after every flip, an answer has the energy it claims, and
is optimal when it says so. `PlanComplete`: a stored plan puts an identity into one
wave or reports it, and a wave beyond the capacity is reported. The comment of
`pq_risk.py:248` calls the one-hot term "exactly one wave per identity", but it is a
penalty that others may outweigh, so of an optimum the property says what the
penalties do guarantee: two waves are chosen for an identity only if its effort is
above 3 and the capacity above 6, and one is left out only if none of the first
three waves has room for it. The smallest case of two waves is a capacity of 10 and
an effort of 10. `TunedNotWorse` is about the weights a run *stores*, whatever the
solver answers: if the weights it found are ones that rounding keeps, the stored
ones score what the run claims and at least as well as those, and rules that are not
tuned keep their weights up to the rounding. If rounding changes the weights that
were found, nothing of the kind holds: `tuning_rounding` is that case.
`AppliedWhole`: after an apply the rules have the weights of its run unless another
commit overtook it, which may leave a mixture. `ClustersSound`: clusters and the
rest divide the window; with an exact solver each is worth more than nothing by the
objective of the QUBO, which takes gamma from every pair, and nothing that is left
is. `ScoresStand`: stored scores cite events that are still there, and no key scores
lower than a key of its family that is as strong, with data as safe.

### Fairness

Only three properties need any. `TasksFinish` and `EveryRequestEnds` are
described above. `StopEnds` assumes that the event loop resumes a task whose
await came to an end, that a job comes to an end (it waits for the database
alone), and that `stop()` is resumed when all its tasks are done; nobody is
obliged to start or stop a scheduler. No other specification states fairness,
and none of the other properties needs it.

### Bounds and reductions, and why they are enough

- Three tasks in two processes give two writers in one process and one in
  another, a conflict, its repetition, and a crash in the middle. With all three in
  one process two logins exhaust its pool while the third task holds the lock.
- Four requests over three tokens give login, rotation, replay of the first
  token and one more operation of any kind around them, all interleaved.
- Two tabs with four activities and three requests give a login, a second page that resumes from
  localStorage, and two activities that compete.
- Three runs give an opener and two that join or compete. `Few` and `Rarely` in
  `MCDetection` bound the rest: at most two of three are under way together (the
  third still may begin before, between and after), one run fails or the rule is
  off but not both, a run that fails before its event is committed is left out
  because it leaves nothing behind, and the rules change while no run is under
  way, since a run reads them in its first step only. The clock moves while at
  most one run is under way.
- Two requests give two sightings that overlap, and a blocked worker; both are
  served by one worker, since a request of another worker differs only in that
  it may go on in between, as the administrator does. The eleven certificates of
  `MCVerification` hold a CA with three certificates of two issuers (one of them
  rekeyed and without keyCertSign), an end entity that issued, a path length
  that is kept and one that is broken, a key under two subjects and a ring. The
  depth is 4 instead of 12: the longest chain to an anchor has four certificates, the
  ring any number. One edit of the trust store at any moment, from two
  initial stores, lets an anchor or an entry appear or vanish under a request; with
  the only anchor disabled, a PDF is checked against the default list.
- `operations`: two people are the last two administrators or analysts, and two
  workers one whose cache is dropped and one whose is not; three requests are two
  that compete and one that sees the result; four attempts are two failures (the
  limit), an attempt that overlaps them and one after the lock. Three models are
  an active one, its successor and one that is trained or deleted meanwhile.
- `services`: a queue of two and four alerts fill, drop and outlive it. A limit
  of 2 in windows of 3 over 8 units of time has every position of a burst
  relative to an edge. Two sweeps with two restarts and two Trotter slices carry
  every incremental value across each kind of boundary once; the QUBOs have a
  one-hot pair, a frustrated triangle, and a single variable. Portfolios cover
  one, two or three identities with the smallest and largest risk, criticality
  and effort; up to three waves and capacities of 0, 2 and 10 have plans without
  room, with an overfull wave, and one in which an optimum takes two waves for an
  identity. Two rules that fire together only on an attack are the least in
  which redundancy decides; the F1 threshold, levels and costs are scaled so
  that the optimum depends on it. Three rules with a third each are the least sum
  that rounding takes below the threshold. Windows have up to five events with weak and
  strong links, and up to two clusters instead of twelve. Keys cover every entry
  of the strength tables' ends, points between them, and none.
- A behaviour of `MCOperations` or `MCServices` is one of one component; they
  share a run because they share no state.
- Of states that differ in names alone one is explored: by symmetry for tabs,
  activities, runs, people and models, which the specifications do not tell apart;
  requests and tokens of `sessions` are used in the order of their numbers
  (`InOrder`), which no definition compares. Symmetry is not sound with liveness: `audit` fixes what the
  tasks of a process are (`Sorted`) and in which order those of one kind begin
  (`InOrder`), which only renames tasks, and `verification` and `services` use none.
- Deadlock checking is off where the bounded system really stops (every request
  or run is used up). `AuditChain` states its end as `Terminated`.

## What disagrees with the documents

| Run | Document | Code |
|---|---|---|
| `audit_login_answer` | `chain.py:80` "callers should not fail on audit errors" | the failed flush poisons the login's session: the login is answered 500 and its attempt is rolled back |
| `tokens_replay` | SECURITY.md:30 "a replayed refresh token revokes the whole family" | a rotation in flight inserts its token after the family was read |
| `client_logout` | docs/API.md:23 "revokes the whole token family" | only the presented token is revoked, and nothing if a rotation came first |
| `verification_strict` | SECURITY.md:51 the chain builder "is deliberately strict: ... path-length and validity windows are enforced" | an expired issuer or one with too many CAs below it is a finding, and the chain is "trusted" and the signature "valid" all the same |
| `tuning_rounding` | `tuning.py:167` "never ship a config worse than the current weights" | candidates are compared before they are rounded: three weights of a third reach the threshold of 1.0, the 0.333 that are stored and applied do not |
| `tuning_reproducible` | `services/quantum/__init__.py:4` "Every run is seeded and reproducible" | redundancy is counted in the iteration order of a set of strings and read in one order only, so that it depends on the hash seed of the process |

Others need no run, because the text and a line of the code say different things:

- ARCHITECTURE.md:381 (trust anchors "never inferred", only configured) and the
  docstring of `validate_pdf` (`pdf_pades.py:36-37`, without roots pyHanko's default
  is "untrusted"): with no enabled anchor the PDF validator is given `None`
  (`pdf_pades.py:63`), for which it takes the trust list of the machine.
- `correlation_qubo.py:3-5` and ARCHITECTURE.md:461 take gamma once for every member
  of a group, `Σ w_ij − γ|S|`; the model that is solved takes it once for every pair
  (`correlation_qubo.py:98-101`). Five events that are all alike at 0.5 are worth
  5 − 3 = 2 with a gamma of 0.6 by the documents, and 5 − 6 = −1 by the code, which
  leaves them ungrouped. `ClustersSound` speaks of the code's objective.
- ARCHITECTURE.md:415-416 chooses the penalty λ "above the largest objective swing",
  and `pq_risk.py:248` says "exactly one wave per identity". λ is four times the
  largest score (`pq_risk.py:240`), which both the weight of a late wave and the
  capacity term can exceed. `PlanComplete` says what is left.
- ARCHITECTURE.md:437 gives `QES = 100 · (1 − ∏ (1 − wᵢ · subfactorᵢ))`; the code
  multiplies the algorithm's factor with a weighted sum of the others
  (`pq_risk.py:149`). `ScoresStand` holds of the code's formula.
- `rate_limit.py:3-5` says that with `REDIS_URL` set the limits hold across workers.
  Nothing reads it there: every worker counts for itself, and so does the model.

## What is proved

Every safety invariant and every action property that a run checks is also a
theorem, for any number of tasks, processes, connections, tokens, requests, tabs,
activities, runs, submissions, rules, certificates, accounts, keys, models,
workers, streams, identities, waves, variables of a QUBO and events of a window.
Each follows from an inductive invariant: Init, one step per action, and temporal
logic. An invariant was checked with TLC on the instance of its run before its steps
were proved.

- **Audit chain** (assuming `PoolSize` is positive and `NoTask` is no task).
  `TypeCorrect`, `LockDisciplineHolds`, `StaleOnlyByOthersHolds`,
  `ChainVerifiesAlways`, `AppendOnlyHolds`, `AnchorsTrueAlways`,
  `LoginAtomicAlways`, `DamageLocatedAlways`, and `Refines` (the table implements
  `AuditLog`). The table's invariant is `ChainShape` with `HeadsReal`: numbers
  without a gap, every row built from its predecessor, and every head in a task's
  hands still in the table. `ChainVerifies` alone is not inductive: it does not
  say that a head in flight is real, so a commit could break the chain. Atomic
  logins need `LoginStages`: where a login stands decides what became of what it
  staged. `DamageLocated` follows from `ChainShape` without induction: the first
  row at which `verify_chain` stops is the least one that does not fit, and the
  lemmas `MissingRow` and `ChangedRow` say which that is, for every start.
- **Refresh tokens** (assuming `None` is no token). `TypeCorrect`,
  `OnlyLeavesLiveAlways`, `SingleUseAlways`, `ChangeEndsSessionsAlways`,
  `ReplayEndsFamilyAlways`, `DeadStaysDeadHolds`. The strengthenings say what a
  request has *covered* by its reads: a token about to be rotated had no
  successor when its request began (`NoEarlierSuccessor`), an administrator's
  request has read every live session older than itself (`ChangeCovers`), a
  refusal has read its family but for what is in flight with it
  (`ReplayCovers`).
- **Session client** (assuming besides that `None` is no request).
  `ClientImplementsServer`: whatever the tabs do, the token table behaves as
  `RefreshTokens` says, so that the theorems about it hold with the client.
  `EndsAreExplainedAlways` and `StoredIsLiveAlways` follow from `ClientInv` (who
  sent which request with which token, and what an activity that waits may still be
  answered) and from `RegularInv`: as long as no answer was given up and no token
  presented twice, a family is a chain, a token is revoked by its exchange or by a
  logout with it, and the stored token was presented only by an activity that waits
  for its successor.
- **Detection** (assuming a finite set of runs, `None` none of them, graded
  findings, a natural bound of the clock and a natural threshold). `TypeCorrect`,
  `AnnouncedIsDurableAlways`, `IncidentBoundsAlways`, `AlikeAreLinkedAlways`,
  `EarlierEventsAreSeenAlways`, `SerialIncidentsExactAlways`. `Stages` says what of
  a run is in the tables; `JoinBounds` that what a run read of the incident it is
  about to join stays within the bounds while the incident grows; `DecisionHolds`
  that what it concluded from the recent alerts still holds when it writes;
  `LookedUp` what a run has found by the time it inserts its event; `JoinCurrent`
  that a run which overlaps no member of its incident holds the incident's row as
  it is. Without them the properties are not inductive, because the decision and
  its commit are two steps.
- **Verification** (assuming finitely many certificates with well-typed
  attributes, well-typed inputs, a positive depth, and any set of certificates as the
  default roots of pyHanko). `TypeCorrect`,
  `TrustIsGenuineAlways`, `ChainFindingsExactAlways`, `KeyReuseSeenAlways`,
  `VerdictExplainedAlways`, `FoundUnlessAmbiguousAlways`. `Inv` collects what each
  stage of a request guarantees (`Stage`), where chain and anchors come from
  (`Provenance`), that a first sighting has been compared with everything on file
  when its request began (`Sighting`, `Sighted`), and that the findings determine
  the verdict (`Reasons`). None of the theorems' properties is inductive: trust
  needs the issuance of unfinished chains and that anchors in hand were enabled
  during the request, key reuse needs what a request has found before it inserts
  its row. That the walk finds what there is needs `Walked`: each certificate of the chain
  but the last is issued by the next and is not an anchor, and a request that gave up
  has no issuer of the last one at hand. With one issuer for each certificate every
  other chain then starts with this one; a certificate with the key of one already
  in the chain counts as met, as in `x509_chain.py:81`.
- **Users** (assuming that every body of a PATCH is one the schema accepts).
  `TypeCorrect`, `AdminAlwaysRemains`. `AdminRemains` alone is not inductive: it
  says nothing of a request about to commit. `Covered` does: whoever is about to
  commit something that would take an administrator away is `Backed` by another
  account that is an administrator still, or that was removed during the request,
  which is the overlap. It holds at the read because a request that passes
  without counting either changes no administrator or (`OwnRow`) comes from
  somebody else, who is one.
- **Login** (assuming a positive limit). `TypeCorrect`,
  `SerialFailuresLockAlways`, `LockSurvivesAlways`, `MfaConfirmedAlways`. The
  streak is at most the counter (`Counting`), which is below the limit at all
  times because the failure that would reach it sets the lock and starts again;
  `Current` says that a request nobody has overtaken holds the row as it is, and
  `Decided` what was concluded from it.
- **API keys**. `RevocationAlwaysHolds`, with `RevokedInRow` (an answered
  revocation is in the row, whatever commits late) and `InTime` (a use that passed
  its check came before the end of its key).
- **Model registry** (assuming `NoModel` is no model). `TypeCorrect`,
  `OneActiveModel`, `ScoresAreActive`. `HoldsActive`: whoever holds rows
  holds all active ones; with `OneSweep` and `HoldsOwn` an activation finds
  nothing active but what it cleared. `OwnModel` keeps a row that is inserted
  meanwhile out of that.
- **Triage**. `TriageAlwaysKept`, with `KnowsNotes`: a patch that nobody overtook
  holds every line that was answered.
- **Alert stream** (assuming a natural bound of alerts). `TypeCorrect`,
  `NoGapAlways`, from lemmas about a run of consecutive numbers that is extended
  at its end or moved from the queue to the client.
- **Rate limiter** (assuming a natural limit and a positive window).
  `WindowLimitAlways`. `LimiterInv` says that the counter is the number of hits
  admitted in the open window, up to the limit, and that the part before its start
  of any stretch that reaches into it holds no more than the limit (`OneBefore`);
  without that part twice the limit would not be inductive.
- **Annealing** (assuming a coefficient for each variable and pair, and a positive
  number of replicas). `BookkeepingExactAlways`. A flip changes the energy by
  what the field says, and each neighbour's field by twice the coupling: both are
  lemmas about sums over pairs. The energy in spins is eight times the energy in
  bits (`SpinEnergy`), which is what an answer claims; an enumeration is least of
  all (`BruteOptimal`).
- **Tuning** (assuming finite samples whose events were seen a natural number of
  times, whole weights, and levels that rounding keeps; with the units of weights and
  costs that `MCServices` gives it). `AppliedWholeAlways`, `TunedNotWorseAlways`: a
  run's claim is the score of what it stores, because the weights it chose are
  levels and weights it found, and rounding changes neither where the property
  speaks (`ScoreInv` adds that they are numbers and that who tunes has read a
  sample); an apply that is still current has read what it will overwrite.
- **Migration** (assuming identities with criticality 1 to 5 and a positive
  effort, at least one wave and a natural capacity). `PlanCompleteAlways`. An
  optimum cannot be improved by flipping one bit (`Cheapest`, `Marginal`). Setting
  the bit of an identity that has none costs less than the penalty it saves in a wave
  with room (`NoRoom`), and clearing one of two bits pays unless the capacity
  term is large (`OneWave`).
- **Exposure** (assuming keys with the curves the code knows, natural lifetimes and
  the four levels of exposure). `ScoresStandAlways`. Interpolation is monotone
  segment by segment and between them (`RsaMonotone`), rounding and division keep
  the order (`QuotientMonotone`), so the weighed product of factors does too.
- **Clustering** (assuming a similarity for every pair of a finite window and
  natural gammas). `ClustersSoundAlways`. Renumbering the events that remain keeps
  the energy of a group (`ClusterModel`); the empty group costs nothing and comes
  first among equals, so an exact solver that answers a group answers one that is
  worth more than gamma, and one that answers a group without links, or none, shows
  that no group is (`ExactPick`, `WorthWeight`).

Those from the rate limiter on are theorems about `MCServices`, those before about
the modules or, for `MCOperations`, about the composition: `UsersProofs` and
`ModelRegistryProofs` are carried over by instances of them under the same
substitution.

Sums over finite sets are folds, which have no arithmetic law of their own for the
provers. `Total` and its lemmas (`TotalRemove`, `TotalPlus`, `TotalTimes`,
`TotalParts`, `TotalImage`, ...) give them one. Their induction on a set is an
argument by least counterexample: the subsets for which a lemma fails have, if there
are any, one of least size (`LeastNumber`, `LeastSet`, by the theorems on
well-founded relations), which cannot fail. So sums, rows of the audit log and
chains of certificates of any length are within reach without an induction rule.

Proved, but not a property of a run, because a step of the model shows them at
once: the type invariants, `LockDisciplineHolds`, `StaleOnlyByOthersHolds`,
`AppendOnlyHolds` and `OnlyLeavesLiveAlways`.

Only model-checked: `TasksFinish`, `EveryRequestEnds` and `StopEnds`, since
liveness under fairness is beyond the prover.

## What is not modelled

- Parsers of CMS, PAdES, JWS and raw signatures, X.509 parsing and the
  cryptographic primitives: their results are inputs of the verdict. The
  findings of `weak_algo.py` depend on one artifact and decide no verdict. A PDF's
  signatures are trusted by pyHanko when they lead to one of the roots it was
  given, or of its default list when it was given none; what that list holds, and
  its path building, are external.
- Of the optimisers: floating point (coefficients are exact integers), the
  temperatures and trajectories of the annealers, the greedy baselines and
  modularities that results are shown beside, and the text of the notices.
- Of machine learning: features, the models of scikit-learn and their metrics;
  `prune_orphans`, which nothing calls.
- Notifications, metrics, statistics, exports, error formatting, settings,
  migrations, seeds, schemas and pages: no state whose order matters.
- Of detection: `sync_rules` of two booting workers, `patch_incident`, the
  advisory anomaly score, cohesion, the purge of incidents, and the limit of 200
  recent alerts.
- Of the audit log: exports and the signatures of anchors, which format what is
  there.
- Of a tab of the browser client: its user object and rendering; of the alert
  stream's client: parsing and backoff, since a reconnect is a new subscription.
- SQLite (used by tests) takes other locks than PostgreSQL; the models follow
  the production database.

## What could come next

`sync_rules` and the life cycle of incidents under analysts' edits in
`Detection`; the findings of `weak_algo.py` against a reference table; the safety
half of the three liveness properties (no cycle of waits in the pool and the lock)
as invariants with proofs.
