# Specifications of go-backend-examples

The repository is a set of small Go programs, each an example of one backend
technique.  What is hard in them to get right and hard to test is here as TLA+
modules: retried database transactions over a shared pool, the services and
use cases that run in them, logging, measured HTTP servers and their graceful
shutdown, handlers that return errors, three-valued PATCH documents, functional
options and a wire codec written twice.  TLC checks every module
on small instances; TLAPS proves, for every instance, the safety properties and
refinements of all but the codecs, and of liveness what is a matter of safety: that
work runs out and nobody waits for ever on others that wait.

- [The system](#the-system)
- [Plan](#plan)
- [Modules and code](#modules-and-code)
- [Runs and bounds](#runs-and-bounds)
- [Fairness](#fairness)
- [Proofs](#proofs)
- [Disagreements found](#disagreements-found)
- [What is left out](#what-is-left-out)

## The system

### `pgx-transactions`

| part | state | operations | talks to |
|---|---|---|---|
| `postgres/retry.go`, `tx_manager.go`, `unit_of_work.go`: the transaction runner | the loop counter, the pool's connections, the server's transaction | `Do`, `withRetry`, `runAttempt`, `retrySleep` | pgx and PostgreSQL; runs a function it is given |
| `postgres/context_executor.go` | the `tx` in a context | `ContextWithTx`, `ExecutorFromContext`, `Exec` | the runner puts the tx in, the repositories' statements take it out |
| `approach-tx-in-ctx`, `approach-unit-of-work`, `approach-transactional-service`: user and profile, five ways | two tables; a result captured by the closure | `CreateUserWithProfile` | the runner or `pgx.BeginFunc`; two repositories |
| `approach-use-case-boundary`: checkout | an order's status, its reservation and payments; the quote | `Checkout`, `Complete` and its transactional wrapper | pricing and payment services outside the transaction, three repositories inside it |

Hard here: COMMIT may be sent and never answered; a call may be cancelled at any
step; calls share a bounded pool and lock one another's rows; a function may run
several times for one call.  Right means: at most one commit per call, a reply
that is true of the tables, a pool no call can starve or deadlock, pairs of rows
whole, an order paid whole, by a checkout that was authorised, and by no second one
that saw it paid.

### `logging`

A middleware puts a `canonicallog.Bag` into the request's context; the service's
decorator and one query tracer write to it; the middleware emits it as one line.
Handler, service and another query tracer log records as they go, through slog
handlers (`slogctx`) that add the request id and print a record as lines.
Hard: every way through the handler has to reach the line, a failed query counts
too, a body may fail after its header was sent, goroutines share one writer through
loggers that are derived apart, and a write may fail in the middle of a record.
Right means: one line per request, which agrees with the reply, the queries, the
other records and the table; no record shows a password; records are not mixed and
show their own logger.

### `metrics_prometheus_grafana`

Two HTTP servers, each served by a goroutine, the application's behind a middleware
that keeps a histogram, a summary and a counter, and on a signal two goroutines that
shut the servers down under one deadline; any error ends the process with
`log.Fatalf`.  Hard: the server may not have bound its port, a slow request on one
server ends the other's, three collectors are updated one after the other.  Right
means: "Graceful shutdown complete" is true when it is said, the process ends, and
what is measured is what was answered.

### `optional`

`PATCH /users/{id}` with a bio that may be missing, null or a value; `GET` of the
same.  State: the row.  Hard: telling missing from null all the way from the
document to the statement, members named twice, other writers between the write
and the reply, an UPDATE that runs after its request was given up.

### `functional_options_pattern`

`NewServer` applies options to a copy of a package variable.  Right means: a
server shows its own options and no other call's.

### `enums`

Two codecs for RESP3, one with a struct of all fields and a kind, one with an
interface sealed by a private method.  No state; the parser is made for a reader
that tries again with more bytes.  Right means: values round-trip, parts of
values are incomplete and nothing else is, and the two codecs agree.

### `custom_http_handler` and `validate_structs`

A wrapper that answers for handlers that return an error, and a handler over a
validation library.  No state outlives a request.  Hard: writes fail half-way, and
errors of decoding are dropped.  Right means: one reply per request, and success just
when the last string that was decoded for each field passes.

### The others

`github_ci_cd` (one hash function; the example is its workflow), the query tracer of
`pgx-transactions` (it logs statements), and around them configuration of linters,
Prometheus, Grafana and CI.

## Plan

In the order of importance; all but the last group is done.

1. `TxRunner` and its proofs; `UserTx` over it with `UserRegistry` as its abstract
   specification; `Checkout` over it; `CanonicalLog`; `Shutdown` and its proofs;
   `PatchUser`, `ServerOptions`, `Resp3`.
2. All five approaches and plain calls side by side in `UserTx`; what a caller of
   `Checkout` can tell from an error; the log records in `CanonicalLog`; the metrics
   middleware in `Shutdown`; `BioRegister`, which `PatchUser` implements;
   `LogOutput`, `HandlerReplies` and `SealedResp3`.
3. The safety properties of every state machine and the refinements of
   `UserRegistry` and `BioRegister`, proved.
4. What the two abstract specifications imply, which `UserTx` and `PatchUser`
   inherit; and of each liveness property what needs no fairness, proved.
5. Left: the codecs, which would need induction over data, and the step from 4 to
   liveness itself.

`UserTx` and `Checkout` extend `TxRunner` and conjoin each of their actions with
the runner's action that it refines, so whatever is proved of the runner's steps
is there to be used.  The other modules stand alone, as the programs do.

## Modules and code

`PROJECT.json` has, for each definition, the lines it stands for.

**TxRunner** models one call of `Do` per member of `Calls`.  `stage` is the
place in `withRetry` and `pgx.BeginTxFunc`, `attempt` its loop counter, `holds`
the pool's connections in use, `txn` the server's side of the call's latest
transaction, `commits` the number that took effect (history).  Actions are the
steps another goroutine or the server can come between: `Begin` and `BeginFails`
(the pool), `BodySucceeds` and `BodyFails` (the function), `CommitSucceeds`,
`CommitRefused` and `CommitUnanswered`, `Wake` (the `select` of `retrySleep`),
`Cancel`, and `ServerAborts` and `ServerCommits` for a transaction whose client is
gone.  Errors are what `errors.As` can tell apart: the two retryable SQLSTATEs,
a refusal, a lost connection, a done context.

**UserTx** gives the runner the body of `CreateUserWithProfile`: two INSERTs,
each on the executor its approach uses.  `ContextWithTx` and
`ExecutorFromContext` decide the executor of the context approaches, `Executor`
that of those that bind repositories.  `newUsers` and `newProfiles` are a
transaction's uncommitted rows, which lock their username; `result` is the
variable the closures assign; `PlainCalls` are calls of the bare service outside
a transaction, whose statements take a connection each, and whose second may fail
when the first has committed.  `Together` bounds which calls meet.  **UserRegistry** is what
callers are promised: accounts appear whole and at most once per call, and the
reply says which.  `RegistrySpec` maps `accounts` to the users with a profile and
`reply` to the call's outcome.

**Checkout** gives it `Complete`: `GetByID`, `ReserveForOrder`, `CreatePayment`,
`MarkPaid`, preceded by `GetQuote` and `Authorize` outside the transaction.
Repositories and services are interfaces in the code and external here.
`Serializable` is the set of checkouts whose unit of work has the `SerializableTx`
configuration, which the package offers; `NewPGXUnitOfWork` takes `DefaultTx`, and no
`main` of the repository wires a checkout.  A serializable transaction that writes an
order another has written since its snapshot gets 40001.

**CanonicalLog** models `POST /users`.  `bag` is the Bag's map, `statusCode` and
`wroteHeader` the middleware's writer, `wire` the status the client got, `rows` the
table, `log` the records of `LoggingQueryTracer`, the handler and the service, `ran` a
history of the queries.  `LogValue`, `redactNamedArgs`, `dbLogAttrs` and `pgErrorValue`
are what a record may show; of an error they show the code and PostgreSQL's detail,
which for a taken username is the username.  A request is sequential, so the several locked operations of
`TraceQueryEnd` are one step of it; requests interleave at queries and writes.

**LogOutput** models the handlers that records go through.  `handlers` are the
MultilineTextHandlers that exist, each with its attributes, groups and mutex, and
whether a `slogctx.Handler` is in front of it; `lineage` is a history of what the
`With...` calls gave each, with the groups that were open then; `todo` the lines a `Handle` has yet to
write, `held` the locked mutexes, `output` what the writer got, in order.  `With`
derives a handler while others log; each line is one write, which may fail with part
of the line written.

**Shutdown** models `main`: `server` the two `ListenAndServe` goroutines, `waiter`
the two that call `Shutdown`, `conn` the clients' connections and how far the
middleware of each has come, `duration`, `summary` and `total` the collectors, `clock`
the ticks since the signal.  `net/http` is modelled by what its `Shutdown` does: it
closes the listener, polls, counts a silent new connection as busy for some seconds,
and closes idle ones.  A client may abandon a silent connection, a reply may be lost on
its way out, and closing a listener may fail, which `Shutdown` reports at its end.

**HandlerReplies** models one request to either of the two programs, which share
nothing between requests: `doc` the document as the sequence of its members, which `DecodeMember` takes in one
by one (`read`, `fields`), `err` what the handler returned, `status`, `body` and `broken` the response.

**PatchUser** models both handlers.  A document is the sequence of its bio
members, decoded one by one (`DecodeMember`, `decoded`); `command` the Optional they
make, `row` what the statement returned,
`orphans` the UPDATEs whose handler has given them up.  **BioRegister** is what clients
are promised: a request acts once, at one moment, and a 200 shows that moment.

**ServerOptions** models `NewServer` and the four options, with `given` a history
of each call's options.

**Resp3** models `enums/tagged_union`: `Serialize` and `Parse` are operators (their
recursion is RECURSIVE, and nothing is proved about them), and a reader receives
bytes one at a time and parses what it has.  Every byte is a token; `Decimal`,
`IsNumber` and `Magnitude` are what `strconv` does with numbers of a sign and digits,
and `canonical` what becomes of one that is read and written again.
**SealedResp3** extends it with the codec of `enums/sealed_interface`: its values keep
pairs and an inner value where the other's keep items; the readers of lines, counts
and blobs, which are the same functions in both files, are shared.

Operators whose comment begins with "Mutant" are not part of the models.  They
are mistakes that the properties are known to notice, at least one per property.

## Runs and bounds

| run | distinct states | what it shows |
|---|---|---|
| `runner` | 111,000 | three calls with 2, 3 and 0 configured attempts, the second with a positive backoff, over 2 connections |
| `user_tx` | 97,561 | a call by each of the five approaches, in five pairs, with a plain call, one username |
| `checkout` | 146,755 | two checkouts of one order, one serializable and one default, two attempts |
| `canonical_log` | 187,736 | three requests, two for one username |
| `log_output` | 308,668 | two goroutines, a record each, through up to three handlers, two attributes |
| `shutdown` | 732,622 | three connections, requests of up to 10 s, so that the deadline can strike |
| `handler_replies` | 8,560 | every document of up to three members, on every route |
| `patch_user` | 92,538 | two requests, documents of up to two members, refining `BioRegister` |
| `server_options` | 24,336 | two calls, up to two options each |
| `resp3` | 3,272,078 | 634 values byte by byte; every string of six bytes out of twelve; both codecs |

Why these are enough:

- Two connections for three calls make calls wait, and let two calls that hold
  and wait block each other.  Attempts 1, 2 and 3 give the loop no
  further, one further and two further rounds; 0 takes the default of 1.  The
  call with three has a backoff, so that it sleeps up to twice; the others go
  through `noBackoff`, as every `Do` of the code does.
- One username for all calls makes every pair of transactions meet on the unique
  index; calls with different names do not interact but through the pool.
- `Together` pairs the context executor with itself and with bound repositories, and
  each way of capturing an id with another; two transactions and a plain call fill
  the two connections and can block one another.
- Two checkouts of one order are the smallest conflict; one is serializable and one
  default, so that each configuration meets the other first and second; two
  attempts, so that either can read the order again after the other has paid it.
- In `canonical_log` the third request has a username of its own, so that an
  INSERT that fails for other reasons is told from a taken name.
- In `shutdown` two connections go to one server and one to the other, so that a
  server is both the slow one and the other one.  A tick is 2.5 s: the context's 10 s
  are four, and a request may run for four, which is what the servers' own write
  timeout allows.  `net/http` takes a silent connection for idle when it is more than 5 s
  old in whole seconds, as a poll finds, of which there is one every half-second
  at least: after 6.5 s at most, so three ticks are enough.  The connection may have
  been silent for any time before.  By `DeadlineSpares` the deadline strikes only over a
  request that ran for the remaining tick, 2.5 s; `Index` sleeps for at most 1.1 s.
- Three handlers let one be derived twice, or from a derived one, so that two loggers
  that write at once were derived apart; two attributes tell the order they were given
  in.  One record of each goroutine is enough: a
  failed one is followed by the other's.
- Three members of a document are enough to give a field twice and another once.
- Two members of a PATCH document are enough for the second to meet what the first
  left in the Optional.
- Values of the codec go three deep, with aggregates in every position that a
  count can get wrong, and hold CR, LF and the colon where text may; some lengths and
  numbers have two digits.  Six bytes are enough for a blob, for an aggregate of one line,
  and for numbers and counts with signs, leading zeros and line ends of either kind.

Every bound is a CONSTANT or a definition of an MC module, apart from `attempt`,
which the code bounds itself.  Deadlock checking is off because every system
here comes to rest: calls return, requests are answered, the process exits.
That no call rests before its end is what the liveness properties say.

`DeadlineSpares`, `SignalEndsProcess` and the grace period hold of the model's
clock: time passes only when nothing that is due is left to do, which is how the
half-second polls of `Shutdown` and the scheduling of goroutines relate to
ticks of 2.5 s.

`PaidOnce` says what each configuration gives.  A checkout under the default one that
has read an order as pending pays it even if another has paid it since, so the property
excepts these and no others: an order that is paid is not paid again by a serializable
checkout, nor by one that reads it, or tries again, afterwards.  That two
serializable checkouts never pay one order follows and is proved (`PaysOnce`).

## Fairness

Weak fairness only, of each call or request on its own:

- a goroutine that can take a step does (the Go scheduler);
- a wait for a connection ends when one is free; nothing is assumed of the order
  in which the pool serves its waiters beyond that a call that can go on for ever
  does;
- a function body ends: its statements succeed, are refused or fail, and a
  statement that waits for a lock is not assumed to get it while it is held;
- COMMIT is answered, or its connection breaks when the context is done;
- the server settles a transaction whose client is gone (TCP keepalive and
  `idle` handling of PostgreSQL);
- a `select` with a timer is left (`retrySleep`);
- in `Shutdown`, time passes, a request is answered within its longest time, and a
  middleware whose handler has returned goes on;
- in `LogOutput`, a `Handle` goes on: the mutex is given to somebody who waits, and a
  write ends, in whatever way.

No fairness is assumed of failures, of cancellation or of new requests: none of
them is ever owed.

## Proofs

The eight `...Proofs` modules are checked by TLAPS to the last leaf.  They rest on the
named assumptions on constants, which TLC evaluates on every run, and on nothing
else but for two theorems, whose hypotheses are theirs to state.

| module | from | hypotheses of single theorems |
|---|---|---|
| `TxRunnerProofs` | `RunnerAssumption`: a finite set of calls, integer attempts and backoffs, a positive pool size | |
| `UserTxProofs` | that and `UserAssumption`: plain calls are finitely many and others, each call has an approach, `Do` has no backoff, `pgx.BeginFunc` one attempt, no call's id is the nil id | |
| `CheckoutProofs` | `RunnerAssumption` and `CheckoutAssumption`: the types of orders and amounts, serializable checkouts are checkouts, no backoff | |
| `ShutdownProofs` | `ShutdownAssumption`: finitely many connections, the types of the others | `DeadlineIsForLongRequests`: `NewGrace < Grace`, which is 6.5 s against 10 s |
| `CanonicalLogProofs` | `LogAssumption`: `RedactKeys` are strings | `PasswordStaysOut`: `password` is one of them, and no request id or username is the password itself |
| `LogOutputProofs` | `OutputAssumption`: the two bounds are numbers | |
| `SmallProgramsProofs` (`HandlerReplies` and `ServerOptions`, which share nothing) | `RepliesAssumption`: the bound is a number; `OptionsAssumption`: the types of the numbers and of the bound | |
| `PatchUserProofs` | `PatchAssumption`: the stored users are users, and no bio is one of the model's markers for NULL, null, an undecodable member and no row | |

Hardly any of the properties is inductive: they speak of the end, or of what is
shown, and leave out why it cannot go wrong on the way.  Each module first proves
`Spec => []Inv` for an invariant that does say why, by one lemma per action or per
group of actions that move the same thing, and reads the properties off it.

*The runner.*  `ReplyIsTruthful` speaks of returned calls only, so nothing in it says
that a call that still retries has no effect yet.  `RunnerInv` adds that, as
`CallInv`: the counter is 0 exactly before the call, never beyond `MaxAttempts`, and
strictly below it while asleep; before its last step a call has no committed
transaction, and none at all while it waits or sleeps, an open one while it runs; and
after it has returned its error settles what the server did or may still do
(`Settled`).  The lemma `FailedAttempt` says what the loop does with an error,
`AttemptOver` that the loop step of a failed attempt preserves the invariant whatever
became of the transaction, provided a retryable error means it is over; each action
that ends an attempt is then an instance.  `PoolSteps` counts connections with the
theorems on finite sets.  `RetriesAfterRollback` adds that the counter moves only by a
failed attempt or a wake (`CounterMoves`).

*What runs in it.*  Each step of `UserTx` and of `Checkout` is a step of the runner or
leaves its variables alone (`UserRunnerPart`, `RunnerPart`), so `RunnerInv` holds of
them at once, and the two theorems `UserCallsRunRunner` and `CheckoutRunsRunner` say
that whatever else is proved of the runner does too.

- `UserInv` says what a transaction has written at each statement (`TxRowsInv`): only
  rows with the id of the current attempt, which is the id the closure has captured
  when it gets to COMMIT, and nothing of an earlier attempt.  `NameInv` is the unique
  index over committed and locked rows.  `NoTornPair` and `RepliesMatchRows` follow,
  with bare calls, whose two statements commit apart, in `PlainRowsInv`.
- `ApproachesKeepPromise` maps the users with a profile to the registry's accounts: an
  answered commit creates one and tells its id in one step, a failed last attempt tells
  the failure, and a COMMIT whose answer is lost tells that it is unknown, after which
  the server may still create the account.  Everything else is a stutter.
  What the registry promises is proved of its own steps (`RegistryInv`) and inherited
  along that mapping: `AccountsAreUnique`.
- `CheckoutInv` ties a transaction's writes to its statement (`WritesInv`), the quote and
  the authorisation to the phase before it (`OutsideInv`), and committed calls to the
  tables.  `PaidOnce` needs `MarkInv`: row locks leave one transaction at a time that
  has marked an order, and a serializable one only while nobody has committed that.
  Who pays in a step had set out before by the order of the statements (`WritesInv`), and
  nobody sets out for an order that is paid, because setting out is reading it as
  pending.

*The shutdown.*  `CompleteMeansAnswered` speaks of the end only; `DrainInv` adds that
a server whose shutdown has begun accepts nothing whether or not it had bound
its port (`ClosedToNew`), that one whose shutdown has returned has no open
connection (`Drained`), and that waiters exist only after the signal.  For the deadline,
`TimeInv` relates clocks to ages: once time has passed, every waiter polls or is done,
so a silent connection was silent from the first and a request that still runs began
within `NewGrace` of the signal; at the last tick a waiter that polls has such a request
(`StrikeInv`).  For the metrics, `MetricsInv` equates each collector with the
cardinality of the set of requests that are past its update, which a middleware enters
one after another.

*The canonical log.*  `LineTellsOutcome` compares a line with the reply and the table,
and there are many ways from a request to its line.  `OutcomeInv` says of each place of the
handler what the bag tells by then: a user that exists is told of, by a created outcome
or by a failed one and a query that counted.  `HeaderInv` keeps the recorded status equal
to the sent one, with the response that breaks off after its header the only error
path that has one.  `CountsInv` equates counters, lists and records with the queries
that ran, by number.  `SecretInv` and `LogTypeOK` confine the password: records come from
the set `Loggable`, and of a bag's fields only the command has it, which `LogValue` hides.

*The log output.*  `OutputInv` says that the mutexes of all derived handlers are one,
held by the goroutine that writes; that a record's lines end with its only
separator; and that what follows the last separator is what failed records left and
then the lines of the goroutine that writes (`OpenInv`).  A record that is separated
does not change again (`WholeStays`).  `ShowsInv` goes on from there: each handler has
what its lineage gave it (`DerivedAs`), the lines a goroutine has written and has
yet to write are together the text of its record, the written ones at the end of the
output (`Written`), and a separated record is its text (`Complete`).

*The handlers.*  `RepliesInv` says that a field has the last string of the members read
so far (`DecodeInv`) and what of the reply is out at each place.  `PatchInv` says the
same of the command (`Decoding`, `Writing`), and of an UPDATE that was given up that it
is the document's (`orphans`).  With it `HandlersKeepRegister` maps each statement to
the register's one act, and missing, null and value to what they ask for.  Members are
decoded one step at a time, as `json.Decoder` calls `UnmarshalJSON`, which makes a
document of any length a matter of the invariant; as a recursive function of the
document it would have needed induction over data.  `RepliesShowOneMoment` is inherited
from the register as above: `RegisterInv` says what a request saw when it acted and what it
was told, `OneWriteEach` that a bio changes only by the one act of a write to it.
`OptionsInv` says of each field of a call's copy that it is the last its options named
(`LastNamed`, by a witness, so that the greatest index is computed once, in
`LastIsAsked`); the same invariant gives the write timeout that is wrong.

*Termination, as far as it is a matter of safety.*  A liveness property fails in one of
three ways: work does not run out, everyone waits, or one who can go on is not let.  The
first two are safety, need no fairness and are proved; the third is what
[Fairness](#fairness) rules out, and the step from there to the property needs ENABLED.

- *Work runs out.*  Each module has a measure in the natural numbers for every call,
  request or goroutine, with a bound the constants fix, and a theorem that each step
  lowers one of them and raises none: `StepsRunOut` (three times the loop's `Rank`, with
  room for a cancellation and the settlement of an orphan), `UserStepsRunOut` and
  `CheckoutStepsRunOut` (the runner's, times the statements of a body, plus those that are
  left), `OneLineEach`, `ShutdownStepsRunOut` (servers, connections, and main with the
  grace period that is left), `HandlesRunOut` (the lines left of a record that is being
  handled; new records are not bounded by it).
- *Not everyone waits.*  `Ready` and its like are the guards of the actions that fairness
  is assumed of.  Calls wait for two things, a connection and a row or name another
  has not committed.  By `NoHoldAndWait` a call with a connection asks for no other, and
  one that keeps a username locked waits for neither; in the checkout, an order's row
  is locked by the last statement of the transaction.  Hence
  wait chains have length two at most, and end at a call, or a server, that can go on:
  `WaitsForTheUnstuck`, `NoCallWaitsInACircle`, `NoCheckoutWaitsInACircle`.
  `HandlesRunOut` says it of the mutex, and `ShutdownNeverStalls` of `wg.Wait`, of the
  polls and of the clock.  A request of `CanonicalLog` waits for nothing.

Only model-checked:

- liveness itself, since the prover has no ENABLED: `EveryCallReturns`,
  `EveryUserCallReturns`, `EveryCheckoutReturns`, `EveryRequestLogged`,
  `SignalEndsProcess`, `EveryRecordReturns`, of each of which the parts above are proved;
- the codecs (`Resp3`, `SealedResp3`), whose operators are recursive: `RoundTrips`,
  `PartsAreIncomplete`, `ReparsesToItself`, `CodecsAgree`, `AnswerStands`.

## Disagreements found

- `NewServer` takes the write timeout from the read timeout
  (`functional_options_pattern/main.go:27`), so the option and its default of 10 s
  have no effect: run `write_timeout`.
- `consumeCRLF` reports wrong bytes after a blob as `ErrIncomplete`, "incomplete
  data", so a reader that waits for more waits for ever
  (`enums/tagged_union/resp3.go:347`): run `resp3_incomplete`.

## What is left out

- pgx, PostgreSQL, `net/http`, `encoding/json`, Prometheus and the validator are
  modelled, if at all, by what the code relies on, and marked external.  Of
  isolation levels, only whether a conflicting commit is refused.
- A plain statement that waits for a row lock when its client leaves is counted
  as refused; in the server it might still run.
- The second half of a failed ROLLBACK: the connection is released and the
  server's side is an orphan that it settles.
- Log formatting: how a value is printed, times, levels, durations.  Of a database
  error, the message, severity, table, constraint and hint, which for the statements of
  this program hold no value of the request.  Beyond
  `RecordsShowTheirLogger`: a handler qualifies attributes given before a group, and
  time, level and message, with the group too, which slog's own handlers do not.
- `LoggerMiddleware`, which no program wires; the transaction example's query tracer.
- Validation beyond whether a field's string is empty, fails or passes; the
  translations.  `ValidateHandler` answers 200 also with validation errors, and
  `ReplyIsOneDocument` states that.
- A reply that `net/http` has buffered and then fails to send: the handler is told of
  no error, and the client reads what a failed write leaves it.
- Lengths near the top of `int`: `p.pos+n` wraps (`enums/tagged_union/resp3.go:334`), and
  `make` is given the count of an aggregate before its items are there (387, 399).
  Doubles that are not whole numbers of up to six digits.
- The number of label series a client can make the middleware keep.
- The error that `ValidateStruct` returns for what is no struct, which it is never given.
- An authorisation whose checkout then fails is not voided by the code; the
  history `granted` keeps it, and no property claims otherwise.
