------------------------------ MODULE TxRunner ------------------------------
(***************************************************************************)
(* pgx-transactions/postgres: what TxManager.Do and pgxUnitOfWork.Do share *)
(* (withRetry around runAttempt around pgx.BeginTxFunc), for a set of      *)
(* concurrent calls over one connection pool.  The function a call runs    *)
(* inside its transaction is abstract here: it succeeds or fails.  UserTx  *)
(* and Checkout extend this module and give it a body, conjoining every    *)
(* action of theirs with the action of this module it refines.             *)
(***************************************************************************)
EXTENDS Integers, FiniteSets

CONSTANTS
  Calls,          \* calls of Do, each on its own goroutine
  ConfigAttempts, \* TxConfig.MaxAttempts of the manager each call goes through
  MaxConns,       \* size of the pgx pool
  Backoff         \* what each call's backoffFunc answers; noBackoff answers 0

ASSUME RunnerAssumption ==
  /\ IsFiniteSet(Calls)
  /\ ConfigAttempts \in [Calls -> Int]
  /\ MaxConns \in Nat \ {0}
  /\ Backoff \in [Calls -> Int]

VARIABLES
  stage,    \* where each call is
  attempt,  \* the loop counter of withRetry, 0 before the call
  err,      \* the error Do returned, NoErr for nil
  holds,    \* calls that hold a pool connection
  txn,      \* the server's side of each call's latest transaction
  commits,  \* history: transactions of each call that took effect
  canceled  \* calls whose context is done

runnerVars == <<stage, attempt, err, holds, txn, commits, canceled>>

Stages == {"idle", "acquire", "body", "commit", "sleep", "returned"}

NoErr == "nil"

(* What errors.As can tell about an error: the two SQLSTATEs that are      *)
(* retried, any other failure that the caller knows rolled back            *)
(* ("refused"), a broken connection, a done context.                       *)
Retryable == {"40001", "40P01"}
Definite == Retryable \cup {"refused"}
Broken == {"lost", "canceled"}
Errors == Definite \cup Broken

(* "open" while the client drives it; "orphan" after the client dropped    *)
(* the connection without sending COMMIT; "committing" after it dropped    *)
(* the connection with COMMIT sent and unanswered.                         *)
TxnStates == {"none", "open", "orphan", "committing"}

defaultTxMaxAttempts == 1

(* Mutant: the default is not put in place of a non-positive value. *)
MaxAttemptsUnchecked(c) == ConfigAttempts[c]

MaxAttempts(c) ==
  IF ConfigAttempts[c] <= 0 THEN defaultTxMaxAttempts ELSE ConfigAttempts[c]

(* Mutant: a broken connection is taken for a transient failure. *)
RetriesBrokenConnection(e) == e \in Retryable \cup {"lost"}

isRetryableTxError(e) == e \in Retryable

Init ==
  /\ stage = [c \in Calls |-> "idle"]
  /\ attempt = [c \in Calls |-> 0]
  /\ err = [c \in Calls |-> NoErr]
  /\ holds = {}
  /\ txn = [c \in Calls |-> "none"]
  /\ commits = [c \in Calls |-> 0]
  /\ canceled = {}

-----------------------------------------------------------------------------
(* The control flow of withRetry. *)

Return(c, e) ==
  /\ stage' = [stage EXCEPT ![c] = "returned"]
  /\ err' = [err EXCEPT ![c] = e]
  /\ UNCHANGED attempt

(* The head of the loop: past the last attempt the function returns nil. *)
LoopHead(c) ==
  IF attempt[c] + 1 <= MaxAttempts(c)
  THEN /\ stage' = [stage EXCEPT ![c] = "acquire"]
       /\ attempt' = [attempt EXCEPT ![c] = @ + 1]
       /\ UNCHANGED err
  ELSE Return(c, NoErr)

(* A non-positive delay returns before the context is looked at. *)
retrySleep(c) ==
  IF Backoff[c] <= 0
  THEN LoopHead(c)
  ELSE /\ stage' = [stage EXCEPT ![c] = "sleep"]
       /\ UNCHANGED <<attempt, err>>

(* Mutant: the error is wrapped with %v, and its code is gone. *)
AttemptFailedOpaque(c, e) ==
  IF ~isRetryableTxError(e) \/ attempt[c] = MaxAttempts(c)
  THEN Return(c, "opaque")
  ELSE retrySleep(c)

AttemptFailed(c, e) ==
  IF ~isRetryableTxError(e) \/ attempt[c] = MaxAttempts(c)
  THEN Return(c, e)
  ELSE retrySleep(c)

(* Mutant: the connection stays out of the pool. *)
Leak(c) == UNCHANGED holds

Release(c) == holds' = holds \ {c}

SetTxn(c, t) == txn' = [txn EXCEPT ![c] = t]

-----------------------------------------------------------------------------
(* One action per step another goroutine or the server can come between. *)

Start(c) ==
  /\ stage[c] = "idle"
  /\ LoopHead(c)
  /\ UNCHANGED <<holds, txn, commits, canceled>>

(* pool.BeginTx: take a connection, waiting while there is none. *)
Begin(c) ==
  /\ stage[c] = "acquire"
  /\ c \notin canceled
  /\ Cardinality(holds) < MaxConns
  /\ holds' = holds \cup {c}
  /\ SetTxn(c, "open")
  /\ stage' = [stage EXCEPT ![c] = "body"]
  /\ UNCHANGED <<attempt, err, commits, canceled>>

BeginFails(c, e) ==
  /\ stage[c] = "acquire"
  /\ e \in {"refused", "lost"} \/ (e = "canceled" /\ c \in canceled)
  /\ AttemptFailed(c, e)
  /\ UNCHANGED <<holds, txn, commits, canceled>>

BodySucceeds(c) ==
  /\ stage[c] = "body"
  /\ stage' = [stage EXCEPT ![c] = "commit"]
  /\ UNCHANGED <<attempt, err, holds, txn, commits, canceled>>

(* The function returned an error: BeginTxFunc rolls back and hands the    *)
(* function's error on, whether or not the ROLLBACK reaches the server.  A *)
(* retryable SQLSTATE means that the server has rolled back already.       *)
BodyFails(c, e) ==
  /\ stage[c] = "body"
  /\ e \in Errors
  /\ e = "canceled" => c \in canceled
  /\ \E t \in {"none", "orphan"} :
       /\ t = "none" => e \notin Broken
       /\ t = "orphan" => e \notin Retryable
       /\ SetTxn(c, t)
  /\ Release(c)
  /\ AttemptFailed(c, e)
  /\ UNCHANGED <<commits, canceled>>

CommitSucceeds(c) ==
  /\ stage[c] = "commit"
  /\ c \notin canceled
  /\ SetTxn(c, "none")
  /\ commits' = [commits EXCEPT ![c] = @ + 1]
  /\ Release(c)
  /\ Return(c, NoErr)
  /\ UNCHANGED canceled

(* The server answers COMMIT with an error: the transaction is rolled back. *)
CommitRefused(c, e) ==
  /\ stage[c] = "commit"
  /\ c \notin canceled
  /\ e \in Definite
  /\ SetTxn(c, "none")
  /\ Release(c)
  /\ AttemptFailed(c, e)
  /\ UNCHANGED <<commits, canceled>>

(* No answer to COMMIT.  A context done beforehand keeps it from being     *)
(* sent; one that is done during the wait does not.                        *)
CommitUnanswered(c, e) ==
  /\ stage[c] = "commit"
  /\ e \in Broken
  /\ e = "canceled" => c \in canceled
  /\ \E t \in {"orphan", "committing"} : SetTxn(c, t)
  /\ Release(c)
  /\ AttemptFailed(c, e)
  /\ UNCHANGED <<commits, canceled>>

(* retrySleep's select when the backoff is positive. *)
Wake(c) ==
  /\ stage[c] = "sleep"
  /\ \/ LoopHead(c)
     \/ c \in canceled /\ Return(c, "canceled")
  /\ UNCHANGED <<holds, txn, commits, canceled>>

(* The caller's context may be done at any moment of the call. *)
Cancel(c) ==
  /\ stage[c] \notin {"idle", "returned"}
  /\ c \notin canceled
  /\ canceled' = canceled \cup {c}
  /\ UNCHANGED <<stage, attempt, err, holds, txn, commits>>

(* The server settles a transaction whose client is gone. *)
ServerAborts(c) ==
  /\ txn[c] \in {"orphan", "committing"}
  /\ SetTxn(c, "none")
  /\ UNCHANGED <<stage, attempt, err, holds, commits, canceled>>

ServerCommits(c) ==
  /\ txn[c] = "committing"
  /\ SetTxn(c, "none")
  /\ commits' = [commits EXCEPT ![c] = @ + 1]
  /\ UNCHANGED <<stage, attempt, err, holds, canceled>>

-----------------------------------------------------------------------------

RunnerNext ==
  \E c \in Calls :
    \/ Start(c)
    \/ Begin(c)
    \/ BodySucceeds(c)
    \/ CommitSucceeds(c)
    \/ Wake(c)
    \/ Cancel(c)
    \/ ServerAborts(c)
    \/ ServerCommits(c)
    \/ \E e \in Errors :
         \/ BeginFails(c, e)
         \/ BodyFails(c, e)
         \/ CommitRefused(c, e)
         \/ CommitUnanswered(c, e)

RunnerSpec == Init /\ [][RunnerNext]_runnerVars

(* A goroutine that can run does run, a body ends, COMMIT is answered or   *)
(* its connection breaks, and the server notices a dead client.  A         *)
(* connection error on acquiring is never owed; a done context is noticed. *)
Proceeds(c) ==
  \/ Begin(c)
  \/ BeginFails(c, "canceled")
  \/ BodySucceeds(c)
  \/ CommitSucceeds(c)
  \/ CommitUnanswered(c, "canceled")
  \/ Wake(c)

Settles(c) == ServerAborts(c) \/ ServerCommits(c)

RunnerFairness ==
  \A c \in Calls : WF_runnerVars(Proceeds(c)) /\ WF_runnerVars(Settles(c))

FairRunnerSpec == RunnerSpec /\ RunnerFairness

-----------------------------------------------------------------------------
(* Properties. *)

RunnerTypeOK ==
  /\ stage \in [Calls -> Stages]
  /\ attempt \in [Calls -> Nat]
  /\ err \in [Calls -> Errors \cup {NoErr}]
  /\ holds \in SUBSET Calls
  /\ txn \in [Calls -> TxnStates]
  /\ commits \in [Calls -> Nat]
  /\ canceled \in SUBSET Calls

(* However many attempts a call makes and however its connections break,   *)
(* at most one of its transactions takes effect (withRetry, retry.go).     *)
AtMostOneCommit == \A c \in Calls : commits[c] <= 1

(* Do returns nil only for a call with a transaction that took effect, and *)
(* an error that carries an SQLSTATE or a refusal only for a call none of  *)
(* whose transactions did or can still do (Do, tx_manager.go).             *)
ReplyIsTruthful ==
  \A c \in Calls : stage[c] = "returned" =>
    /\ err[c] = NoErr => commits[c] = 1
    /\ err[c] \in Definite => commits[c] = 0 /\ txn[c] # "committing"

(* The pool is never overdrawn, and a call that waits for a connection,    *)
(* sleeps between attempts or has returned holds none: calls can not wait  *)
(* for one another's connections.                                          *)
PoolDiscipline ==
  /\ Cardinality(holds) <= MaxConns
  /\ \A c \in Calls : c \in holds <=> stage[c] \in {"body", "commit"}

(* withRetry starts a further attempt only when the transaction of the one *)
(* before it is over at the server and had no effect.                      *)
RetryOnlyAfterRollback ==
  [][\A c \in Calls : attempt[c] >= 1 /\ attempt'[c] # attempt[c] =>
       /\ attempt'[c] = attempt[c] + 1
       /\ attempt'[c] <= MaxAttempts(c)
       /\ txn'[c] = "none"
       /\ commits'[c] = 0]_runnerVars

(* Every call of Do returns, and the server forgets its transaction.       *)
EveryCallReturns ==
  \A c \in Calls :
    stage[c] # "idle" ~> stage[c] = "returned" /\ txn[c] = "none"
=============================================================================
