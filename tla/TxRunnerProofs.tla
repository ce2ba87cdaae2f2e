--------------------------- MODULE TxRunnerProofs ---------------------------
(***************************************************************************)
(* The safety properties of TxRunner, proved for any set of calls, any     *)
(* configuration of attempts, any pool size and any backoff.               *)
(***************************************************************************)
EXTENDS TxRunner, TLAPS, FiniteSetTheorems

(* What the reply of a returned call says of its transactions.             *)
Settled(c) ==
  /\ err[c] = NoErr => commits[c] = 1 /\ txn[c] = "none"
  /\ err[c] \in Definite => commits[c] = 0 /\ txn[c] \in {"none", "orphan"}
  /\ err[c] \in Broken =>
       \/ commits[c] \in {0, 1} /\ txn[c] = "none"
       \/ commits[c] = 0 /\ txn[c] \in {"orphan", "committing"}

(* Before its last step a call has no transaction, or an open one, and     *)
(* none that took effect.                                                  *)
CallInv(c) ==
  /\ stage[c] = "idle" <=> attempt[c] = 0
  /\ attempt[c] <= MaxAttempts(c)
  /\ stage[c] = "sleep" => attempt[c] < MaxAttempts(c)
  /\ stage[c] \in {"idle", "acquire", "sleep"} => txn[c] = "none" /\ commits[c] = 0
  /\ stage[c] \in {"body", "commit"} => txn[c] = "open" /\ commits[c] = 0
  /\ stage[c] = "returned" => Settled(c)

RunnerInv ==
  /\ RunnerTypeOK
  /\ PoolDiscipline
  /\ \A c \in Calls : CallInv(c)

-----------------------------------------------------------------------------
(* The loop of withRetry. *)

(* The loop runs at least once, whatever TxConfig says.                    *)
LEMMA AttemptsPositive ==
  ASSUME NEW c \in Calls
  PROVE  MaxAttempts(c) \in Nat \ {0}
BY RunnerAssumption DEF RunnerAssumption, MaxAttempts, defaultTxMaxAttempts

(* A step of one call leaves the loop state of every other call alone.     *)
LoopOnlyAt(c) ==
  /\ stage' \in [Calls -> Stages]
  /\ attempt' \in [Calls -> Nat]
  /\ err' \in [Calls -> Errors \cup {NoErr}]
  /\ \A d \in Calls \ {c} :
       stage'[d] = stage[d] /\ attempt'[d] = attempt[d] /\ err'[d] = err[d]

(* A failed attempt ends the call with its error, or, when the error may   *)
(* be retried and attempts are left, leads to another attempt.             *)
LEMMA FailedAttempt ==
  ASSUME RunnerTypeOK, NEW c \in Calls, NEW e \in Errors,
         attempt[c] # 0, attempt[c] <= MaxAttempts(c), AttemptFailed(c, e)
  PROVE  /\ LoopOnlyAt(c)
         /\ \/ /\ stage'[c] = "returned"
               /\ err'[c] = e
               /\ attempt'[c] = attempt[c]
            \/ /\ e \in Retryable
               /\ stage'[c] = "acquire"
               /\ attempt'[c] = attempt[c] + 1
               /\ attempt'[c] <= MaxAttempts(c)
            \/ /\ e \in Retryable
               /\ stage'[c] = "sleep"
               /\ attempt'[c] = attempt[c]
               /\ attempt[c] < MaxAttempts(c)
<1>1. MaxAttempts(c) \in Nat /\ attempt[c] \in Nat
  BY AttemptsPositive DEF RunnerTypeOK
<1>2. CASE ~isRetryableTxError(e) \/ attempt[c] = MaxAttempts(c)
  BY <1>2 DEF AttemptFailed, Return, RunnerTypeOK, LoopOnlyAt, Stages
<1>3. CASE isRetryableTxError(e) /\ attempt[c] # MaxAttempts(c)
  <2>1. e \in Retryable /\ attempt[c] + 1 <= MaxAttempts(c) /\ retrySleep(c)
    BY <1>1, <1>3 DEF AttemptFailed, isRetryableTxError
  <2>2. CASE Backoff[c] <= 0
    <3>1. /\ stage' = [stage EXCEPT ![c] = "acquire"]
          /\ attempt' = [attempt EXCEPT ![c] = attempt[c] + 1]
          /\ err' = err
      BY <2>1, <2>2 DEF retrySleep, LoopHead
    <3> QED
      BY <1>1, <2>1, <3>1 DEF RunnerTypeOK, LoopOnlyAt, Stages
  <2>3. CASE ~(Backoff[c] <= 0)
    <3>1. /\ stage' = [stage EXCEPT ![c] = "sleep"]
          /\ attempt' = attempt
          /\ err' = err
      BY <2>1, <2>3 DEF retrySleep
    <3> QED
      BY <1>1, <2>1, <3>1 DEF RunnerTypeOK, LoopOnlyAt, Stages
  <2> QED
    BY <2>2, <2>3
<1> QED
  BY <1>2, <1>3

-----------------------------------------------------------------------------
(* The inductive invariant. *)

(* A failed attempt leaves its call at one of three stages, and only an    *)
(* error that may be retried leads to another attempt.                     *)
LEMMA AttemptEnds ==
  ASSUME RunnerInv, NEW c \in Calls, NEW e \in Errors,
         stage[c] \in {"acquire", "body", "commit"}, AttemptFailed(c, e)
  PROVE  /\ LoopOnlyAt(c)
         /\ stage'[c] \in {"returned", "acquire", "sleep"}
         /\ e \notin Retryable => stage'[c] = "returned"
         /\ stage'[c] = "returned" => err'[c] = e
         /\ e \notin Retryable => attempt'[c] = attempt[c]
<1>1. RunnerTypeOK /\ attempt[c] # 0 /\ attempt[c] <= MaxAttempts(c)
  BY DEF RunnerInv, CallInv
<1> QED
  BY <1>1, FailedAttempt

(* What is left to show of a step of call c once its effect on c is known. *)
LEMMA StepOfOne ==
  ASSUME RunnerInv, NEW c \in Calls, LoopOnlyAt(c),
         NEW t \in TxnStates, txn' = [txn EXCEPT ![c] = t],
         NEW n \in Nat, commits' = [commits EXCEPT ![c] = n],
         canceled' \in SUBSET Calls,
         holds' \in SUBSET Calls, holds' \ {c} = holds \ {c},
         Cardinality(holds') <= MaxConns,
         c \in holds' <=> stage'[c] \in {"body", "commit"},
         CallInv(c)'
  PROVE  RunnerInv'
<1>1. RunnerTypeOK'
  BY DEF RunnerInv, RunnerTypeOK, LoopOnlyAt
<1>2. PoolDiscipline'
  <2>1. ASSUME NEW d \in Calls, d # c
        PROVE  d \in holds' <=> stage'[d] \in {"body", "commit"}
    BY <2>1 DEF RunnerInv, PoolDiscipline, LoopOnlyAt
  <2> QED
    BY <2>1 DEF PoolDiscipline
<1>3. ASSUME NEW d \in Calls, d # c
      PROVE  CallInv(d)'
  <2>1. /\ stage'[d] = stage[d] /\ attempt'[d] = attempt[d]
        /\ err'[d] = err[d] /\ txn'[d] = txn[d] /\ commits'[d] = commits[d]
    BY <1>3 DEF RunnerInv, RunnerTypeOK, LoopOnlyAt
  <2>2. CallInv(d)
    BY DEF RunnerInv
  <2> QED
    BY <2>1, <2>2 DEF CallInv, Settled, MaxAttempts
<1> QED
  BY <1>1, <1>2, <1>3 DEF RunnerInv

(* Taking a connection when one is free, and giving one back.              *)
LEMMA PoolSteps ==
  ASSUME NEW S \in SUBSET Calls, NEW c \in Calls, Cardinality(S) <= MaxConns
  PROVE  /\ Cardinality(S \ {c}) <= MaxConns
         /\ Cardinality(S) < MaxConns => Cardinality(S \cup {c}) <= MaxConns
<1>1. IsFiniteSet(S)
  BY FS_Subset, RunnerAssumption DEF RunnerAssumption
<1>2. Cardinality(S) \in Nat
  BY <1>1, FS_CardinalityType
<1>3. Cardinality(S \ {c}) \in {Cardinality(S), Cardinality(S) - 1}
  BY <1>1, FS_RemoveElement
<1>4. Cardinality(S \cup {c}) \in {Cardinality(S), Cardinality(S) + 1}
  BY <1>1, FS_AddElement
<1> QED
  BY <1>2, <1>3, <1>4, RunnerAssumption DEF RunnerAssumption

LEMMA InitInv == Init => RunnerInv
<1> SUFFICES ASSUME Init PROVE RunnerInv
  OBVIOUS
<1>1. RunnerTypeOK
  BY DEF Init, RunnerTypeOK, Stages, TxnStates
<1>2. PoolDiscipline
  BY FS_EmptySet, RunnerAssumption DEF RunnerAssumption, Init, PoolDiscipline
<1>3. ASSUME NEW c \in Calls PROVE CallInv(c)
  BY AttemptsPositive DEF Init, CallInv
<1> QED
  BY <1>1, <1>2, <1>3 DEF RunnerInv

(* A call that gives up or tries again after an attempt that is over.      *)
LEMMA AttemptOver ==
  ASSUME RunnerInv, NEW c \in Calls, NEW e \in Errors,
         stage[c] \in {"acquire", "body", "commit"}, AttemptFailed(c, e),
         NEW t \in TxnStates, txn' = [txn EXCEPT ![c] = t],
         t # "none" => e \notin Retryable,
         t \in {"none", "orphan"} \/ (t = "committing" /\ e \in Broken),
         holds' = holds \ {c}, UNCHANGED <<commits, canceled>>
  PROVE  RunnerInv'
<1>1. CallInv(c) /\ RunnerTypeOK /\ PoolDiscipline
  BY DEF RunnerInv
<1>2. commits[c] = 0 /\ attempt[c] # 0 /\ attempt[c] <= MaxAttempts(c)
  BY <1>1 DEF CallInv
<1>3. /\ LoopOnlyAt(c)
      /\ \/ /\ stage'[c] = "returned"
            /\ err'[c] = e
            /\ attempt'[c] = attempt[c]
         \/ /\ e \in Retryable
            /\ stage'[c] = "acquire"
            /\ attempt'[c] = attempt[c] + 1
            /\ attempt'[c] <= MaxAttempts(c)
         \/ /\ e \in Retryable
            /\ stage'[c] = "sleep"
            /\ attempt'[c] = attempt[c]
            /\ attempt[c] < MaxAttempts(c)
  BY <1>1, <1>2, FailedAttempt
<1>4. txn'[c] = t /\ commits'[c] = 0
  BY <1>1, <1>2 DEF RunnerTypeOK
<1>5. CallInv(c)'
  <2>1. CASE stage'[c] = "returned"
    BY <1>1, <1>2, <1>3, <1>4, <2>1
    DEF CallInv, Settled, MaxAttempts, Errors, Definite, Retryable, Broken, NoErr
  <2>2. CASE stage'[c] = "acquire"
    BY <1>1, <1>2, <1>3, <1>4, <2>2 DEF CallInv, MaxAttempts, RunnerTypeOK
  <2>3. CASE stage'[c] = "sleep"
    BY <1>1, <1>2, <1>3, <1>4, <2>3 DEF CallInv, MaxAttempts, RunnerTypeOK
  <2> QED
    BY <1>3, <2>1, <2>2, <2>3
<1>6. commits' = [commits EXCEPT ![c] = 0] /\ canceled' \in SUBSET Calls
  BY <1>1, <1>2 DEF RunnerTypeOK
<1>7. Cardinality(holds') <= MaxConns /\ holds' \in SUBSET Calls
  BY <1>1, PoolSteps DEF RunnerTypeOK, PoolDiscipline
<1>8. c \in holds' <=> stage'[c] \in {"body", "commit"}
  BY <1>3
<1> QED
  BY <1>3, <1>5, <1>6, <1>7, <1>8, StepOfOne

-----------------------------------------------------------------------------
(* One lemma for the steps that are not the end of an attempt, one for     *)
(* those that are; together they are RunnerNext.                           *)

(* The loop head, for a call that has no transaction and attempts left.    *)
LEMMA LoopHeadStep ==
  ASSUME RunnerInv, NEW c \in Calls, stage[c] \in {"idle", "sleep"}, LoopHead(c),
         UNCHANGED <<holds, txn, commits, canceled>>
  PROVE  RunnerInv'
<1>1. CallInv(c) /\ RunnerTypeOK /\ PoolDiscipline
  BY DEF RunnerInv
<1>2. MaxAttempts(c) \in Nat \ {0} /\ attempt[c] \in Nat
  BY <1>1, AttemptsPositive DEF RunnerTypeOK
<1>3. /\ attempt[c] + 1 <= MaxAttempts(c)
      /\ txn[c] = "none" /\ commits[c] = 0 /\ c \notin holds
  BY <1>1, <1>2 DEF CallInv, PoolDiscipline
<1>4. /\ stage' = [stage EXCEPT ![c] = "acquire"]
      /\ attempt' = [attempt EXCEPT ![c] = attempt[c] + 1]
      /\ err' = err
  BY <1>3 DEF LoopHead
<1>5. LoopOnlyAt(c) /\ stage'[c] = "acquire" /\ attempt'[c] = attempt[c] + 1
  BY <1>1, <1>2, <1>4 DEF RunnerTypeOK, LoopOnlyAt, Stages
<1>6. CallInv(c)'
  BY <1>2, <1>3, <1>5 DEF CallInv, MaxAttempts
<1>7. txn' = [txn EXCEPT ![c] = "none"] /\ commits' = [commits EXCEPT ![c] = 0]
  BY <1>1, <1>3 DEF RunnerTypeOK
<1>8. "none" \in TxnStates /\ canceled' \in SUBSET Calls /\ holds' \in SUBSET Calls
  BY <1>1 DEF RunnerTypeOK, TxnStates
<1> QED
  BY <1>1, <1>3, <1>5, <1>6, <1>7, <1>8, StepOfOne DEF PoolDiscipline

LEMMA StartStep ==
  ASSUME RunnerInv, NEW c \in Calls, Start(c)
  PROVE  RunnerInv'
BY LoopHeadStep DEF Start

LEMMA BeginStep ==
  ASSUME RunnerInv, NEW c \in Calls, Begin(c)
  PROVE  RunnerInv'
<1>1. CallInv(c) /\ RunnerTypeOK /\ PoolDiscipline
  BY DEF RunnerInv
<1>2. LoopOnlyAt(c) /\ stage'[c] = "body" /\ attempt'[c] = attempt[c]
  BY <1>1 DEF Begin, RunnerTypeOK, LoopOnlyAt, Stages
<1>3. txn' = [txn EXCEPT ![c] = "open"] /\ "open" \in TxnStates
  BY DEF Begin, SetTxn, TxnStates
<1>4. commits' = [commits EXCEPT ![c] = 0] /\ canceled' \in SUBSET Calls
  BY <1>1 DEF Begin, RunnerTypeOK, CallInv
<1>5. holds' \in SUBSET Calls /\ holds' \ {c} = holds \ {c} /\ c \in holds'
  BY <1>1 DEF Begin, RunnerTypeOK
<1>6. Cardinality(holds') <= MaxConns
  BY <1>1, PoolSteps DEF Begin, RunnerTypeOK, PoolDiscipline
<1>7. txn'[c] = "open" /\ commits'[c] = 0
  BY <1>1, <1>3, <1>4 DEF RunnerTypeOK
<1>8. CallInv(c)'
  BY <1>1, <1>2, <1>7 DEF CallInv, Begin, MaxAttempts
<1> QED
  BY <1>2, <1>3, <1>4, <1>5, <1>6, <1>8, StepOfOne

LEMMA BeginFailsStep ==
  ASSUME RunnerInv, NEW c \in Calls, NEW e \in Errors, BeginFails(c, e)
  PROVE  RunnerInv'
<1>1. CallInv(c) /\ RunnerTypeOK /\ PoolDiscipline
  BY DEF RunnerInv
<1>2. c \notin holds /\ txn[c] = "none"
  BY <1>1 DEF BeginFails, CallInv, PoolDiscipline
<1>3. txn' = [txn EXCEPT ![c] = "none"] /\ holds' = holds \ {c}
  BY <1>1, <1>2 DEF BeginFails, RunnerTypeOK
<1> QED
  BY <1>3, AttemptOver DEF BeginFails, TxnStates

LEMMA BodySucceedsStep ==
  ASSUME RunnerInv, NEW c \in Calls, BodySucceeds(c)
  PROVE  RunnerInv'
<1>1. CallInv(c) /\ RunnerTypeOK /\ PoolDiscipline
  BY DEF RunnerInv
<1>2. LoopOnlyAt(c) /\ stage'[c] = "commit" /\ attempt'[c] = attempt[c]
  BY <1>1 DEF BodySucceeds, RunnerTypeOK, LoopOnlyAt, Stages
<1>3. txn[c] = "open" /\ commits[c] = 0 /\ c \in holds
  BY <1>1 DEF BodySucceeds, CallInv, PoolDiscipline
<1>4. txn' = [txn EXCEPT ![c] = "open"] /\ commits' = [commits EXCEPT ![c] = 0]
  BY <1>1, <1>3 DEF BodySucceeds, RunnerTypeOK
<1>5. CallInv(c)'
  BY <1>1, <1>2, <1>3 DEF CallInv, BodySucceeds, MaxAttempts
<1>6. "open" \in TxnStates /\ canceled' \in SUBSET Calls /\ holds' \in SUBSET Calls
  BY <1>1 DEF BodySucceeds, RunnerTypeOK, TxnStates
<1> QED
  BY <1>1, <1>2, <1>3, <1>4, <1>5, <1>6, StepOfOne DEF PoolDiscipline, BodySucceeds

LEMMA BodyFailsStep ==
  ASSUME RunnerInv, NEW c \in Calls, NEW e \in Errors, BodyFails(c, e)
  PROVE  RunnerInv'
<1>1. PICK t \in {"none", "orphan"} :
        /\ t = "orphan" => e \notin Retryable
        /\ txn' = [txn EXCEPT ![c] = t]
  BY DEF BodyFails, SetTxn
<1> QED
  BY <1>1, AttemptOver DEF BodyFails, Release, TxnStates

LEMMA CommitRefusedStep ==
  ASSUME RunnerInv, NEW c \in Calls, NEW e \in Errors, CommitRefused(c, e)
  PROVE  RunnerInv'
BY AttemptOver DEF CommitRefused, Release, SetTxn, TxnStates

LEMMA CommitUnansweredStep ==
  ASSUME RunnerInv, NEW c \in Calls, NEW e \in Errors, CommitUnanswered(c, e)
  PROVE  RunnerInv'
<1>1. PICK t \in {"orphan", "committing"} : txn' = [txn EXCEPT ![c] = t]
  BY DEF CommitUnanswered, SetTxn
<1>2. e \in Broken /\ e \notin Retryable
  BY DEF CommitUnanswered, Broken, Retryable
<1> QED
  BY <1>1, <1>2, AttemptOver DEF CommitUnanswered, Release, TxnStates

LEMMA CommitSucceedsStep ==
  ASSUME RunnerInv, NEW c \in Calls, CommitSucceeds(c)
  PROVE  RunnerInv'
<1>1. CallInv(c) /\ RunnerTypeOK /\ PoolDiscipline
  BY DEF RunnerInv
<1>2. /\ LoopOnlyAt(c) /\ stage'[c] = "returned"
      /\ attempt'[c] = attempt[c] /\ err'[c] = NoErr
  BY <1>1 DEF CommitSucceeds, Return, RunnerTypeOK, LoopOnlyAt, Stages
<1>3. commits[c] = 0
  BY <1>1 DEF CommitSucceeds, CallInv
<1>4. /\ txn' = [txn EXCEPT ![c] = "none"] /\ "none" \in TxnStates
      /\ commits' = [commits EXCEPT ![c] = 1]
  BY <1>3 DEF CommitSucceeds, SetTxn, TxnStates
<1>5. txn'[c] = "none" /\ commits'[c] = 1
  BY <1>1, <1>4 DEF RunnerTypeOK
<1>6. CallInv(c)'
  BY <1>1, <1>2, <1>5 DEF CallInv, CommitSucceeds, MaxAttempts, Settled, Definite,
    Retryable, Broken, NoErr
<1>7. /\ holds' = holds \ {c} /\ holds' \in SUBSET Calls
      /\ canceled' \in SUBSET Calls
  BY <1>1 DEF CommitSucceeds, Release, RunnerTypeOK
<1>8. Cardinality(holds') <= MaxConns
  BY <1>1, <1>7, PoolSteps DEF RunnerTypeOK, PoolDiscipline
<1> QED
  BY <1>2, <1>4, <1>6, <1>7, <1>8, StepOfOne

LEMMA WakeStep ==
  ASSUME RunnerInv, NEW c \in Calls, Wake(c)
  PROVE  RunnerInv'
<1>1. CASE LoopHead(c)
  BY <1>1, LoopHeadStep DEF Wake
<1>2. CASE Return(c, "canceled")
  <2>1. CallInv(c) /\ RunnerTypeOK /\ PoolDiscipline
    BY DEF RunnerInv
  <2>2. /\ LoopOnlyAt(c) /\ stage'[c] = "returned"
        /\ attempt'[c] = attempt[c] /\ err'[c] = "canceled"
    BY <1>2, <2>1 DEF Return, RunnerTypeOK, LoopOnlyAt, Stages, Errors, Broken
  <2>3. /\ txn[c] = "none" /\ commits[c] = 0 /\ c \notin holds
    BY <2>1 DEF Wake, CallInv, PoolDiscipline
  <2>4. CallInv(c)'
    BY <2>1, <2>2, <2>3 DEF CallInv, Wake, MaxAttempts, Settled, Definite, Retryable,
      Broken, NoErr
  <2>5. txn' = [txn EXCEPT ![c] = "none"] /\ commits' = [commits EXCEPT ![c] = 0]
    BY <2>1, <2>3 DEF Wake, RunnerTypeOK
  <2>6. "none" \in TxnStates /\ canceled' \in SUBSET Calls /\ holds' = holds
    BY <2>1 DEF Wake, RunnerTypeOK, TxnStates
  <2> QED
    BY <2>1, <2>2, <2>3, <2>4, <2>5, <2>6, StepOfOne DEF RunnerTypeOK, PoolDiscipline
<1> QED
  BY <1>1, <1>2 DEF Wake

LEMMA CancelStep ==
  ASSUME RunnerInv, NEW c \in Calls, Cancel(c)
  PROVE  RunnerInv'
BY DEF Cancel, RunnerInv, RunnerTypeOK, PoolDiscipline, CallInv, Settled, MaxAttempts

(* The server only ever settles the transaction of a returned call.        *)
LEMMA ServerStep ==
  ASSUME RunnerInv, NEW c \in Calls, ServerAborts(c) \/ ServerCommits(c)
  PROVE  /\ RunnerInv'
         /\ stage[c] = "returned"
<1>1. CallInv(c) /\ RunnerTypeOK /\ PoolDiscipline
  BY DEF RunnerInv
<1>2. txn[c] \in {"orphan", "committing"}
  BY DEF ServerAborts, ServerCommits
<1>3. stage[c] = "returned" /\ err[c] # NoErr /\ commits[c] = 0
  BY <1>1, <1>2 DEF CallInv, Settled, RunnerTypeOK, Stages, Errors, Definite
<1>4. PICK n \in {0, 1} :
        /\ commits' = [commits EXCEPT ![c] = n]
        /\ n = 1 => txn[c] = "committing"
  BY <1>1, <1>3 DEF ServerAborts, ServerCommits, RunnerTypeOK
<1>5. txn' = [txn EXCEPT ![c] = "none"] /\ "none" \in TxnStates
  BY DEF ServerAborts, ServerCommits, SetTxn, TxnStates
<1>6. UNCHANGED <<stage, attempt, err, holds, canceled>>
  BY DEF ServerAborts, ServerCommits
<1>7. txn'[c] = "none" /\ commits'[c] = n
  BY <1>1, <1>4, <1>5 DEF RunnerTypeOK
<1>8. Settled(c)'
  BY <1>1, <1>3, <1>4, <1>6, <1>7 DEF CallInv, Settled, Definite
<1>9. CallInv(c)'
  BY <1>1, <1>3, <1>6, <1>8 DEF CallInv, MaxAttempts
<1>10. LoopOnlyAt(c)
  BY <1>1, <1>6 DEF LoopOnlyAt, RunnerTypeOK
<1>11. /\ holds' \in SUBSET Calls /\ Cardinality(holds') <= MaxConns
       /\ holds' \ {c} = holds \ {c} /\ canceled' \in SUBSET Calls
       /\ (c \in holds' <=> stage'[c] \in {"body", "commit"})
  BY <1>1, <1>6 DEF RunnerTypeOK, PoolDiscipline
<1>12. n \in Nat
  OBVIOUS
<1>13. RunnerInv'
  BY <1>4, <1>5, <1>9, <1>10, <1>11, <1>12, StepOfOne
<1> QED
  BY <1>3, <1>13

LEMMA NextInv == RunnerInv /\ [RunnerNext]_runnerVars => RunnerInv'
<1> SUFFICES ASSUME RunnerInv, [RunnerNext]_runnerVars PROVE RunnerInv'
  OBVIOUS
<1>1. CASE UNCHANGED runnerVars
  BY <1>1 DEF runnerVars, RunnerInv, RunnerTypeOK, PoolDiscipline, CallInv, Settled,
    MaxAttempts
<1>2. ASSUME NEW c \in Calls,
             \/ Start(c) \/ Begin(c) \/ BodySucceeds(c) \/ CommitSucceeds(c)
             \/ Wake(c) \/ Cancel(c) \/ ServerAborts(c) \/ ServerCommits(c)
      PROVE  RunnerInv'
  BY <1>2, StartStep, BeginStep, BodySucceedsStep, CommitSucceedsStep, WakeStep,
    CancelStep, ServerStep
<1>3. ASSUME NEW c \in Calls, NEW e \in Errors,
             \/ BeginFails(c, e) \/ BodyFails(c, e)
             \/ CommitRefused(c, e) \/ CommitUnanswered(c, e)
      PROVE  RunnerInv'
  BY <1>3, BeginFailsStep, BodyFailsStep, CommitRefusedStep, CommitUnansweredStep
<1> QED
  BY <1>1, <1>2, <1>3 DEF RunnerNext

(* The inductive invariant holds throughout every behaviour of the runner. *)
THEOREM RunnerInvariant == RunnerSpec => []RunnerInv
BY InitInv, NextInv, PTL DEF RunnerSpec

-----------------------------------------------------------------------------
(* The theorems. *)

(* Every variable of the runner keeps its type.                            *)
THEOREM RunnerTypes == RunnerSpec => []RunnerTypeOK
<1>1. RunnerInv => RunnerTypeOK
  BY DEF RunnerInv
<1> QED
  BY <1>1, RunnerInvariant, PTL

(* withRetry never runs a call's transaction to effect twice, though COMMIT *)
(* may be lost, answered late or refused at every attempt.                  *)
THEOREM CommitsOnce == RunnerSpec => []AtMostOneCommit
<1>1. RunnerInv => AtMostOneCommit
  BY DEF RunnerInv, RunnerTypeOK, CallInv, Settled, AtMostOneCommit, Stages, Errors
<1> QED
  BY <1>1, RunnerInvariant, PTL

(* A nil from Do means an effect, an SQLSTATE means none.                  *)
THEOREM TruthfulReplies == RunnerSpec => []ReplyIsTruthful
<1>1. RunnerInv => ReplyIsTruthful
  BY DEF RunnerInv, CallInv, Settled, ReplyIsTruthful
<1> QED
  BY <1>1, RunnerInvariant, PTL

(* Connections in use never exceed the pool, and no call waits for one     *)
(* while it holds another.                                                 *)
THEOREM PoolIsDisciplined == RunnerSpec => []PoolDiscipline
<1>1. RunnerInv => PoolDiscipline
  BY DEF RunnerInv
<1> QED
  BY <1>1, RunnerInvariant, PTL

(* The attempt counter only ever moves by the loop head: up by one, within *)
(* the bound, into the wait for a connection.                              *)
LEMMA CounterMoves ==
  ASSUME RunnerInv, [RunnerNext]_runnerVars, NEW d \in Calls, attempt'[d] # attempt[d]
  PROVE  /\ stage'[d] = "acquire"
         /\ attempt'[d] = attempt[d] + 1
         /\ attempt'[d] <= MaxAttempts(d)
<1>1. RunnerTypeOK /\ \A c \in Calls : CallInv(c)
  BY DEF RunnerInv
<1>2. ASSUME NEW c \in Calls, LoopHead(c)
      PROVE  /\ stage'[d] = "acquire"
             /\ attempt'[d] = attempt[d] + 1
             /\ attempt'[d] <= MaxAttempts(d)
  BY <1>1, <1>2 DEF LoopHead, Return, RunnerTypeOK
<1>3. ASSUME NEW c \in Calls, NEW e \in Errors,
             stage[c] \in {"acquire", "body", "commit"}, AttemptFailed(c, e)
      PROVE  /\ stage'[d] = "acquire"
             /\ attempt'[d] = attempt[d] + 1
             /\ attempt'[d] <= MaxAttempts(d)
  <2>1. attempt[c] # 0 /\ attempt[c] <= MaxAttempts(c)
    BY <1>1, <1>3 DEF CallInv
  <2> QED
    BY <1>1, <1>3, <2>1, FailedAttempt DEF LoopOnlyAt
<1>4. CASE UNCHANGED runnerVars
  BY <1>4 DEF runnerVars
<1>5. ASSUME NEW c \in Calls,
             \/ Begin(c) \/ BodySucceeds(c) \/ CommitSucceeds(c)
             \/ Cancel(c) \/ ServerAborts(c) \/ ServerCommits(c)
      PROVE  FALSE
  BY <1>5 DEF Begin, BodySucceeds, CommitSucceeds, Return, Cancel, ServerAborts,
    ServerCommits
<1>6. ASSUME NEW c \in Calls, Start(c) \/ Wake(c)
      PROVE  LoopHead(c)
  BY <1>6 DEF Start, Wake, Return
<1>7. ASSUME NEW c \in Calls, NEW e \in Errors,
             \/ BeginFails(c, e) \/ BodyFails(c, e)
             \/ CommitRefused(c, e) \/ CommitUnanswered(c, e)
      PROVE  stage[c] \in {"acquire", "body", "commit"} /\ AttemptFailed(c, e)
  BY <1>7 DEF BeginFails, BodyFails, CommitRefused, CommitUnanswered
<1> QED
  BY <1>2, <1>3, <1>4, <1>5, <1>6, <1>7 DEF RunnerNext

(* A further attempt starts only after the one before it is over at the    *)
(* server and without effect.                                              *)
THEOREM RetriesAfterRollback == RunnerSpec => RetryOnlyAfterRollback
<1>1. ASSUME RunnerInv, RunnerInv', [RunnerNext]_runnerVars
      PROVE  [\A c \in Calls : attempt[c] >= 1 /\ attempt'[c] # attempt[c] =>
                /\ attempt'[c] = attempt[c] + 1
                /\ attempt'[c] <= MaxAttempts(c)
                /\ txn'[c] = "none"
                /\ commits'[c] = 0]_runnerVars
  <2>1. ASSUME NEW c \in Calls, attempt'[c] # attempt[c]
        PROVE  /\ attempt'[c] = attempt[c] + 1
               /\ attempt'[c] <= MaxAttempts(c)
               /\ stage'[c] = "acquire"
    BY <1>1, <2>1, CounterMoves
  <2>2. ASSUME NEW c \in Calls, stage'[c] = "acquire"
        PROVE  txn'[c] = "none" /\ commits'[c] = 0
    BY <1>1, <2>2 DEF RunnerInv, CallInv
  <2> QED
    BY <2>1, <2>2
<1> QED
  BY <1>1, RunnerInvariant, PTL DEF RunnerSpec, RetryOnlyAfterRollback

-----------------------------------------------------------------------------
(* Termination, as far as it is a matter of safety: a call has only so     *)
(* much left to do, and as long as one has something left, one can go on.  *)

(* Stages in the order of an attempt.                                      *)
Place(s) ==
  CASE s = "idle" -> 5 [] s = "acquire" -> 4 [] s = "body" -> 3
    [] s = "commit" -> 2 [] s = "sleep" -> 1 [] OTHER -> 0

Rank(c) == 5 * (MaxAttempts(c) - attempt[c]) + Place(stage[c])

Unsettled(c) == txn[c] \in {"orphan", "committing"}

(* A bound on the steps the call can still take, the caller's cancellation *)
(* and the server's settlement of its transaction among them.              *)
Work(c) ==
  3 * Rank(c) + (IF c \in canceled THEN 0 ELSE 1) + (IF Unsettled(c) THEN 1 ELSE 0)

LEMMA PlaceFacts ==
  /\ Place("idle") = 5 /\ Place("acquire") = 4 /\ Place("body") = 3
  /\ Place("commit") = 2 /\ Place("sleep") = 1 /\ Place("returned") = 0
BY DEF Place

LEMMA RankType ==
  ASSUME RunnerInv, NEW c \in Calls
  PROVE  Rank(c) \in Nat
<1>1. MaxAttempts(c) \in Nat /\ attempt[c] \in Nat /\ attempt[c] <= MaxAttempts(c)
  BY AttemptsPositive DEF RunnerInv, RunnerTypeOK, CallInv
<1>2. Place(stage[c]) \in Nat
  BY DEF Place
<1> QED
  BY <1>1, <1>2 DEF Rank

WorksOK == \A c \in Calls : Work(c) \in Nat

LEMMA WorkType == RunnerInv => WorksOK
<1> SUFFICES ASSUME RunnerInv, NEW c \in Calls PROVE Work(c) \in Nat
  BY DEF WorksOK
<1> QED
  BY RankType DEF Work

LEMMA WorkAfterStep == RunnerInv' => WorksOK'
BY WorkType, PTL

(* The loop leaves less to do, wherever it is entered from.                *)
LEMMA LoopAdvances ==
  ASSUME RunnerInv, NEW c \in Calls,
         \/ stage[c] \in {"idle", "sleep"} /\ LoopHead(c)
         \/ /\ stage[c] \in {"acquire", "body", "commit"}
            /\ \E e \in Errors : AttemptFailed(c, e)
  PROVE  LoopOnlyAt(c) /\ Rank(c)' < Rank(c)
<1>1. MaxAttempts(c) \in Nat \ {0}
  BY AttemptsPositive
<1>2. /\ RunnerTypeOK /\ attempt[c] \in Nat /\ attempt[c] <= MaxAttempts(c)
      /\ stage[c] = "idle" => attempt[c] = 0
      /\ stage[c] = "sleep" => attempt[c] < MaxAttempts(c)
      /\ stage[c] # "idle" => attempt[c] # 0
  BY DEF RunnerInv, RunnerTypeOK, CallInv
<1>3. CASE stage[c] \in {"idle", "sleep"} /\ LoopHead(c)
  <2>1. /\ stage' = [stage EXCEPT ![c] = "acquire"]
        /\ attempt' = [attempt EXCEPT ![c] = attempt[c] + 1]
        /\ err' = err
    BY <1>1, <1>2, <1>3 DEF LoopHead
  <2>2. /\ LoopOnlyAt(c) /\ stage'[c] = "acquire" /\ attempt'[c] = attempt[c] + 1
    BY <1>2, <2>1 DEF RunnerTypeOK, LoopOnlyAt, Stages
  <2>3. Place(stage[c]) \in {1, 5} /\ Place(stage'[c]) = 4
    BY <1>3, <2>2, PlaceFacts
  <2>4. (MaxAttempts(c))' = MaxAttempts(c)
    BY DEF MaxAttempts
  <2> QED
    BY <1>1, <1>2, <2>2, <2>3, <2>4 DEF Rank
<1>4. CASE /\ stage[c] \in {"acquire", "body", "commit"}
           /\ \E e \in Errors : AttemptFailed(c, e)
  <2>1. PICK e \in Errors : AttemptFailed(c, e)
    BY <1>4
  <2>2. /\ LoopOnlyAt(c)
        /\ \/ stage'[c] \in {"returned", "sleep"} /\ attempt'[c] = attempt[c]
           \/ stage'[c] = "acquire" /\ attempt'[c] = attempt[c] + 1
    BY <1>2, <1>4, <2>1, FailedAttempt
  <2>3. Place(stage[c]) \in {2, 3, 4}
    BY <1>4, PlaceFacts
  <2>4. (MaxAttempts(c))' = MaxAttempts(c)
    BY DEF MaxAttempts
  <2>5. CASE stage'[c] \in {"returned", "sleep"} /\ attempt'[c] = attempt[c]
    <3>1. Place(stage'[c]) \in {0, 1}
      BY <2>5, PlaceFacts
    <3> QED
      BY <1>1, <1>2, <2>2, <2>3, <2>4, <2>5, <3>1 DEF Rank
  <2>6. CASE stage'[c] = "acquire" /\ attempt'[c] = attempt[c] + 1
    <3>1. Place(stage'[c]) = 4
      BY <2>6, PlaceFacts
    <3> QED
      BY <1>1, <1>2, <2>2, <2>3, <2>4, <2>6, <3>1 DEF Rank
  <2> QED
    BY <2>2, <2>5, <2>6
<1> QED
  BY <1>3, <1>4

(* A step of call c: c has less left to do, every other call what it had.  *)
Advances(c) ==
  /\ Work(c)' < Work(c)
  /\ \A d \in Calls \ {c} : Work(d)' = Work(d)

(* What a call has left to do depends on its own entries only.             *)
LEMMA OthersKeepWork ==
  ASSUME RunnerInv, NEW c \in Calls,
         UNCHANGED stage \/ LoopOnlyAt(c), UNCHANGED attempt \/ LoopOnlyAt(c),
         UNCHANGED txn \/ \E t \in TxnStates : txn' = [txn EXCEPT ![c] = t],
         UNCHANGED canceled \/ canceled' = canceled \cup {c}
  PROVE  \A d \in Calls \ {c} : Work(d)' = Work(d)
<1> SUFFICES ASSUME NEW d \in Calls, d # c PROVE Work(d)' = Work(d)
  OBVIOUS
<1>1. stage'[d] = stage[d] /\ attempt'[d] = attempt[d]
  BY DEF LoopOnlyAt
<1>2. txn'[d] = txn[d] /\ (d \in canceled' <=> d \in canceled)
  BY DEF RunnerInv, RunnerTypeOK
<1> QED
  BY <1>1, <1>2 DEF Work, Rank, Unsettled, MaxAttempts

RanksOK == \A c \in Calls : Rank(c) \in Nat

LEMMA RanksType == RunnerInv => RanksOK
BY RankType DEF RanksOK

(* The step of an attempt outweighs a transaction left to the server.      *)
LEMMA RankOutweighs ==
  ASSUME RunnerInv, RunnerInv', NEW c \in Calls, Rank(c)' < Rank(c), UNCHANGED canceled
  PROVE  Work(c)' < Work(c)
<1>1. Rank(c) \in Nat /\ Rank(c)' \in Nat
  <2>1. RanksOK /\ RanksOK'
    BY RanksType, PTL
  <2> QED
    BY <2>1 DEF RanksOK
<1> QED
  BY <1>1 DEF Work

(* The steps within an attempt: on to the next stage, or out of the loop.  *)
LEMMA StageAdvances ==
  ASSUME RunnerInv, NEW c \in Calls,
         \/ Begin(c) \/ BodySucceeds(c) \/ CommitSucceeds(c)
         \/ stage[c] = "sleep" /\ Return(c, "canceled")
  PROVE  LoopOnlyAt(c) /\ Rank(c)' < Rank(c)
<1>1. RunnerTypeOK /\ attempt[c] \in Nat /\ MaxAttempts(c) \in Nat
  BY AttemptsPositive DEF RunnerInv, RunnerTypeOK
<1>2. (MaxAttempts(c))' = MaxAttempts(c)
  BY DEF MaxAttempts
<1>3. CASE Begin(c) \/ BodySucceeds(c)
  <2>1. LoopOnlyAt(c) /\ attempt'[c] = attempt[c]
    BY <1>1, <1>3 DEF Begin, BodySucceeds, RunnerTypeOK, LoopOnlyAt, Stages
  <2>2. \/ stage[c] = "acquire" /\ stage'[c] = "body"
        \/ stage[c] = "body" /\ stage'[c] = "commit"
    BY <1>1, <1>3 DEF Begin, BodySucceeds, RunnerTypeOK
  <2>3. Place(stage'[c]) \in Nat /\ Place(stage[c]) \in Nat /\ Place(stage'[c]) < Place(stage[c])
    BY <2>2, PlaceFacts
  <2> QED
    BY <1>1, <1>2, <2>1, <2>3 DEF Rank
<1>4. CASE CommitSucceeds(c) \/ (stage[c] = "sleep" /\ Return(c, "canceled"))
  <2>1. LoopOnlyAt(c) /\ attempt'[c] = attempt[c] /\ stage'[c] = "returned"
    BY <1>1, <1>4 DEF CommitSucceeds, Return, RunnerTypeOK, LoopOnlyAt, Stages, Errors,
      Broken
  <2>2. Place(stage'[c]) = 0 /\ Place(stage[c]) \in {1, 2}
    BY <1>4, <2>1, PlaceFacts DEF CommitSucceeds
  <2> QED
    BY <1>1, <1>2, <2>1, <2>2 DEF Rank
<1> QED
  BY <1>3, <1>4

(* A step that leaves its call's goroutine where it was: the caller gives  *)
(* up, or the server settles the transaction of a client that is gone.     *)
LEMMA OutsideAdvances ==
  ASSUME RunnerInv, NEW c \in Calls, Cancel(c) \/ ServerAborts(c) \/ ServerCommits(c)
  PROVE  Advances(c)
<1>1. RunnerTypeOK /\ Rank(c) \in Nat /\ "none" \in TxnStates
  BY RankType DEF RunnerInv, TxnStates
<1>2. UNCHANGED <<stage, attempt>> /\ Rank(c)' = Rank(c)
  BY DEF Cancel, ServerAborts, ServerCommits, Rank, MaxAttempts
<1>3. \A d \in Calls \ {c} : Work(d)' = Work(d)
  BY <1>1, <1>2, OthersKeepWork DEF Cancel, ServerAborts, ServerCommits, SetTxn
<1>4. CASE Cancel(c)
  BY <1>1, <1>2, <1>3, <1>4 DEF Cancel, Advances, Work, Unsettled
<1>5. CASE ServerAborts(c) \/ ServerCommits(c)
  <2>1. Unsettled(c) /\ txn'[c] = "none" /\ UNCHANGED canceled
    BY <1>1, <1>5 DEF ServerAborts, ServerCommits, SetTxn, RunnerTypeOK, Unsettled
  <2> QED
    BY <1>1, <1>2, <1>3, <2>1 DEF Advances, Work, Unsettled
<1> QED
  BY <1>4, <1>5

(* The steps of RunnerNext that call c takes.                              *)
StepOf(c) ==
  \/ Start(c) \/ Begin(c) \/ BodySucceeds(c) \/ CommitSucceeds(c) \/ Wake(c)
  \/ Cancel(c) \/ ServerAborts(c) \/ ServerCommits(c)
  \/ \E e \in Errors :
       \/ BeginFails(c, e) \/ BodyFails(c, e)
       \/ CommitRefused(c, e) \/ CommitUnanswered(c, e)

LEMMA StepAdvances ==
  ASSUME RunnerInv, RunnerInv', NEW c \in Calls, StepOf(c)
  PROVE  Advances(c)
<1>1. ASSUME Rank(c)' < Rank(c), LoopOnlyAt(c), UNCHANGED canceled,
             UNCHANGED txn \/ \E t \in TxnStates : txn' = [txn EXCEPT ![c] = t]
      PROVE  Advances(c)
  BY <1>1, OthersKeepWork, RankOutweighs DEF Advances
<1>2. ASSUME Start(c) \/ Begin(c) \/ BodySucceeds(c) \/ CommitSucceeds(c) \/ Wake(c)
      PROVE  Advances(c)
  <2>1. /\ UNCHANGED canceled
        /\ UNCHANGED txn \/ \E t \in TxnStates : txn' = [txn EXCEPT ![c] = t]
    BY <1>2 DEF Start, Begin, BodySucceeds, CommitSucceeds, Wake, SetTxn, TxnStates
  <2>2. LoopOnlyAt(c) /\ Rank(c)' < Rank(c)
    BY <1>2, LoopAdvances, StageAdvances DEF Start, Wake
  <2> QED
    BY <1>1, <2>1, <2>2
<1>3. ASSUME NEW e \in Errors,
             \/ BeginFails(c, e) \/ BodyFails(c, e)
             \/ CommitRefused(c, e) \/ CommitUnanswered(c, e)
      PROVE  Advances(c)
  <2>1. stage[c] \in {"acquire", "body", "commit"} /\ AttemptFailed(c, e)
    BY <1>3 DEF BeginFails, BodyFails, CommitRefused, CommitUnanswered
  <2>2. /\ UNCHANGED canceled
        /\ UNCHANGED txn \/ \E t \in TxnStates : txn' = [txn EXCEPT ![c] = t]
    BY <1>3 DEF BeginFails, BodyFails, CommitRefused, CommitUnanswered, SetTxn, TxnStates
  <2> QED
    BY <1>1, <2>1, <2>2, LoopAdvances
<1> QED
  BY <1>2, <1>3, OutsideAdvances DEF StepOf

(* It leaves every other call where it is.                                 *)
LEMMA OthersStayPut ==
  ASSUME RunnerInv, NEW c \in Calls, StepOf(c)
  PROVE  \A d \in Calls \ {c} : stage'[d] = stage[d]
<1>1. RunnerTypeOK
  BY DEF RunnerInv
<1>2. ASSUME NEW e \in Errors \cup {NoErr}, LoopHead(c) \/ Return(c, e) \/ AttemptFailed(c, e)
      PROVE  \A d \in Calls \ {c} : stage'[d] = stage[d]
  BY <1>1, <1>2 DEF AttemptFailed, retrySleep, LoopHead, Return, RunnerTypeOK
<1>3. "canceled" \in Errors /\ Errors \subseteq Errors \cup {NoErr}
  BY DEF Errors, Broken
<1> QED
  BY <1>1, <1>2, <1>3 DEF StepOf, Start, Begin, BodySucceeds, CommitSucceeds, Wake, Cancel,
    ServerAborts, ServerCommits, BeginFails, BodyFails, CommitRefused, CommitUnanswered,
    RunnerTypeOK

LEMMA WorkBound ==
  RunnerInv => \A c \in Calls : Work(c) \in 0..(15 * MaxAttempts(c) + 16)
<1> SUFFICES ASSUME RunnerInv, NEW c \in Calls
             PROVE  Work(c) \in 0..(15 * MaxAttempts(c) + 16)
  OBVIOUS
<1>1. /\ MaxAttempts(c) \in Nat \ {0} /\ attempt[c] \in Nat /\ attempt[c] <= MaxAttempts(c)
      /\ stage[c] = "idle" <=> attempt[c] = 0
      /\ stage[c] \in Stages /\ Work(c) \in Nat /\ Rank(c) \in Nat
  BY AttemptsPositive, WorkType, RankType DEF RunnerInv, RunnerTypeOK, CallInv, WorksOK
<1>2. CASE stage[c] = "idle"
  <2>1. Rank(c) = 5 * MaxAttempts(c) + 5 /\ ~Unsettled(c)
    BY <1>1, <1>2, PlaceFacts DEF Rank, RunnerInv, CallInv, Unsettled
  <2> QED
    BY <1>1, <2>1 DEF Work
<1>3. CASE stage[c] # "idle"
  <2>1. Place(stage[c]) \in 0..4
    BY <1>1, <1>3, PlaceFacts DEF Stages
  <2>2. Rank(c) <= 5 * MaxAttempts(c)
    BY <1>1, <1>3, <2>1 DEF Rank
  <2> QED
    BY <1>1, <2>2 DEF Work
<1> QED
  BY <1>2, <1>3

(* Every step, whoever takes it, leaves its call with less to do and the   *)
(* others with what they had, of a total fixed by TxConfig.MaxAttempts:    *)
(* without any fairness, withRetry neither loops forever nor is kept going *)
(* by cancellations, broken connections and refusals.                      *)
THEOREM StepsRunOut ==
  RunnerSpec =>
    /\ [](\A c \in Calls : Work(c) \in 0..(15 * MaxAttempts(c) + 16))
    /\ [][\E c \in Calls : Advances(c)]_runnerVars
<1>1. ASSUME RunnerInv, RunnerInv', [RunnerNext]_runnerVars
      PROVE  [\E c \in Calls : Advances(c)]_runnerVars
  BY <1>1, StepAdvances DEF RunnerNext, StepOf
<1> QED
  BY <1>1, WorkBound, RunnerInvariant, PTL DEF RunnerSpec

(* The guards of Proceeds: a call on its way can take a step of its own.   *)
CanProceed(c) ==
  \/ stage[c] = "acquire" /\ (c \in canceled \/ Cardinality(holds) < MaxConns)
  \/ stage[c] \in {"body", "commit", "sleep"}

(* A call that has not returned can go on, unless it waits for a full pool *)
(* whose connections are with calls that can.                              *)
NobodyIsStuck ==
  \A c \in Calls :
    stage[c] \notin {"idle", "returned"} =>
      CanProceed(c) \/ (holds # {} /\ \A d \in holds : CanProceed(d))

(* Waiting for a connection never closes a circle: BeginTxFunc takes one   *)
(* connection per attempt and gives it back before withRetry goes on.      *)
THEOREM WaitsForTheUnstuck == RunnerSpec => []NobodyIsStuck
<1>1. RunnerInv => NobodyIsStuck
  <2> SUFFICES ASSUME RunnerInv, NEW c \in Calls, stage[c] \notin {"idle", "returned"},
                      ~CanProceed(c)
               PROVE  holds # {} /\ \A d \in holds : CanProceed(d)
    BY DEF NobodyIsStuck
  <2>1. stage[c] = "acquire" /\ ~(Cardinality(holds) < MaxConns)
    BY DEF CanProceed, RunnerInv, RunnerTypeOK, Stages
  <2>2. holds # {}
    BY <2>1, FS_EmptySet, RunnerAssumption DEF RunnerAssumption
  <2>3. \A d \in holds : stage[d] \in {"body", "commit"}
    BY DEF RunnerInv, RunnerTypeOK, PoolDiscipline
  <2> QED
    BY <2>2, <2>3 DEF CanProceed
<1> QED
  BY <1>1, RunnerInvariant, PTL
=============================================================================
