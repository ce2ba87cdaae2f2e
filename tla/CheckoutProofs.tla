--------------------------- MODULE CheckoutProofs ---------------------------
(***************************************************************************)
(* The safety properties of Checkout, proved for any set of checkouts and  *)
(* orders, any quotes, any pool and any configuration of attempts.         *)
(***************************************************************************)
EXTENDS Checkout, TxRunnerProofs

Full == {"reservation", "payment", "paid"}

(* Outside the transaction: the provider is asked before the runner is     *)
(* entered, once, with the quote that stays.                               *)
OutsideInv(c) ==
  /\ phase[c] = "completing" <=> stage[c] # "idle"
  /\ phase[c] \in {"new", "quoting", "authorizing"} => granted[c] = 0
  /\ phase[c] = "completing" => granted[c] = 1
  /\ granted[c] <= 1
  /\ phase[c] \in {"authorizing", "completing"} => quote[c] \in Amounts

(* What a transaction has written, by the statement it is at.              *)
WritesInv(c) ==
  /\ txn[c] = "none" => writes[c] = {}
  /\ stage[c] = "body" =>
       /\ step[c] \in {"get", "reserve"} => writes[c] = {}
       /\ step[c] = "pay" => writes[c] = {"reservation"}
       /\ step[c] = "mark" => writes[c] = {"reservation", "payment"}
       /\ step[c] \in {"reserve", "pay", "mark"} => seen[c] = "pending_payment"
  /\ (stage[c] = "body" /\ step[c] = "done") \/ stage[c] = "commit" =>
       \/ writes[c] = {} /\ seen[c] = "paid"
       \/ writes[c] = Full
  /\ txn[c] = "committing" =>
       \/ writes[c] = {} /\ seen[c] = "paid"
       \/ writes[c] = Full
  /\ seen[c] = "paid" => orders[OrderOf[c]] = "paid"
  /\ stage[c] = "commit" => step[c] = "done"

(* What a call with a transaction that took effect, and the tables, have   *)
(* to do with each other.                                                  *)
TablesInv ==
  /\ PaidAtomically
  /\ \A p \in payments :
       /\ commits[p.id] >= 1
       /\ p.order = OrderOf[p.id]
  /\ \A c \in Calls : commits[c] >= 1 => orders[OrderOf[c]] = "paid"

(* At most one transaction has marked an order, a serializable one only as *)
(* long as nobody else has committed that.                                 *)
MarkInv ==
  /\ \A c, d \in Calls :
       "paid" \in writes[c] /\ "paid" \in writes[d] /\ OrderOf[c] = OrderOf[d] => c = d
  /\ \A c \in Serializable : "paid" \in writes[c] => orders[OrderOf[c]] # "paid"
  /\ \A p, q \in payments :
       p.order = q.order /\ p.id \in Serializable /\ q.id \in Serializable => p = q

CheckoutInv ==
  /\ RunnerInv
  /\ CheckoutTypeOK
  /\ \A c \in Calls : OutsideInv(c) /\ WritesInv(c)
  /\ TablesInv
  /\ MarkInv

-----------------------------------------------------------------------------
(* A checkout's steps are steps of the runner, or leave it alone. *)

LEMMA RunnerPart ==
  ASSUME [CheckoutNext]_checkoutVars
  PROVE  [RunnerNext]_runnerVars
<1>1. CASE UNCHANGED checkoutVars
  BY <1>1 DEF checkoutVars
<1>2. ASSUME NEW c \in Calls,
             \/ CheckoutStart(c) \/ GetQuote(c) \/ GetQuoteFails(c) \/ AuthorizeFails(c)
             \/ GetByID(c) \/ ReserveForOrder(c) \/ CreatePayment(c) \/ MarkPaid(c)
      PROVE  UNCHANGED runnerVars
  BY <1>2 DEF CheckoutStart, GetQuote, GetQuoteFails, AuthorizeFails, GetByID,
    ReserveForOrder, CreatePayment, MarkPaid, UseCaseOnly
<1>3. ASSUME NEW c \in Calls,
             \/ Authorize(c) \/ CompleteBegin(c) \/ CompleteReturns(c)
             \/ CompleteCommits(c) \/ CompleteCancel(c) \/ CheckoutSettles(c)
      PROVE  RunnerNext
  BY <1>3 DEF Authorize, CompleteBegin, CompleteReturns, CompleteCommits, CompleteCancel,
    CheckoutSettles, CompleteServerAborts, CompleteServerCommits, RunnerNext
<1>4. ASSUME NEW c \in Calls, NEW e \in Errors,
             \/ CompleteBeginFails(c, e) \/ CompleteFails(c, e)
             \/ CompleteCommitRefused(c, e) \/ CompleteCommitUnanswered(c, e)
      PROVE  RunnerNext
  BY <1>4 DEF CompleteBeginFails, CompleteFails, CompleteCommitRefused,
    CompleteCommitUnanswered, RunnerNext
<1>5. /\ "canceled" \in Errors /\ "refused" \in Errors /\ "40001" \in Errors
      /\ \A c \in Calls : InvalidOrder(c) => CompleteFails(c, "refused")
      /\ \A c \in Calls : SerializationFails(c) => CompleteFails(c, "40001")
  BY DEF Errors, Broken, Definite, Retryable, InvalidOrder, SerializationFails
<1> QED
  BY <1>1, <1>2, <1>3, <1>4, <1>5 DEF CheckoutNext, CheckoutProceeds

-----------------------------------------------------------------------------
(* Steps of one checkout. *)

(* What a step of checkout c does to every other checkout.                 *)
OnlyAt(c) ==
  \A d \in Calls \ {c} :
    /\ stage'[d] = stage[d] /\ txn'[d] = txn[d] /\ commits'[d] = commits[d]
    /\ phase'[d] = phase[d] /\ quote'[d] = quote[d] /\ granted'[d] = granted[d]
    /\ step'[d] = step[d] /\ seen'[d] = seen[d] /\ writes'[d] = writes[d]

LEMMA StepAt ==
  ASSUME CheckoutInv, RunnerInv', CheckoutTypeOK', NEW c \in Calls, OnlyAt(c),
         OutsideInv(c)', WritesInv(c)', TablesInv', MarkInv',
         \A o \in Orders : orders[o] = "paid" => orders'[o] = "paid"
  PROVE  CheckoutInv'
<1>1. ASSUME NEW d \in Calls, d # c
      PROVE  OutsideInv(d)' /\ WritesInv(d)'
  <2>1. /\ OutsideInv(d) /\ WritesInv(d) /\ OrderOf[d] \in Orders
        /\ orders[OrderOf[d]] = "paid" => orders'[OrderOf[d]] = "paid"
    BY CheckoutAssumption DEF CheckoutInv
  <2>2. OutsideInv(d)'
    BY <1>1, <2>1 DEF OnlyAt, OutsideInv
  <2>3. WritesInv(d)'
    BY <1>1, <2>1 DEF OnlyAt, WritesInv
  <2> QED
    BY <2>2, <2>3
<1> QED
  BY <1>1 DEF CheckoutInv

(* A step that commits nothing and marks no order.                         *)
LEMMA QuietStep ==
  ASSUME CheckoutInv, RunnerInv', CheckoutTypeOK', NEW c \in Calls, OnlyAt(c),
         OutsideInv(c)', WritesInv(c)',
         UNCHANGED dbVars, commits'[c] = commits[c],
         commits[c] = 0 \/ quote'[c] = quote[c],
         "paid" \in writes'[c] => "paid" \in writes[c]
  PROVE  CheckoutInv'
<1>1. CheckoutTypeOK /\ TablesInv /\ MarkInv
  BY DEF CheckoutInv
<1>2. \A d \in Calls : commits'[d] = commits[d]
  BY DEF OnlyAt
<1>3. \A d \in Calls : commits[d] >= 1 => quote'[d] = quote[d]
  BY DEF OnlyAt
<1>4. \A p \in payments : p.id \in Calls
  BY <1>1 DEF CheckoutTypeOK
<1>5. TablesInv'
  BY <1>1, <1>2, <1>3, <1>4 DEF TablesInv, PaidAtomically, PaymentsOf, dbVars
<1>6. \A d \in Calls : "paid" \in writes'[d] => "paid" \in writes[d]
  BY DEF OnlyAt
<1>7. MarkInv'
  BY <1>1, <1>6, CheckoutAssumption DEF MarkInv, dbVars
<1> QED
  BY <1>5, <1>7, StepAt DEF dbVars

(* Where the use case goes is one of its steps.                            *)
LEMMA NextSteps ==
  ASSUME CheckoutTypeOK, NEW c \in Calls, NextStep(orders[OrderOf[c]]) # "error"
  PROVE  \/ orders[OrderOf[c]] = "paid" /\ NextStep(orders[OrderOf[c]]) = "done"
         \/ /\ orders[OrderOf[c]] = "pending_payment"
            /\ NextStep(orders[OrderOf[c]]) = "reserve"
<1>1. orders[OrderOf[c]] \in {"pending_payment", "paid", "canceled", "absent"}
  BY CheckoutAssumption DEF CheckoutTypeOK, Statuses
<1>2. CASE orders[OrderOf[c]] = "paid"
  BY <1>2 DEF NextStep
<1>3. CASE orders[OrderOf[c]] = "pending_payment"
  BY <1>3 DEF NextStep
<1>4. CASE orders[OrderOf[c]] \notin {"paid", "pending_payment"}
  BY <1>4 DEF NextStep
<1> QED
  BY <1>2, <1>3, <1>4

(* Every variable of a checkout keeps its type.                            *)
LEMMA TypeStep ==
  ASSUME CheckoutInv, [CheckoutNext]_checkoutVars
  PROVE  RunnerInv' /\ CheckoutTypeOK'
<1>1. CheckoutTypeOK /\ RunnerInv
  BY DEF CheckoutInv
<1>2. RunnerInv' /\ RunnerTypeOK'
  BY <1>1, RunnerPart, NextInv DEF RunnerInv
<1>3. CASE UNCHANGED checkoutVars
  BY <1>1, <1>2, <1>3 DEF CheckoutTypeOK, checkoutVars, dbVars, useCaseVars, outsideVars
<1>4. ASSUME NEW c \in Calls,
             \/ CheckoutStart(c) \/ GetQuote(c) \/ GetQuoteFails(c) \/ Authorize(c)
             \/ AuthorizeFails(c)
      PROVE  CheckoutTypeOK'
  BY <1>1, <1>2, <1>4, CheckoutAssumption DEF CheckoutTypeOK, CheckoutStart, GetQuote,
    GetQuoteFails, Authorize, AuthorizeFails, SetPhase, Phases, dbVars, useCaseVars
<1>5. ASSUME NEW c \in Calls, GetByID(c)
      PROVE  CheckoutTypeOK'
  <2>1. NextStep(orders[OrderOf[c]]) \in UseCaseSteps /\ OrderOf[c] \in Orders
    BY <1>1, <1>5, NextSteps, CheckoutAssumption DEF GetByID, UseCaseSteps
  <2> QED
    BY <1>1, <1>2, <1>5, <2>1 DEF CheckoutTypeOK, GetByID, SetStep, UseCaseOnly, dbVars,
      outsideVars
<1>6. ASSUME NEW c \in Calls, ReserveForOrder(c) \/ CreatePayment(c) \/ MarkPaid(c)
      PROVE  CheckoutTypeOK'
  BY <1>1, <1>2, <1>6 DEF CheckoutTypeOK, ReserveForOrder, CreatePayment, MarkPaid, Write,
    Writes, SetStep, UseCaseSteps, UseCaseOnly, dbVars, outsideVars
<1>7. ASSUME NEW c \in Calls, NEW e \in Errors,
             \/ CompleteBegin(c) \/ CompleteReturns(c) \/ CompleteCancel(c)
             \/ CompleteServerAborts(c) \/ CompleteBeginFails(c, e) \/ CompleteFails(c, e)
             \/ CompleteCommitRefused(c, e) \/ CompleteCommitUnanswered(c, e)
      PROVE  CheckoutTypeOK'
  BY <1>1, <1>2, <1>7 DEF CheckoutTypeOK, CompleteBegin, CompleteReturns, CompleteCancel,
    CompleteServerAborts, CompleteBeginFails, CompleteFails, CompleteCommitRefused,
    CompleteCommitUnanswered, KeepWrites, DropWrites, SetStep, UseCaseSteps, dbVars,
    useCaseVars, outsideVars
<1>8. ASSUME NEW c \in Calls, CompleteCommits(c) \/ CompleteServerCommits(c)
      PROVE  CheckoutTypeOK'
  BY <1>1, <1>2, <1>8, CheckoutAssumption DEF CheckoutTypeOK, CompleteCommits,
    CompleteServerCommits, CommitWrites, Payment, Statuses, outsideVars
<1>9. /\ "canceled" \in Errors /\ "refused" \in Errors /\ "40001" \in Errors
      /\ \A c \in Calls : InvalidOrder(c) => CompleteFails(c, "refused")
      /\ \A c \in Calls : SerializationFails(c) => CompleteFails(c, "40001")
  BY DEF Errors, Broken, Definite, Retryable, InvalidOrder, SerializationFails
<1> QED
  BY <1>2, <1>3, <1>4, <1>5, <1>6, <1>7, <1>8, <1>9
  DEF CheckoutNext, CheckoutProceeds, CheckoutSettles

-----------------------------------------------------------------------------
(* One lemma per class of step. *)

(* The quote and the authorisation: nothing of the runner or the tables.   *)
LEMMA OutsideStep ==
  ASSUME CheckoutInv, RunnerInv', CheckoutTypeOK', NEW c \in Calls,
         \/ CheckoutStart(c) \/ GetQuote(c) \/ GetQuoteFails(c) \/ AuthorizeFails(c)
  PROVE  CheckoutInv'
<1>1. CheckoutTypeOK /\ OutsideInv(c) /\ WritesInv(c) /\ CallInv(c) /\ RunnerTypeOK
  BY DEF CheckoutInv, RunnerInv
<1>2. UNCHANGED <<runnerVars, dbVars, useCaseVars>>
  BY DEF CheckoutStart, GetQuote, GetQuoteFails, AuthorizeFails
<1>3. commits[c] = 0
  BY <1>1 DEF CheckoutStart, GetQuote, GetQuoteFails, AuthorizeFails, OutsideInv, CallInv,
    RunnerTypeOK, Stages
<1>4. OnlyAt(c)
  BY <1>1, <1>2 DEF OnlyAt, runnerVars, useCaseVars, CheckoutStart, GetQuote,
    GetQuoteFails, AuthorizeFails, SetPhase, CheckoutTypeOK
<1>5. OutsideInv(c)'
  <2>1. CASE CheckoutStart(c) \/ GetQuoteFails(c)
    BY <1>1, <1>2, <2>1 DEF OutsideInv, CheckoutStart, GetQuoteFails, SetPhase, runnerVars,
      CheckoutTypeOK
  <2>2. CASE GetQuote(c)
    BY <1>1, <1>2, <2>2 DEF OutsideInv, GetQuote, SetPhase, runnerVars, CheckoutTypeOK
  <2>3. CASE AuthorizeFails(c)
    BY <1>1, <1>2, <2>3 DEF OutsideInv, AuthorizeFails, SetPhase, runnerVars,
      CheckoutTypeOK
  <2> QED
    BY <2>1, <2>2, <2>3
<1>6. WritesInv(c)'
  BY <1>1, <1>2 DEF WritesInv, runnerVars, useCaseVars, dbVars
<1> QED
  BY <1>2, <1>3, <1>4, <1>5, <1>6, QuietStep DEF runnerVars, useCaseVars

(* The authorisation is granted, and the runner entered.                   *)
LEMMA AuthorizeStep ==
  ASSUME CheckoutInv, RunnerInv', CheckoutTypeOK', NEW c \in Calls, Authorize(c)
  PROVE  CheckoutInv'
<1>1. /\ CheckoutTypeOK /\ OutsideInv(c) /\ WritesInv(c) /\ CallInv(c) /\ RunnerTypeOK
      /\ CallInv(c)'
  BY DEF CheckoutInv, RunnerInv
<1>2. stage[c] = "idle" /\ txn[c] = "none" /\ commits[c] = 0 /\ attempt[c] = 0
  BY <1>1 DEF Authorize, Start, CallInv
<1>3. /\ stage' = [stage EXCEPT ![c] = "acquire"]
      /\ txn' = txn /\ commits' = commits
  BY <1>2, AttemptsPositive DEF Authorize, Start, LoopHead
<1>4. /\ OnlyAt(c) /\ UNCHANGED <<dbVars, useCaseVars, quote>> /\ stage'[c] = "acquire"
      /\ phase'[c] = "completing" /\ granted'[c] = granted[c] + 1
  BY <1>1, <1>3 DEF OnlyAt, Authorize, SetPhase, useCaseVars, CheckoutTypeOK, RunnerTypeOK
<1>5. OutsideInv(c)'
  BY <1>1, <1>4 DEF OutsideInv, Authorize
<1>6. WritesInv(c)'
  BY <1>1, <1>2, <1>3, <1>4 DEF WritesInv, dbVars, useCaseVars
<1> QED
  BY <1>3, <1>4, <1>5, <1>6, QuietStep DEF useCaseVars

(* A statement that only reads or reserves or inserts.                     *)
LEMMA StatementStep ==
  ASSUME CheckoutInv, RunnerInv', CheckoutTypeOK', NEW c \in Calls,
         GetByID(c) \/ ReserveForOrder(c) \/ CreatePayment(c)
  PROVE  CheckoutInv'
<1>1. CheckoutTypeOK /\ OutsideInv(c) /\ WritesInv(c) /\ CallInv(c)
  BY DEF CheckoutInv, RunnerInv
<1>2. stage[c] = "body" /\ txn[c] = "open" /\ UNCHANGED <<runnerVars, dbVars, outsideVars>>
  BY <1>1 DEF GetByID, ReserveForOrder, CreatePayment, InUseCase, UseCaseOnly, CallInv
<1>3. OnlyAt(c)
  BY <1>1, <1>2 DEF OnlyAt, runnerVars, outsideVars, GetByID, ReserveForOrder,
    CreatePayment, SetStep, Write, CheckoutTypeOK
<1>4. OutsideInv(c)'
  BY <1>1, <1>2 DEF OutsideInv, runnerVars, outsideVars
<1>5. CASE GetByID(c)
  <2>1. /\ step[c] = "get" /\ writes' = writes
        /\ step'[c] = NextStep(orders[OrderOf[c]])
        /\ seen'[c] = orders[OrderOf[c]]
        /\ NextStep(orders[OrderOf[c]]) # "error"
    BY <1>1, <1>5 DEF GetByID, InUseCase, SetStep, CheckoutTypeOK
  <2>2. WritesInv(c)'
    BY <1>1, <1>2, <2>1, NextSteps DEF WritesInv, runnerVars, dbVars
  <2> QED
    BY <1>2, <1>3, <1>4, <2>1, <2>2, QuietStep DEF runnerVars, outsideVars
<1>6. CASE ReserveForOrder(c)
  <2>1. /\ step[c] = "reserve" /\ step'[c] = "pay" /\ seen' = seen
        /\ writes'[c] = writes[c] \cup {"reservation"}
    BY <1>1, <1>6 DEF ReserveForOrder, InUseCase, SetStep, Write, CheckoutTypeOK
  <2>2. WritesInv(c)'
    BY <1>1, <1>2, <2>1 DEF WritesInv, runnerVars, dbVars
  <2> QED
    BY <1>2, <1>3, <1>4, <2>1, <2>2, QuietStep DEF runnerVars, outsideVars
<1>7. CASE CreatePayment(c)
  <2>1. /\ step[c] = "pay" /\ step'[c] = "mark" /\ seen' = seen
        /\ writes'[c] = writes[c] \cup {"payment"}
    BY <1>1, <1>7 DEF CreatePayment, InUseCase, SetStep, Write, CheckoutTypeOK
  <2>2. WritesInv(c)'
    BY <1>1, <1>2, <2>1 DEF WritesInv, runnerVars, dbVars
  <2> QED
    BY <1>2, <1>3, <1>4, <2>1, <2>2, QuietStep DEF runnerVars, outsideVars
<1> QED
  BY <1>5, <1>6, <1>7

(* The UPDATE that marks the order: nobody else has, and if the checkout   *)
(* is serializable nobody has committed it since the read.                 *)
LEMMA MarkPaidStep ==
  ASSUME CheckoutInv, RunnerInv', CheckoutTypeOK', NEW c \in Calls, MarkPaid(c)
  PROVE  CheckoutInv'
<1>1. CheckoutTypeOK /\ OutsideInv(c) /\ WritesInv(c) /\ CallInv(c) /\ TablesInv /\ MarkInv
  BY DEF CheckoutInv, RunnerInv
<1>2. stage[c] = "body" /\ txn[c] = "open" /\ UNCHANGED <<runnerVars, dbVars, outsideVars>>
  BY <1>1 DEF MarkPaid, InUseCase, UseCaseOnly, CallInv
<1>3. /\ step[c] = "mark" /\ step'[c] = "done" /\ seen' = seen
      /\ writes[c] = {"reservation", "payment"} /\ seen[c] = "pending_payment"
      /\ writes' = [writes EXCEPT ![c] = Full]
  BY <1>1, <1>2 DEF MarkPaid, InUseCase, SetStep, Write, CheckoutTypeOK, WritesInv, Full
<1>4. OnlyAt(c) /\ writes'[c] = Full
  BY <1>1, <1>2, <1>3 DEF OnlyAt, runnerVars, outsideVars, MarkPaid, SetStep, CheckoutTypeOK
<1>5. OutsideInv(c)'
  BY <1>1, <1>2 DEF OutsideInv, runnerVars, outsideVars
<1>6. WritesInv(c)'
  BY <1>1, <1>2, <1>3, <1>4 DEF WritesInv, runnerVars, dbVars
<1>7. TablesInv'
  BY <1>1, <1>2 DEF TablesInv, PaidAtomically, PaymentsOf, runnerVars, dbVars, outsideVars
<1>8. MarkInv'
  <2>1. \A d \in Calls \ {c} : OrderOf[d] = OrderOf[c] => "paid" \notin writes[d]
    BY DEF MarkPaid, RowLocked
  <2>2. c \in Serializable => orders[OrderOf[c]] # "paid"
    BY <1>3 DEF MarkPaid, WriteConflict
  <2>3. \A d \in Calls : "paid" \in writes'[d] => d = c \/ "paid" \in writes[d]
    BY <1>4 DEF OnlyAt
  <2> QED
    BY <1>1, <1>2, <2>1, <2>2, <2>3, CheckoutAssumption DEF MarkInv, dbVars
<1> QED
  BY <1>2, <1>4, <1>5, <1>6, <1>7, <1>8, StepAt DEF dbVars

(* A transaction begins, its function returns nil, or its context is done. *)
LEMMA GoOnStep ==
  ASSUME CheckoutInv, RunnerInv', CheckoutTypeOK', NEW c \in Calls,
         CompleteBegin(c) \/ CompleteReturns(c) \/ CompleteCancel(c)
  PROVE  CheckoutInv'
<1>1. CheckoutTypeOK /\ OutsideInv(c) /\ WritesInv(c) /\ CallInv(c) /\ RunnerTypeOK
  BY DEF CheckoutInv, RunnerInv
<1>2. UNCHANGED <<seen, writes, dbVars, outsideVars, commits>>
  BY DEF CompleteBegin, Begin, CompleteReturns, BodySucceeds, CompleteCancel, Cancel,
    useCaseVars
<1>3. CASE CompleteBegin(c)
  <2>1. /\ stage[c] = "acquire" /\ stage' = [stage EXCEPT ![c] = "body"]
        /\ txn' = [txn EXCEPT ![c] = "open"] /\ step' = [step EXCEPT ![c] = "get"]
    BY <1>3 DEF CompleteBegin, Begin, SetTxn, SetStep
  <2>2. /\ OnlyAt(c) /\ stage'[c] = "body" /\ txn'[c] = "open" /\ step'[c] = "get"
        /\ writes[c] = {}
    BY <1>1, <1>2, <2>1 DEF OnlyAt, outsideVars, CheckoutTypeOK, RunnerTypeOK, CallInv,
      WritesInv
  <2>3. OutsideInv(c)' /\ WritesInv(c)'
    BY <1>1, <1>2, <2>1, <2>2 DEF OutsideInv, WritesInv, dbVars, outsideVars
  <2> QED
    BY <1>2, <2>2, <2>3, QuietStep DEF outsideVars
<1>4. CASE CompleteReturns(c)
  <2>1. /\ stage[c] = "body" /\ stage' = [stage EXCEPT ![c] = "commit"]
        /\ txn' = txn /\ step' = step /\ step[c] = "done"
    BY <1>4 DEF CompleteReturns, BodySucceeds, useCaseVars
  <2>2. OnlyAt(c) /\ stage'[c] = "commit" /\ txn[c] = "open"
    BY <1>1, <1>2, <2>1 DEF OnlyAt, outsideVars, RunnerTypeOK, CallInv
  <2>3. OutsideInv(c)' /\ WritesInv(c)'
    BY <1>1, <1>2, <2>1, <2>2 DEF OutsideInv, WritesInv, dbVars, outsideVars
  <2> QED
    BY <1>2, <2>2, <2>3, QuietStep DEF outsideVars
<1>5. CASE CompleteCancel(c)
  <2>1. stage' = stage /\ txn' = txn /\ step' = step
    BY <1>5 DEF CompleteCancel, Cancel, useCaseVars
  <2>2. OnlyAt(c) /\ OutsideInv(c)' /\ WritesInv(c)'
    BY <1>1, <1>2, <2>1 DEF OnlyAt, OutsideInv, WritesInv, dbVars, outsideVars
  <2> QED
    BY <1>2, <2>2, QuietStep DEF outsideVars
<1> QED
  BY <1>3, <1>4, <1>5

(* An attempt fails: what it wrote is gone, or waits for the server.       *)
LEMMA FailureStep ==
  ASSUME CheckoutInv, RunnerInv', CheckoutTypeOK', NEW c \in Calls, NEW e \in Errors,
         \/ CompleteBeginFails(c, e) \/ CompleteFails(c, e)
         \/ CompleteCommitRefused(c, e) \/ CompleteCommitUnanswered(c, e)
  PROVE  CheckoutInv'
<1>1. /\ CheckoutTypeOK /\ OutsideInv(c) /\ WritesInv(c) /\ CallInv(c) /\ RunnerTypeOK
      /\ RunnerInv
  BY DEF CheckoutInv, RunnerInv
<1>2. /\ UNCHANGED <<step, seen, dbVars, outsideVars, commits>>
      /\ stage[c] \in {"acquire", "body", "commit"} /\ AttemptFailed(c, e)
  BY DEF CompleteBeginFails, BeginFails, CompleteFails, BodyFails, CompleteCommitRefused,
    CommitRefused, CompleteCommitUnanswered, CommitUnanswered, KeepWrites, DropWrites,
    useCaseVars
<1>3. LoopOnlyAt(c) /\ stage'[c] \in {"returned", "acquire", "sleep"}
  BY <1>1, <1>2, AttemptEnds
<1>4. PICK w \in {writes[c], {}}, t \in TxnStates :
        /\ writes' = [writes EXCEPT ![c] = w]
        /\ txn' = [txn EXCEPT ![c] = t]
        /\ t = "none" => w = {}
        /\ t = "committing" => stage[c] = "commit" /\ w = writes[c]
  <2>1. CASE CompleteBeginFails(c, e)
    <3>1. txn[c] = "none" /\ writes[c] = {} /\ writes' = writes /\ txn' = txn
      BY <1>1, <2>1 DEF CompleteBeginFails, BeginFails, CallInv, WritesInv, useCaseVars
    <3> QED
      BY <1>1, <3>1 DEF CheckoutTypeOK, RunnerTypeOK
  <2>2. CASE CompleteFails(c, e)
    <3>1. PICK t \in {"none", "orphan"} :
            txn' = [txn EXCEPT ![c] = t] /\ (t = "none" => e \notin Broken)
      BY <2>2 DEF CompleteFails, BodyFails, SetTxn
    <3>2. PICK w \in {writes[c], {}} :
            writes' = [writes EXCEPT ![c] = w] /\ (e \notin Broken => w = {})
      BY <1>1, <2>2 DEF CompleteFails, KeepWrites, DropWrites, CheckoutTypeOK
    <3> QED
      BY <3>1, <3>2 DEF TxnStates
  <2>3. CASE CompleteCommitRefused(c, e)
    BY <2>3 DEF CompleteCommitRefused, CommitRefused, DropWrites, SetTxn, TxnStates
  <2>4. CASE CompleteCommitUnanswered(c, e)
    <3>1. PICK t \in {"orphan", "committing"} : txn' = [txn EXCEPT ![c] = t]
      BY <2>4 DEF CompleteCommitUnanswered, CommitUnanswered, SetTxn
    <3>2. stage[c] = "commit" /\ writes' = [writes EXCEPT ![c] = writes[c]]
      BY <1>1, <2>4 DEF CompleteCommitUnanswered, CommitUnanswered, KeepWrites,
        CheckoutTypeOK
    <3> QED
      BY <3>1, <3>2 DEF TxnStates
  <2> QED
    BY <2>1, <2>2, <2>3, <2>4
<1>5. OnlyAt(c) /\ writes'[c] = w /\ txn'[c] = t
  BY <1>1, <1>2, <1>3, <1>4 DEF OnlyAt, LoopOnlyAt, outsideVars, CheckoutTypeOK,
    RunnerTypeOK
<1>6. OutsideInv(c)'
  BY <1>1, <1>2, <1>3 DEF OutsideInv, outsideVars
<1>7. WritesInv(c)'
  BY <1>1, <1>2, <1>3, <1>4, <1>5 DEF WritesInv, dbVars
<1> QED
  BY <1>2, <1>4, <1>5, <1>6, <1>7, QuietStep DEF outsideVars

(* The server gives up a transaction whose client is gone.                 *)
LEMMA AbortStep ==
  ASSUME CheckoutInv, RunnerInv', CheckoutTypeOK', NEW c \in Calls,
         CompleteServerAborts(c)
  PROVE  CheckoutInv'
<1>1. CheckoutTypeOK /\ OutsideInv(c) /\ WritesInv(c) /\ CallInv(c) /\ RunnerTypeOK
  BY DEF CheckoutInv, RunnerInv
<1>2. /\ UNCHANGED <<step, seen, dbVars, outsideVars, commits, stage>>
      /\ writes' = [writes EXCEPT ![c] = {}] /\ txn' = [txn EXCEPT ![c] = "none"]
      /\ txn[c] \in {"orphan", "committing"}
  BY DEF CompleteServerAborts, ServerAborts, DropWrites, SetTxn
<1>3. OnlyAt(c) /\ writes'[c] = {} /\ txn'[c] = "none"
  BY <1>1, <1>2 DEF OnlyAt, outsideVars, CheckoutTypeOK, RunnerTypeOK
<1>4. stage[c] \notin {"body", "commit"}
  BY <1>1, <1>2 DEF CallInv
<1>5. OutsideInv(c)' /\ WritesInv(c)'
  BY <1>1, <1>2, <1>3, <1>4 DEF OutsideInv, WritesInv, dbVars, outsideVars
<1> QED
  BY <1>2, <1>3, <1>5, QuietStep DEF outsideVars

(* A commit takes effect, whether or not the client hears of it: either    *)
(* the order was paid before, or the three writes pay it now.              *)
LEMMA CommitStep ==
  ASSUME CheckoutInv, RunnerInv', CheckoutTypeOK', NEW c \in Calls,
         CompleteCommits(c) \/ CompleteServerCommits(c)
  PROVE  CheckoutInv'
<1> DEFINE o == OrderOf[c]
<1>1. /\ CheckoutTypeOK /\ OutsideInv(c) /\ WritesInv(c) /\ CallInv(c) /\ RunnerTypeOK
      /\ TablesInv /\ MarkInv /\ o \in Orders
  BY CheckoutAssumption DEF CheckoutInv, RunnerInv
<1>2. /\ CommitWrites(c) /\ UNCHANGED <<step, seen, outsideVars>>
      /\ txn' = [txn EXCEPT ![c] = "none"]
      /\ commits' = [commits EXCEPT ![c] = commits[c] + 1]
      /\ stage[c] = "commit" \/ txn[c] = "committing"
  BY DEF CompleteCommits, CommitSucceeds, CompleteServerCommits, ServerCommits, SetTxn
<1>3. /\ \A d \in Calls \ {c} : stage'[d] = stage[d]
      /\ stage[c] # "idle" /\ stage'[c] \notin {"idle", "body", "commit"}
  <2>1. CASE CompleteCommits(c)
    BY <1>1, <2>1 DEF CompleteCommits, CommitSucceeds, Return, RunnerTypeOK
  <2>2. CASE CompleteServerCommits(c)
    BY <1>1, <2>2 DEF CompleteServerCommits, ServerCommits, CallInv
  <2> QED
    BY <2>1, <2>2
<1>4. /\ writes' = [writes EXCEPT ![c] = {}]
      /\ orders' = [orders EXCEPT ![o] = IF "paid" \in writes[c] THEN "paid" ELSE @]
      /\ reserved' = reserved \cup {x \in {o} : "reservation" \in writes[c]}
      /\ payments' = payments \cup {x \in {Payment(c)} : "payment" \in writes[c]}
  BY <1>2 DEF CommitWrites
<1>5. /\ OnlyAt(c) /\ writes'[c] = {} /\ txn'[c] = "none"
      /\ commits[c] = 0 /\ commits'[c] = 1
  <2>1. commits[c] = 0
    BY <1>1, <1>2, <1>3 DEF CallInv, Settled, RunnerTypeOK, Stages, Errors, Definite
  <2> QED
    BY <1>1, <1>2, <1>3, <1>4, <2>1 DEF OnlyAt, outsideVars, CheckoutTypeOK, RunnerTypeOK
<1>6. \/ /\ orders[o] = "paid" /\ orders' = orders
         /\ reserved' = reserved /\ payments' = payments
      \/ /\ "paid" \in writes[c]
         /\ orders' = [orders EXCEPT ![o] = "paid"]
         /\ reserved' = reserved \cup {o}
         /\ payments' = payments \cup {Payment(c)}
  <2>1. CASE writes[c] = {} /\ seen[c] = "paid"
    <3>1. orders' = [orders EXCEPT ![o] = orders[o]]
      BY <1>4, <2>1
    <3>2. orders[o] = "paid" /\ reserved' = reserved /\ payments' = payments
      BY <1>1, <1>4, <2>1 DEF WritesInv
    <3> QED
      BY <1>1, <3>1, <3>2 DEF CheckoutTypeOK
  <2>2. CASE writes[c] = Full
    BY <1>4, <2>2 DEF Full
  <2> QED
    BY <1>1, <1>2, <2>1, <2>2 DEF WritesInv
<1>7. /\ orders'[o] = "paid"
      /\ \A x \in Orders : x # o => orders'[x] = orders[x]
      /\ \A x \in Orders : orders[x] = "paid" => orders'[x] = "paid"
  BY <1>1, <1>6 DEF CheckoutTypeOK
<1>8. OutsideInv(c)' /\ WritesInv(c)'
  BY <1>1, <1>2, <1>3, <1>5, <1>7 DEF OutsideInv, WritesInv, outsideVars
<1>9. TablesInv'
  <2>1. PaidAtomically'
    <3>1. Payment(c).order = o
      BY DEF Payment
    <3>2. ASSUME NEW x \in Orders, x # o
          PROVE  /\ PaymentsOf(x)' = PaymentsOf(x)
                 /\ x \in reserved' <=> x \in reserved
      BY <1>6, <3>1, <3>2 DEF PaymentsOf
    <3>3. PaymentsOf(o)' # {} /\ o \in reserved'
      BY <1>1, <1>6, <3>1 DEF PaymentsOf, TablesInv, PaidAtomically
    <3> QED
      BY <1>1, <1>7, <3>2, <3>3 DEF TablesInv, PaidAtomically
  <2>2. \A p \in payments' :
          commits'[p.id] >= 1 /\ p.order = OrderOf[p.id]
    <3>1. Payment(c).id = c /\ Payment(c).order = o
      BY DEF Payment
    <3>2. \A p \in payments : p.id \in Calls
      BY <1>1 DEF CheckoutTypeOK
    <3>3. \A d \in Calls : commits[d] >= 1 => commits'[d] >= 1
      BY <1>5 DEF OnlyAt
    <3> QED
      BY <1>1, <1>5, <1>6, <3>1, <3>2, <3>3 DEF TablesInv
  <2>3. \A d \in Calls : commits'[d] >= 1 => orders'[OrderOf[d]] = "paid"
    BY <1>1, <1>5, <1>7, CheckoutAssumption DEF TablesInv, OnlyAt
  <2> QED
    BY <2>1, <2>2, <2>3 DEF TablesInv
<1>10. MarkInv'
  <2>1. \A d \in Calls : "paid" \in writes'[d] => d # c /\ "paid" \in writes[d]
    BY <1>5 DEF OnlyAt
  <2>2. \A d, e \in Calls :
          "paid" \in writes'[d] /\ "paid" \in writes'[e] /\ OrderOf[d] = OrderOf[e] => d = e
    BY <1>1, <2>1 DEF MarkInv
  <2>3. ASSUME NEW d \in Serializable, "paid" \in writes'[d]
        PROVE  orders'[OrderOf[d]] # "paid"
    <3>1. orders[OrderOf[d]] # "paid" /\ OrderOf[d] \in Orders
      BY <1>1, <2>1, <2>3, CheckoutAssumption DEF MarkInv
    <3>2. OrderOf[d] # o
      BY <1>1, <1>6, <2>1, <2>3, <3>1, CheckoutAssumption DEF MarkInv
    <3> QED
      BY <1>7, <3>1, <3>2
  <2>4. ASSUME NEW p \in payments', NEW q \in payments', p.order = q.order,
               p.id \in Serializable, q.id \in Serializable
        PROVE  p = q
    <3>1. CASE payments' = payments
      BY <1>1, <2>4, <3>1 DEF MarkInv
    <3>2. CASE "paid" \in writes[c] /\ payments' = payments \cup {Payment(c)}
      <4>1. Payment(c).order = o /\ Payment(c).id = c
        BY DEF Payment
      <4>2. CASE p \in payments /\ q \in payments
        BY <1>1, <2>4, <4>2 DEF MarkInv
      <4>3. CASE p = Payment(c) /\ q = Payment(c)
        BY <4>3
      <4>4. ASSUME NEW r \in payments, r.order = o, c \in Serializable
            PROVE  FALSE
        BY <1>1, <3>2, <4>4 DEF MarkInv, TablesInv, PaidAtomically, PaymentsOf
      <4> QED
        BY <2>4, <3>2, <4>1, <4>2, <4>3, <4>4
    <3> QED
      BY <1>6, <3>1, <3>2
  <2> QED
    BY <2>2, <2>3, <2>4 DEF MarkInv
<1> QED
  BY <1>5, <1>7, <1>8, <1>9, <1>10, StepAt

LEMMA CheckoutInitInv == CheckoutInit => CheckoutInv
<1> SUFFICES ASSUME CheckoutInit PROVE CheckoutInv
  OBVIOUS
<1>1. RunnerInv
  BY InitInv DEF CheckoutInit
<1>2. CheckoutTypeOK
  BY <1>1 DEF CheckoutInit, RunnerInv, CheckoutTypeOK, Phases, Zero, UseCaseSteps, Statuses
<1>3. \A c \in Calls : OutsideInv(c) /\ WritesInv(c)
  BY DEF CheckoutInit, Init, OutsideInv, WritesInv
<1>4. TablesInv /\ MarkInv
  BY CheckoutAssumption DEF CheckoutInit, Init, TablesInv, MarkInv, PaidAtomically,
    PaymentsOf, Statuses
<1> QED
  BY <1>1, <1>2, <1>3, <1>4 DEF CheckoutInv

LEMMA CheckoutNextInv == CheckoutInv /\ [CheckoutNext]_checkoutVars => CheckoutInv'
<1> SUFFICES ASSUME CheckoutInv, [CheckoutNext]_checkoutVars PROVE CheckoutInv'
  OBVIOUS
<1>1. RunnerInv' /\ CheckoutTypeOK'
  BY TypeStep
<1>2. CASE UNCHANGED checkoutVars
  BY <1>1, <1>2 DEF CheckoutInv, OutsideInv, WritesInv, TablesInv, MarkInv, PaidAtomically,
    PaymentsOf, checkoutVars, runnerVars, dbVars, useCaseVars, outsideVars
<1>3. ASSUME NEW c \in Calls,
             \/ CheckoutStart(c) \/ CheckoutSettles(c) \/ CompleteCancel(c)
             \/ GetQuote(c) \/ GetQuoteFails(c) \/ Authorize(c) \/ AuthorizeFails(c)
             \/ CompleteBegin(c) \/ GetByID(c) \/ ReserveForOrder(c) \/ CreatePayment(c)
             \/ MarkPaid(c) \/ CompleteReturns(c) \/ CompleteCommits(c)
      PROVE  CheckoutInv'
  BY <1>1, <1>3, OutsideStep, AuthorizeStep, StatementStep, MarkPaidStep, GoOnStep,
    AbortStep, CommitStep DEF CheckoutSettles
<1>4. ASSUME NEW c \in Calls, NEW e \in Errors,
             \/ CompleteBeginFails(c, e) \/ CompleteFails(c, e)
             \/ CompleteCommitRefused(c, e) \/ CompleteCommitUnanswered(c, e)
      PROVE  CheckoutInv'
  BY <1>1, <1>4, FailureStep
<1>5. /\ "canceled" \in Errors /\ "refused" \in Errors /\ "40001" \in Errors
      /\ \A c \in Calls : InvalidOrder(c) => CompleteFails(c, "refused")
      /\ \A c \in Calls : SerializationFails(c) => CompleteFails(c, "40001")
  BY DEF Errors, Broken, Definite, Retryable, InvalidOrder, SerializationFails
<1> QED
  BY <1>2, <1>3, <1>4, <1>5 DEF CheckoutNext, CheckoutProceeds

(* The inductive invariant holds throughout every behaviour of the         *)
(* checkouts.                                                              *)
THEOREM CheckoutInvariant == CheckoutSpec => []CheckoutInv
BY CheckoutInitInv, CheckoutNextInv, PTL DEF CheckoutSpec

(* The steps a checkout takes in the runner, and those it takes outside.   *)
InRunner(c) ==
  \/ Authorize(c) \/ CompleteBegin(c) \/ CompleteReturns(c) \/ CompleteCommits(c)
  \/ CompleteCancel(c) \/ CheckoutSettles(c)
  \/ \E e \in Errors :
       \/ CompleteBeginFails(c, e) \/ CompleteFails(c, e)
       \/ CompleteCommitRefused(c, e) \/ CompleteCommitUnanswered(c, e)

Outside(c) ==
  \/ CheckoutStart(c) \/ GetQuote(c) \/ GetQuoteFails(c) \/ AuthorizeFails(c)
  \/ GetByID(c) \/ ReserveForOrder(c) \/ CreatePayment(c) \/ MarkPaid(c)

LEMMA InRunnerStep ==
  ASSUME CheckoutInv, NEW c \in Calls, InRunner(c)
  PROVE  /\ StepOf(c)
         /\ phase' = phase \/ (phase[c] = "authorizing" /\ phase'[c] = "completing")
         /\ \A d \in Calls \ {c} : phase'[d] = phase[d] /\ step'[d] = step[d]
<1>1. CheckoutTypeOK
  BY DEF CheckoutInv
<1>2. CASE Authorize(c)
  BY <1>1, <1>2 DEF Authorize, SetPhase, useCaseVars, CheckoutTypeOK, StepOf
<1>3. CASE \/ CompleteBegin(c) \/ CompleteReturns(c) \/ CompleteCommits(c)
           \/ CompleteCancel(c) \/ CheckoutSettles(c)
  BY <1>1, <1>3 DEF CompleteBegin, CompleteReturns, CompleteCommits, CompleteCancel,
    CheckoutSettles, CompleteServerAborts, CompleteServerCommits, SetStep, useCaseVars,
    outsideVars, CheckoutTypeOK, StepOf
<1>4. ASSUME NEW e \in Errors,
             \/ CompleteBeginFails(c, e) \/ CompleteFails(c, e)
             \/ CompleteCommitRefused(c, e) \/ CompleteCommitUnanswered(c, e)
      PROVE  StepOf(c) /\ UNCHANGED <<phase, step>>
  BY <1>4 DEF CompleteBeginFails, CompleteFails, CompleteCommitRefused,
    CompleteCommitUnanswered, useCaseVars, outsideVars, StepOf
<1> QED
  BY <1>2, <1>3, <1>4 DEF InRunner

LEMMA StepsAreCheckouts ==
  CheckoutNext => \E c \in Calls : InRunner(c) \/ Outside(c)
<1>1. /\ "canceled" \in Errors /\ "refused" \in Errors /\ "40001" \in Errors
      /\ \A c \in Calls : InvalidOrder(c) => CompleteFails(c, "refused")
      /\ \A c \in Calls : SerializationFails(c) => CompleteFails(c, "40001")
  BY DEF Errors, Broken, Definite, Retryable, InvalidOrder, SerializationFails
<1> QED
  BY <1>1 DEF CheckoutNext, CheckoutProceeds, InRunner, Outside

-----------------------------------------------------------------------------
(* The theorems. *)

(* Checkouts use TxRunner as it is: whatever is proved of a behaviour of   *)
(* the runner is proved of theirs.                                         *)
THEOREM CheckoutRunsRunner == CheckoutSpec => RunnerSpec
<1>1. CheckoutInit => Init
  BY DEF CheckoutInit
<1>2. [CheckoutNext]_checkoutVars => [RunnerNext]_runnerVars
  BY RunnerPart
<1> QED
  BY <1>1, <1>2, PTL DEF CheckoutSpec, RunnerSpec

(* Every variable of the checkouts keeps its type.                         *)
THEOREM CheckoutTypes == CheckoutSpec => []CheckoutTypeOK
<1>1. CheckoutInv => CheckoutTypeOK
  BY DEF CheckoutInv
<1> QED
  BY <1>1, CheckoutInvariant, PTL

(* Complete's reservation, payment and status change are in the tables     *)
(* together or not at all, for every order.                                *)
THEOREM PaysAtomically == CheckoutSpec => []PaidAtomically
<1>1. CheckoutInv => PaidAtomically
  BY DEF CheckoutInv, TablesInv
<1> QED
  BY <1>1, CheckoutInvariant, PTL

(* Whoever paid was authorised just once, whatever was retried, and nobody *)
(* asked the provider twice.                                               *)
THEOREM PaysAsAuthorised == CheckoutSpec => []PaymentsAreAuthorised
<1>1. CheckoutInv => PaymentsAreAuthorised
  <2> SUFFICES ASSUME CheckoutInv PROVE PaymentsAreAuthorised
    OBVIOUS
  <2>1. \A c \in Calls : granted[c] <= 1
    BY DEF CheckoutInv, OutsideInv
  <2>2. ASSUME NEW p \in payments
        PROVE  granted[p.id] = 1
    <3>1. p.id \in Calls /\ commits[p.id] >= 1
      BY DEF CheckoutInv, CheckoutTypeOK, TablesInv
    <3>2. OutsideInv(p.id) /\ CallInv(p.id)
      BY <3>1 DEF CheckoutInv, RunnerInv
    <3>3. phase[p.id] = "completing"
      BY <3>1, <3>2 DEF OutsideInv, CallInv
    <3> QED
      BY <3>2, <3>3 DEF OutsideInv
  <2> QED
    BY <2>1, <2>2 DEF PaymentsAreAuthorised
<1> QED
  BY <1>1, CheckoutInvariant, PTL

(* nil from Complete means that the order is paid, a definite error that   *)
(* this checkout's payment is not in the table and never will be.          *)
THEOREM RepliesTellOfOrder == CheckoutSpec => []RepliesMatchOrder
<1>1. CheckoutInv => RepliesMatchOrder
  <2> SUFFICES ASSUME CheckoutInv, NEW c \in Calls, stage[c] = "returned"
               PROVE  /\ err[c] = NoErr => orders[OrderOf[c]] = "paid"
                      /\ err[c] \in Definite =>
                           txn[c] # "committing" /\ \A p \in payments : p.id # c
    BY DEF RepliesMatchOrder
  <2>1. Settled(c) /\ TablesInv
    BY DEF CheckoutInv, RunnerInv, CallInv
  <2> QED
    BY <2>1 DEF Settled, TablesInv
<1> QED
  BY <1>1, CheckoutInvariant, PTL

(* A step of one checkout, as an order that is paid sees it: the others    *)
(* stay where they are, what the checkout adds to the payments it had set  *)
(* out to pay, and it does not set out now.                                *)
LEMMA StepOnPaidOrder ==
  ASSUME CheckoutInv, NEW c \in Calls, InRunner(c) \/ Outside(c)
  PROVE  /\ \A d \in Calls \ {c} :
              stage'[d] = stage[d] /\ step'[d] = step[d] /\ writes'[d] = writes[d]
         /\ \/ payments' = payments
            \/ "paid" \in writes[c] /\ payments' = payments \cup {Payment(c)}
         /\ orders[OrderOf[c]] = "paid" /\ c \in Paying(OrderOf[c])' =>
              c \in Paying(OrderOf[c])
<1>1. CheckoutTypeOK /\ RunnerInv /\ RunnerTypeOK /\ CallInv(c) /\ WritesInv(c)
  BY DEF CheckoutInv, RunnerInv
<1> DEFINE Elsewhere ==
             \A d \in Calls \ {c} :
               stage'[d] = stage[d] /\ step'[d] = step[d] /\ writes'[d] = writes[d]
           SetOut == writes[c] # {} \/ (stage[c] = "body" /\ step[c] \in {"reserve", "pay", "mark"})
           SetsOut == writes'[c] # {} \/ (stage'[c] = "body" /\ step'[c] \in {"reserve", "pay", "mark"})
<1>2. CASE CheckoutStart(c) \/ GetQuote(c) \/ GetQuoteFails(c) \/ AuthorizeFails(c)
  <2>1. UNCHANGED <<stage, step, writes, payments>>
    BY <1>2 DEF CheckoutStart, GetQuote, GetQuoteFails, AuthorizeFails, runnerVars,
      useCaseVars, dbVars
  <2> QED
    BY <2>1 DEF Paying
<1>3. CASE GetByID(c)
  <2>1. /\ UNCHANGED <<stage, writes, payments>>
        /\ step' = [step EXCEPT ![c] = NextStep(orders[OrderOf[c]])]
    BY <1>3 DEF GetByID, SetStep, UseCaseOnly, runnerVars, dbVars
  <2>2. orders[OrderOf[c]] = "paid" => step'[c] = "done"
    BY <1>1, <2>1 DEF CheckoutTypeOK, NextStep
  <2>3. orders[OrderOf[c]] = "paid" /\ SetsOut => SetOut
    BY <2>1, <2>2
  <2>4. Elsewhere
    BY <1>1, <2>1 DEF CheckoutTypeOK
  <2> QED
    BY <2>1, <2>3, <2>4 DEF Paying
<1>4. CASE ReserveForOrder(c) \/ CreatePayment(c) \/ MarkPaid(c)
  <2>1. /\ UNCHANGED <<stage, payments>> /\ SetOut
        /\ \E s : step' = [step EXCEPT ![c] = s]
        /\ \E w : writes' = [writes EXCEPT ![c] = w]
    BY <1>4 DEF ReserveForOrder, CreatePayment, MarkPaid, InUseCase, SetStep, Write,
      UseCaseOnly, runnerVars, dbVars
  <2>2. Elsewhere
    BY <1>1, <2>1 DEF CheckoutTypeOK
  <2> QED
    BY <2>1, <2>2 DEF Paying
<1>5. CASE InRunner(c)
  <2>1. /\ \A d \in Calls \ {c} : stage'[d] = stage[d] /\ step'[d] = step[d]
    BY <1>1, <1>5, InRunnerStep, OthersStayPut
  <2>2. CASE Authorize(c) \/ CompleteBegin(c) \/ CompleteReturns(c) \/ CompleteCancel(c)
    <3>1. UNCHANGED <<writes, payments>>
      BY <2>2 DEF Authorize, CompleteBegin, CompleteReturns, CompleteCancel, useCaseVars,
        dbVars
    <3>2. SetsOut => SetOut
      <4>1. CASE Authorize(c)
        BY <1>1, <3>1, <4>1, AttemptsPositive DEF Authorize, Start, LoopHead, CallInv,
          RunnerTypeOK
      <4>2. CASE CompleteBegin(c)
        BY <1>1, <3>1, <4>2 DEF CompleteBegin, SetStep, CheckoutTypeOK
      <4>3. CASE CompleteReturns(c)
        BY <1>1, <3>1, <4>3 DEF CompleteReturns, BodySucceeds, RunnerTypeOK
      <4>4. CASE CompleteCancel(c)
        BY <3>1, <4>4 DEF CompleteCancel, Cancel, useCaseVars
      <4> QED
        BY <2>2, <4>1, <4>2, <4>3, <4>4
    <3> QED
      BY <2>1, <3>1, <3>2 DEF Paying
  <2>3. ASSUME NEW e \in Errors,
               \/ CompleteBeginFails(c, e) \/ CompleteFails(c, e)
               \/ CompleteCommitRefused(c, e) \/ CompleteCommitUnanswered(c, e)
        PROVE  /\ payments' = payments
               /\ \A d \in Calls \ {c} : writes'[d] = writes[d]
               /\ SetsOut => SetOut
    <3>1. /\ UNCHANGED payments /\ AttemptFailed(c, e)
          /\ \E w \in {writes[c], {}} : writes' = [writes EXCEPT ![c] = w]
      BY <1>1, <2>3 DEF CompleteBeginFails, BeginFails, CompleteFails, BodyFails,
        CompleteCommitRefused, CommitRefused, CompleteCommitUnanswered, CommitUnanswered,
        KeepWrites, DropWrites, useCaseVars, dbVars, CheckoutTypeOK
    <3>2. stage'[c] \in {"returned", "acquire", "sleep"}
      BY <1>1, <2>3, <3>1, AttemptEnds DEF CompleteBeginFails, BeginFails, CompleteFails,
        BodyFails, CompleteCommitRefused, CommitRefused, CompleteCommitUnanswered,
        CommitUnanswered
    <3>3. /\ writes'[c] \in {writes[c], {}}
          /\ \A d \in Calls \ {c} : writes'[d] = writes[d]
      BY <1>1, <3>1 DEF CheckoutTypeOK
    <3> QED
      BY <3>1, <3>2, <3>3
  <2>4. CASE CompleteCommits(c) \/ CompleteServerCommits(c)
    <3>1. /\ CommitWrites(c)
          /\ stage[c] = "commit" \/ txn[c] = "committing"
      BY <2>4 DEF CompleteCommits, CommitSucceeds, CompleteServerCommits, ServerCommits
    <3>2. /\ writes' = [writes EXCEPT ![c] = {}]
          /\ payments' = payments \cup {x \in {Payment(c)} : "payment" \in writes[c]}
      BY <3>1 DEF CommitWrites
    <3>3. writes[c] = {} \/ writes[c] = Full
      BY <1>1, <3>1 DEF WritesInv
    <3>4. stage'[c] # "body"
      <4>1. CASE CompleteCommits(c)
        BY <1>1, <4>1 DEF CompleteCommits, CommitSucceeds, Return, RunnerTypeOK
      <4>2. CASE CompleteServerCommits(c)
        BY <1>1, <4>2 DEF CompleteServerCommits, ServerCommits, CallInv
      <4> QED
        BY <2>4, <4>1, <4>2
    <3>5. /\ writes'[c] = {} /\ \A d \in Calls \ {c} : writes'[d] = writes[d]
      BY <1>1, <3>2 DEF CheckoutTypeOK
    <3>6. \/ payments' = payments
          \/ "paid" \in writes[c] /\ payments' = payments \cup {Payment(c)}
      BY <3>2, <3>3 DEF Full
    <3> QED
      BY <2>1, <3>4, <3>5, <3>6 DEF Paying
  <2>5. CASE CompleteServerAborts(c)
    <3>1. UNCHANGED <<stage, step, payments>> /\ writes' = [writes EXCEPT ![c] = {}]
      BY <2>5 DEF CompleteServerAborts, ServerAborts, DropWrites, dbVars
    <3>2. writes'[c] = {} /\ \A d \in Calls \ {c} : writes'[d] = writes[d]
      BY <1>1, <3>1 DEF CheckoutTypeOK
    <3> QED
      BY <2>1, <3>1, <3>2 DEF Paying
  <2> QED
    BY <1>5, <2>1, <2>2, <2>3, <2>4, <2>5 DEF InRunner, CheckoutSettles, Paying
<1> QED
  BY <1>2, <1>3, <1>4, <1>5 DEF Outside

(* A paid order is paid again only by checkouts under the default          *)
(* configuration that had set out before, so that two serializable ones    *)
(* never both pay it: with every checkout serializable, one payment.       *)
THEOREM PaysOnce ==
  CheckoutSpec =>
    /\ PaidOnce
    /\ [](\A o \in Orders : \A p, q \in PaymentsOf(o) :
            p.id \in Serializable /\ q.id \in Serializable => p = q)
<1>1. ASSUME CheckoutInv, [CheckoutNext]_checkoutVars
      PROVE  [\A o \in Orders : orders[o] = "paid" =>
                /\ \A p \in PaymentsOf(o)' \ PaymentsOf(o) : p.id \in Paying(o) \ Serializable
                /\ Paying(o)' \subseteq Paying(o)]_checkoutVars
  <2> SUFFICES ASSUME CheckoutNext, NEW o \in Orders, orders[o] = "paid"
               PROVE  /\ \A p \in PaymentsOf(o)' \ PaymentsOf(o) : p.id \in Paying(o) \ Serializable
                      /\ Paying(o)' \subseteq Paying(o)
    BY <1>1
  <2>1. PICK c \in Calls : InRunner(c) \/ Outside(c)
    BY StepsAreCheckouts
  <2>2. \A d \in Calls \ {c} : d \in Paying(o)' <=> d \in Paying(o)
    BY <1>1, <2>1, StepOnPaidOrder DEF Paying
  <2>3. Paying(o) \subseteq Calls /\ Paying(o)' \subseteq Calls
    BY DEF Paying
  <2>4. c \in Paying(o)' => c \in Paying(o)
    BY <1>1, <2>1, StepOnPaidOrder DEF Paying
  <2>5. ASSUME NEW p \in PaymentsOf(o)' \ PaymentsOf(o)
        PROVE  p.id \in Paying(o) \ Serializable
    <3>1. "paid" \in writes[c] /\ p = Payment(c)
      BY <1>1, <2>1, <2>5, StepOnPaidOrder DEF PaymentsOf
    <3>2. p.id = c /\ OrderOf[c] = o
      BY <2>5, <3>1 DEF PaymentsOf, Payment
    <3> QED
      BY <1>1, <3>1, <3>2 DEF Paying, CheckoutInv, MarkInv
  <2> QED
    BY <2>2, <2>3, <2>4, <2>5
<1>2. CheckoutInv => \A o \in Orders : \A p, q \in PaymentsOf(o) :
        p.id \in Serializable /\ q.id \in Serializable => p = q
  BY DEF CheckoutInv, MarkInv, PaymentsOf
<1> QED
  BY <1>1, <1>2, CheckoutInvariant, PTL DEF CheckoutSpec, PaidOnce

-----------------------------------------------------------------------------
(* The checkouts' work runs out, and until it has, one of them can go on. *)

(* What a checkout still has to do: its calls outside the transaction, its *)
(* attempts, and the repository calls of the current one.                  *)
PhasesLeft(p) ==
  CASE p = "new" -> 3 [] p = "quoting" -> 2 [] p = "authorizing" -> 1 [] OTHER -> 0

RepositoryCallsLeft(s) ==
  CASE s = "get" -> 4 [] s = "reserve" -> 3 [] s = "pay" -> 2 [] s = "mark" -> 1
    [] OTHER -> 0

CheckoutWork(c) ==
  5 * Work(c) + PhasesLeft(phase[c])
    + (IF stage[c] = "body" THEN RepositoryCallsLeft(step[c]) ELSE 0)

CheckoutAdvances(c) ==
  /\ CheckoutWork(c)' < CheckoutWork(c)
  /\ \A d \in Calls \ {c} : CheckoutWork(d)' = CheckoutWork(d)

LEMMA LeftFacts ==
  /\ PhasesLeft("new") = 3 /\ PhasesLeft("quoting") = 2 /\ PhasesLeft("authorizing") = 1
  /\ PhasesLeft("completing") = 0 /\ PhasesLeft("failed") = 0
  /\ RepositoryCallsLeft("get") = 4 /\ RepositoryCallsLeft("reserve") = 3
  /\ RepositoryCallsLeft("pay") = 2 /\ RepositoryCallsLeft("mark") = 1
  /\ RepositoryCallsLeft("done") = 0
BY DEF PhasesLeft, RepositoryCallsLeft

LEMMA LeftTypes ==
  /\ \A p \in Phases : PhasesLeft(p) \in 0..3
  /\ \A s \in UseCaseSteps : RepositoryCallsLeft(s) \in 0..4
BY LeftFacts DEF Phases, UseCaseSteps

LEMMA InRunnerAdvances ==
  ASSUME CheckoutInv, CheckoutInv', NEW c \in Calls, InRunner(c)
  PROVE  CheckoutAdvances(c)
<1>1. /\ RunnerInv /\ RunnerInv' /\ phase[c] \in Phases /\ phase'[c] \in Phases
      /\ step[c] \in UseCaseSteps /\ step'[c] \in UseCaseSteps
  BY DEF CheckoutInv, CheckoutTypeOK
<1>2. Advances(c) /\ \A d \in Calls \ {c} : stage'[d] = stage[d]
  BY <1>1, InRunnerStep, StepAdvances, OthersStayPut
<1>3. Work(c) \in Nat /\ Work(c)' \in Nat /\ Work(c)' < Work(c)
  BY <1>1, <1>2, WorkType, WorkAfterStep DEF WorksOK, Advances
<1>4. PhasesLeft(phase[c]) \in 0..3 /\ PhasesLeft(phase'[c]) \in 0..3
      /\ PhasesLeft(phase'[c]) <= PhasesLeft(phase[c])
  BY <1>1, LeftTypes, LeftFacts, InRunnerStep
<1>5. RepositoryCallsLeft(step[c]) \in 0..4 /\ RepositoryCallsLeft(step'[c]) \in 0..4
  BY <1>1, LeftTypes
<1>6. CheckoutWork(c)' < CheckoutWork(c)
  BY <1>3, <1>4, <1>5 DEF CheckoutWork
<1>7. \A d \in Calls \ {c} : CheckoutWork(d)' = CheckoutWork(d)
  BY <1>2, InRunnerStep DEF Advances, CheckoutWork
<1> QED
  BY <1>6, <1>7 DEF CheckoutAdvances

LEMMA OutsideAdvancesCheckout ==
  ASSUME CheckoutInv, NEW c \in Calls, Outside(c)
  PROVE  CheckoutAdvances(c)
<1>1. CheckoutTypeOK /\ RunnerInv /\ OutsideInv(c)
  BY DEF CheckoutInv
<1>2. UNCHANGED runnerVars
  BY DEF Outside, CheckoutStart, GetQuote, GetQuoteFails, AuthorizeFails, GetByID,
    ReserveForOrder, CreatePayment, MarkPaid, UseCaseOnly
<1>3. UNCHANGED stage /\ \A d \in Calls : Work(d)' = Work(d) /\ Work(d) \in Nat
  BY <1>1, <1>2, WorkType DEF WorksOK, runnerVars, Work, Rank, Unsettled, MaxAttempts
<1>4. \A d \in Calls \ {c} : phase'[d] = phase[d] /\ step'[d] = step[d]
  BY <1>1 DEF Outside, CheckoutStart, GetQuote, GetQuoteFails, AuthorizeFails, GetByID,
    ReserveForOrder, CreatePayment, MarkPaid, UseCaseOnly, SetPhase, SetStep, useCaseVars,
    outsideVars, CheckoutTypeOK
<1>5. CheckoutWork(c)' < CheckoutWork(c)
  <2>1. CASE CheckoutStart(c) \/ GetQuote(c) \/ GetQuoteFails(c) \/ AuthorizeFails(c)
    <3>1. \/ phase[c] = "new" /\ phase'[c] = "quoting"
          \/ phase[c] = "quoting" /\ phase'[c] \in {"authorizing", "failed"}
          \/ phase[c] = "authorizing" /\ phase'[c] = "failed"
      BY <1>1, <2>1 DEF CheckoutStart, GetQuote, GetQuoteFails, AuthorizeFails, SetPhase,
        CheckoutTypeOK
    <3>2. stage[c] = "idle"
      BY <1>1, <3>1 DEF OutsideInv
    <3>3. PhasesLeft(phase'[c]) \in 0..3 /\ PhasesLeft(phase[c]) \in 0..3
          /\ PhasesLeft(phase'[c]) < PhasesLeft(phase[c])
      BY <3>1, LeftFacts
    <3> QED
      BY <1>3, <3>2, <3>3 DEF CheckoutWork
  <2>2. CASE GetByID(c) \/ ReserveForOrder(c) \/ CreatePayment(c) \/ MarkPaid(c)
    <3>1. stage[c] = "body" /\ UNCHANGED phase
      BY <2>2 DEF GetByID, ReserveForOrder, CreatePayment, MarkPaid, InUseCase, UseCaseOnly,
        outsideVars
    <3>2. \/ step[c] = "get" /\ step'[c] \in {"reserve", "done"}
          \/ step[c] = "reserve" /\ step'[c] = "pay"
          \/ step[c] = "pay" /\ step'[c] = "mark"
          \/ step[c] = "mark" /\ step'[c] = "done"
      BY <1>1, <2>2, NextSteps DEF GetByID, ReserveForOrder, CreatePayment, MarkPaid,
        InUseCase, SetStep, CheckoutTypeOK
    <3>3. RepositoryCallsLeft(step'[c]) \in 0..4 /\ RepositoryCallsLeft(step[c]) \in 0..4
          /\ RepositoryCallsLeft(step'[c]) < RepositoryCallsLeft(step[c])
      BY <3>2, LeftFacts
    <3>4. PhasesLeft(phase[c]) \in 0..3
      BY <1>1, LeftTypes DEF CheckoutTypeOK
    <3> QED
      BY <1>3, <3>1, <3>3, <3>4 DEF CheckoutWork
  <2> QED
    BY <2>1, <2>2 DEF Outside
<1>6. \A d \in Calls \ {c} : CheckoutWork(d)' = CheckoutWork(d)
  BY <1>3, <1>4 DEF CheckoutWork
<1> QED
  BY <1>5, <1>6 DEF CheckoutAdvances

LEMMA CheckoutWorkBound ==
  CheckoutInv => \A c \in Calls : CheckoutWork(c) \in 0..(75 * MaxAttempts(c) + 87)
<1> SUFFICES ASSUME CheckoutInv, NEW c \in Calls
             PROVE  CheckoutWork(c) \in 0..(75 * MaxAttempts(c) + 87)
  OBVIOUS
<1>1. Work(c) \in 0..(15 * MaxAttempts(c) + 16) /\ MaxAttempts(c) \in Nat
  BY WorkBound, AttemptsPositive DEF CheckoutInv
<1>2. PhasesLeft(phase[c]) \in 0..3 /\ RepositoryCallsLeft(step[c]) \in 0..4
  BY LeftTypes DEF CheckoutInv, CheckoutTypeOK
<1> QED
  BY <1>1, <1>2 DEF CheckoutWork

(* Every step leaves its checkout less to do and the others what they had: *)
(* serialization failures and conflicts over an order can not keep the     *)
(* checkouts trying forever.                                               *)
THEOREM CheckoutStepsRunOut ==
  CheckoutSpec =>
    /\ [](\A c \in Calls : CheckoutWork(c) \in 0..(75 * MaxAttempts(c) + 87))
    /\ [][\E c \in Calls : CheckoutAdvances(c)]_checkoutVars
<1>1. ASSUME CheckoutInv, CheckoutInv', [CheckoutNext]_checkoutVars
      PROVE  [\E c \in Calls : CheckoutAdvances(c)]_checkoutVars
  BY <1>1, StepsAreCheckouts, InRunnerAdvances, OutsideAdvancesCheckout
<1> QED
  BY <1>1, CheckoutWorkBound, CheckoutInvariant, PTL DEF CheckoutSpec

Started(c) == phase[c] \in {"quoting", "authorizing"} \/ stage[c] \notin {"idle", "returned"}

(* The guards of what the checkout does next.                              *)
Ready(c) ==
  \/ phase[c] \in {"quoting", "authorizing"}
  \/ stage[c] = "acquire" /\ (c \in canceled \/ Cardinality(holds) < MaxConns)
  \/ stage[c] = "body" /\ (c \in canceled \/ step[c] # "mark" \/ ~RowLocked(c))
  \/ stage[c] \in {"commit", "sleep"}

(* The checkouts whose uncommitted UPDATE keeps checkout c from the row.   *)
Markers(c) == {d \in Calls \ {c} : OrderOf[d] = OrderOf[c] /\ "paid" \in writes[d]}

WaitsForRow(c) ==
  /\ stage[c] = "body" /\ step[c] = "mark" /\ Markers(c) # {}
  /\ \A d \in Markers(c) : Ready(d) \/ Unsettled(d)

WaitsForPool ==
  /\ Cardinality(holds) = MaxConns
  /\ \A d \in holds : Ready(d) \/ WaitsForRow(d)

(* A checkout that has begun can go on, or waits for an order's row whose  *)
(* writer can, or for a full pool whose connections are all with checkouts *)
(* of these kinds.                                                         *)
NoCircularWait ==
  \A c \in Calls : Started(c) => Ready(c) \/ WaitsForRow(c) \/ WaitsForPool

(* What keeps an order's row can be ended at once, by its checkout or by   *)
(* the server.                                                             *)
LEMMA MarkersMoveOn ==
  ASSUME CheckoutInv, NEW d \in Calls, "paid" \in writes[d]
  PROVE  Ready(d) \/ Unsettled(d)
<1>1. WritesInv(d) /\ CallInv(d) /\ RunnerTypeOK /\ CheckoutTypeOK
  BY DEF CheckoutInv, RunnerInv
<1>2. CASE stage[d] = "body"
  <2>1. step[d] = "done"
    BY <1>1, <1>2 DEF WritesInv, CheckoutTypeOK, UseCaseSteps
  <2> QED
    BY <1>2, <2>1 DEF Ready
<1>3. CASE stage[d] = "commit"
  BY <1>3 DEF Ready
<1>4. CASE stage[d] \notin {"body", "commit"}
  <2>1. txn[d] # "none" /\ stage[d] = "returned"
    BY <1>1, <1>4 DEF WritesInv, CallInv, RunnerTypeOK, Stages
  <2> QED
    BY <1>1, <2>1 DEF CallInv, Settled, RunnerTypeOK, Errors, Unsettled
<1> QED
  BY <1>2, <1>3, <1>4

(* A checkout with a connection goes on, or waits for its order's row.     *)
LEMMA CheckoutsMoveOn ==
  ASSUME CheckoutInv, NEW c \in holds
  PROVE  Ready(c) \/ WaitsForRow(c)
<1>1. c \in Calls /\ stage[c] \in {"body", "commit"}
  BY DEF CheckoutInv, RunnerInv, RunnerTypeOK, PoolDiscipline
<1>2. \A d \in Markers(c) : Ready(d) \/ Unsettled(d)
  BY MarkersMoveOn DEF Markers
<1>3. RowLocked(c) => Markers(c) # {}
  BY DEF RowLocked, Markers
<1> QED
  BY <1>1, <1>2, <1>3 DEF Ready, WaitsForRow

(* Pool and row locks together never tie checkouts in a knot: Complete     *)
(* writes the one row that others wait for last, so its writer waits for   *)
(* nobody.                                                                 *)
THEOREM NoCheckoutWaitsInACircle == CheckoutSpec => []NoCircularWait
<1>1. CheckoutInv => NoCircularWait
  <2> SUFFICES ASSUME CheckoutInv, NEW c \in Calls, Started(c), ~Ready(c), ~WaitsForRow(c)
               PROVE  WaitsForPool
    BY DEF NoCircularWait
  <2>1. stage[c] = "acquire"
    <3>1. c \notin holds
      BY CheckoutsMoveOn
    <3> QED
      BY <3>1 DEF CheckoutInv, RunnerInv, RunnerTypeOK, PoolDiscipline, Stages, Started,
        Ready
  <2>2. Cardinality(holds) = MaxConns
    <3>1. Cardinality(holds) <= MaxConns /\ ~(Cardinality(holds) < MaxConns)
      BY <2>1 DEF Ready, CheckoutInv, RunnerInv, PoolDiscipline
    <3>2. Cardinality(holds) \in Nat /\ MaxConns \in Nat
      BY RunnerAssumption, FS_Subset, FS_CardinalityType
      DEF RunnerAssumption, CheckoutInv, RunnerInv, RunnerTypeOK
    <3> QED
      BY <3>1, <3>2
  <2> QED
    BY <2>2, CheckoutsMoveOn DEF WaitsForPool
<1> QED
  BY <1>1, CheckoutInvariant, PTL
=============================================================================
