------------------------------ MODULE Checkout ------------------------------
(***************************************************************************)
(* pgx-transactions/approach-use-case-boundary: Checkout asks for a quote  *)
(* and a payment authorisation outside any transaction, then completes the *)
(* order in one transaction run by TxRunner.  Several checkouts may name   *)
(* the same order.  The repositories are interfaces: their statements are  *)
(* modelled by what the use case expects of them, and external.            *)
(***************************************************************************)
EXTENDS TxRunner

CONSTANTS
  Orders,       \* order ids
  OrderOf,      \* the order each checkout names
  Amounts,      \* what the pricing service may quote
  Serializable  \* the checkouts whose unit of work has the SerializableTx config

ASSUME CheckoutAssumption ==
  /\ OrderOf \in [Calls -> Orders]
  /\ Amounts \subseteq Int
  /\ Serializable \subseteq Calls
  /\ \A c \in Calls : Backoff[c] = 0 \* Do passes noBackoff

VARIABLES
  phase,    \* where each checkout is before and after Complete
  quote,    \* the quoted amount, the zero value before it is known
  step,     \* the repository call the use case is at
  seen,     \* the status its GetByID read
  writes,   \* what its transaction wrote and has not committed
  orders,   \* committed order statuses
  reserved, \* orders with committed reservations
  payments, \* committed payments
  granted   \* history: the provider's authorisations, in number per command

dbVars == <<orders, reserved, payments>>
useCaseVars == <<step, seen, writes>>
outsideVars == <<phase, quote, granted>>
checkoutVars == <<runnerVars, dbVars, useCaseVars, outsideVars>>

Phases == {"new", "quoting", "authorizing", "completing", "failed"}
Statuses == {"pending_payment", "paid", "canceled", "absent"}
Writes == {"reservation", "payment", "paid"}
UseCaseSteps == {"get", "reserve", "pay", "mark", "done"}

Zero == 0

(* An order may be in a state that neither constant names, or not exist. *)
CheckoutInit ==
  /\ Init
  /\ phase = [c \in Calls |-> "new"]
  /\ quote = [c \in Calls |-> Zero]
  /\ step = [c \in Calls |-> "get"]
  /\ seen = [c \in Calls |-> "absent"]
  /\ writes = [c \in Calls |-> {}]
  /\ orders \in [Orders -> Statuses \ {"paid"}]
  /\ reserved = {}
  /\ payments = {}
  /\ granted = [c \in Calls |-> 0]

-----------------------------------------------------------------------------
(* Checkout, outside the transaction. *)

SetPhase(c, p) == phase' = [phase EXCEPT ![c] = p]

CheckoutStart(c) ==
  /\ phase[c] = "new"
  /\ SetPhase(c, "quoting")
  /\ UNCHANGED <<runnerVars, dbVars, useCaseVars, quote, granted>>

GetQuote(c) ==
  /\ phase[c] = "quoting"
  /\ \E a \in Amounts :
       /\ quote' = [quote EXCEPT ![c] = a]
       /\ SetPhase(c, "authorizing")
  /\ UNCHANGED <<runnerVars, dbVars, useCaseVars, granted>>

GetQuoteFails(c) ==
  /\ phase[c] = "quoting"
  /\ SetPhase(c, "failed")
  /\ UNCHANGED <<runnerVars, dbVars, useCaseVars, quote, granted>>

(* The provider authorises, and Complete enters the runner. *)
Authorize(c) ==
  /\ phase[c] = "authorizing"
  /\ granted' = [granted EXCEPT ![c] = @ + 1]
  /\ SetPhase(c, "completing")
  /\ Start(c)
  /\ UNCHANGED <<dbVars, useCaseVars, quote>>

(* It declines, or its answer is lost with the authorisation in force. *)
AuthorizeFails(c) ==
  /\ phase[c] = "authorizing"
  /\ \E n \in {0, 1} : granted' = [granted EXCEPT ![c] = @ + n]
  /\ SetPhase(c, "failed")
  /\ UNCHANGED <<runnerVars, dbVars, useCaseVars, quote>>

-----------------------------------------------------------------------------
(* completeOrderUseCase.Complete, one repository call at a time. *)

InUseCase(c, s) == stage[c] = "body" /\ step[c] = s /\ c \notin canceled

SetStep(c, s) == step' = [step EXCEPT ![c] = s]

Write(c, w) == writes' = [writes EXCEPT ![c] = @ \cup {w}]

UseCaseOnly == UNCHANGED <<runnerVars, dbVars, outsideVars>>

(* Mutant: the status is not looked at. *)
AnyStatusPays(status) == "reserve"

(* Mutant: every status but pending_payment counts as done already. *)
NotPendingIsDone(status) == IF status = "pending_payment" THEN "reserve" ELSE "done"

(* Where the use case goes on for an order with this status. *)
NextStep(status) ==
  CASE status = "paid" -> "done"
    [] status = "pending_payment" -> "reserve"
    [] OTHER -> "error"

(* Mutant: the payment is authorised inside the transaction. *)
GetByIDAuthorizing(c) ==
  /\ InUseCase(c, "get")
  /\ NextStep(orders[OrderOf[c]]) # "error"
  /\ seen' = [seen EXCEPT ![c] = orders[OrderOf[c]]]
  /\ SetStep(c, NextStep(orders[OrderOf[c]]))
  /\ granted' = [granted EXCEPT ![c] = @ + 1]
  /\ UNCHANGED <<runnerVars, dbVars, writes, phase, quote>>

GetByID(c) ==
  /\ InUseCase(c, "get")
  /\ NextStep(orders[OrderOf[c]]) # "error"
  /\ seen' = [seen EXCEPT ![c] = orders[OrderOf[c]]]
  /\ SetStep(c, NextStep(orders[OrderOf[c]]))
  /\ UNCHANGED writes
  /\ UseCaseOnly

ReserveForOrder(c) ==
  /\ InUseCase(c, "reserve")
  /\ Write(c, "reservation")
  /\ SetStep(c, "pay")
  /\ UNCHANGED seen
  /\ UseCaseOnly

CreatePayment(c) ==
  /\ InUseCase(c, "pay")
  /\ Write(c, "payment")
  /\ SetStep(c, "mark")
  /\ UNCHANGED seen
  /\ UseCaseOnly

(* The UPDATE waits for another transaction's.  A serializable one fails   *)
(* when the row has changed since its snapshot; under DefaultTx, which     *)
(* NewPGXUnitOfWork takes, it goes ahead.                                  *)
RowLocked(c) ==
  \E d \in Calls \ {c} : OrderOf[d] = OrderOf[c] /\ "paid" \in writes[d]

WriteConflict(c) == c \in Serializable /\ orders[OrderOf[c]] # seen[c]

(* Mutant: the error of MarkPaid is dropped. *)
MarkPaidUnchecked(c) ==
  /\ InUseCase(c, "mark")
  /\ ~RowLocked(c) /\ ~WriteConflict(c)
  /\ Write(c, "paid") \/ UNCHANGED writes
  /\ SetStep(c, "done")
  /\ UNCHANGED seen
  /\ UseCaseOnly

MarkPaid(c) ==
  /\ InUseCase(c, "mark")
  /\ ~RowLocked(c) /\ ~WriteConflict(c)
  /\ Write(c, "paid")
  /\ SetStep(c, "done")
  /\ UNCHANGED seen
  /\ UseCaseOnly

-----------------------------------------------------------------------------
(* The runner's steps, with their effect on the tables. *)

KeepWrites(c) == UNCHANGED <<dbVars, writes>>

DropWrites(c) == writes' = [writes EXCEPT ![c] = {}] /\ UNCHANGED dbVars

(* The provider's payment id is the call's own. *)
Payment(c) == [order |-> OrderOf[c], id |-> c, amount |-> quote[c]]

CommitWrites(c) ==
  LET o == OrderOf[c] IN
  /\ orders' = [orders EXCEPT ![o] = IF "paid" \in writes[c] THEN "paid" ELSE @]
  /\ reserved' = reserved \cup {x \in {o} : "reservation" \in writes[c]}
  /\ payments' = payments \cup {x \in {Payment(c)} : "payment" \in writes[c]}
  /\ writes' = [writes EXCEPT ![c] = {}]

CompleteBegin(c) ==
  /\ Begin(c)
  /\ SetStep(c, "get")
  /\ UNCHANGED <<seen, writes, dbVars, outsideVars>>

CompleteBeginFails(c, e) ==
  BeginFails(c, e) /\ UNCHANGED <<useCaseVars, dbVars, outsideVars>>

CompleteReturns(c) ==
  /\ step[c] = "done"
  /\ BodySucceeds(c)
  /\ UNCHANGED <<useCaseVars, dbVars, outsideVars>>

(* A repository call fails, or the order is not to be completed. *)
CompleteFails(c, e) ==
  /\ step[c] # "done"
  /\ BodyFails(c, e)
  /\ IF e \in Broken THEN KeepWrites(c) ELSE DropWrites(c)
  /\ UNCHANGED <<step, seen, outsideVars>>

(* GetByID finds no row, or a status that is ErrInvalidOrderState. *)
InvalidOrder(c) ==
  /\ InUseCase(c, "get")
  /\ NextStep(orders[OrderOf[c]]) = "error"
  /\ CompleteFails(c, "refused")

SerializationFails(c) ==
  /\ InUseCase(c, "mark")
  /\ ~RowLocked(c) /\ WriteConflict(c)
  /\ CompleteFails(c, "40001")

CompleteCommits(c) ==
  /\ CommitSucceeds(c)
  /\ CommitWrites(c)
  /\ UNCHANGED <<step, seen, outsideVars>>

CompleteCommitRefused(c, e) ==
  /\ CommitRefused(c, e)
  /\ DropWrites(c)
  /\ UNCHANGED <<step, seen, outsideVars>>

CompleteCommitUnanswered(c, e) ==
  /\ CommitUnanswered(c, e)
  /\ KeepWrites(c)
  /\ UNCHANGED <<step, seen, outsideVars>>

CompleteCancel(c) == Cancel(c) /\ UNCHANGED <<useCaseVars, dbVars, outsideVars>>

CompleteServerAborts(c) ==
  /\ ServerAborts(c)
  /\ DropWrites(c)
  /\ UNCHANGED <<step, seen, outsideVars>>

CompleteServerCommits(c) ==
  /\ ServerCommits(c)
  /\ CommitWrites(c)
  /\ UNCHANGED <<step, seen, outsideVars>>

-----------------------------------------------------------------------------

CheckoutProceeds(c) ==
  \/ GetQuote(c) \/ GetQuoteFails(c)
  \/ Authorize(c) \/ AuthorizeFails(c)
  \/ CompleteBegin(c)
  \/ CompleteBeginFails(c, "canceled")
  \/ GetByID(c) \/ InvalidOrder(c)
  \/ ReserveForOrder(c)
  \/ CreatePayment(c)
  \/ MarkPaid(c) \/ SerializationFails(c)
  \/ CompleteReturns(c)
  \/ CompleteFails(c, "canceled")
  \/ CompleteCommits(c)
  \/ CompleteCommitUnanswered(c, "canceled")

CheckoutSettles(c) == CompleteServerAborts(c) \/ CompleteServerCommits(c)

CheckoutNext ==
  \E c \in Calls :
    \/ CheckoutStart(c)
    \/ CheckoutProceeds(c)
    \/ CheckoutSettles(c)
    \/ CompleteCancel(c)
    \/ \E e \in Errors :
         \/ CompleteBeginFails(c, e)
         \/ CompleteFails(c, e)
         \/ CompleteCommitRefused(c, e)
         \/ CompleteCommitUnanswered(c, e)

CheckoutSpec == CheckoutInit /\ [][CheckoutNext]_checkoutVars

CheckoutFairness ==
  \A c \in Calls :
    WF_checkoutVars(CheckoutProceeds(c)) /\ WF_checkoutVars(CheckoutSettles(c))

FairCheckoutSpec == CheckoutSpec /\ CheckoutFairness

-----------------------------------------------------------------------------
(* Properties. *)

CheckoutTypeOK ==
  /\ RunnerTypeOK
  /\ phase \in [Calls -> Phases]
  /\ quote \in [Calls -> Int]
  /\ step \in [Calls -> UseCaseSteps]
  /\ seen \in [Calls -> Statuses]
  /\ writes \in [Calls -> SUBSET Writes]
  /\ orders \in [Orders -> Statuses]
  /\ reserved \in SUBSET Orders
  /\ payments \in SUBSET [order : Orders, id : Calls, amount : Int]
  /\ granted \in [Calls -> Nat]

PaymentsOf(o) == {p \in payments : p.order = o}

(* An order is paid exactly when it has a payment and a reservation: the   *)
(* three writes of Complete take effect together or not at all.            *)
PaidAtomically ==
  \A o \in Orders :
    /\ orders[o] = "paid" <=> PaymentsOf(o) # {}
    /\ orders[o] = "paid" <=> o \in reserved

(* Who made a payment that is in the table was authorised just once, and   *)
(* however often the order's completion is tried, the provider was asked   *)
(* at most once for the checkout (checkout_service.go: "No transaction").  *)
PaymentsAreAuthorised ==
  /\ \A p \in payments : granted[p.id] = 1
  /\ \A c \in Calls : granted[c] <= 1

(* What a checkout tells its caller about the authorisation it leaves: nil *)
(* means the order is paid, by this checkout or another; a definite error  *)
(* means this checkout's authorisation was not used, and never will be.    *)
RepliesMatchOrder ==
  \A c \in Calls : stage[c] = "returned" =>
    /\ err[c] = NoErr => orders[OrderOf[c]] = "paid"
    /\ err[c] \in Definite =>
         txn[c] # "committing" /\ \A p \in payments : p.id # c

(* The checkouts whose transaction has set out to pay the order: they have *)
(* read it as pending and not rolled back since.                           *)
Paying(o) ==
  {c \in Calls :
     /\ OrderOf[c] = o
     /\ writes[c] # {} \/ (stage[c] = "body" /\ step[c] \in {"reserve", "pay", "mark"})}

(* An order that is paid is not paid again but by a checkout under the     *)
(* default configuration that had set out before, and none sets out later, *)
(* however their commits are lost and however often they are tried.        *)
PaidOnce ==
  [][\A o \in Orders : orders[o] = "paid" =>
       /\ \A p \in PaymentsOf(o)' \ PaymentsOf(o) : p.id \in Paying(o) \ Serializable
       /\ Paying(o)' \subseteq Paying(o)]_checkoutVars

(* Every checkout returns.                                                 *)
EveryCheckoutReturns ==
  \A c \in Calls :
    phase[c] # "new" ~> phase[c] = "failed" \/ stage[c] = "returned"
=============================================================================
