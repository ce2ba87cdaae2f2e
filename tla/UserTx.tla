------------------------------- MODULE UserTx -------------------------------
(***************************************************************************)
(* pgx-transactions: CreateUserWithProfile, two INSERTs, by each of the    *)
(* approaches that main.go wires, and by the bare service over the context *)
(* executor with no transaction in its context ("plain").  The runner of   *)
(* the transactions is TxRunner: an action here is one of its actions with *)
(* the statements' effect on the tables, or leaves it alone.               *)
(***************************************************************************)
EXTENDS TxRunner

CONSTANTS
  PlainCalls, \* calls of the service outside any transaction
  Approach,   \* how each transactional call runs its transaction
  Username,   \* the username each call asks for
  Together,   \* bound: the sets of transactional calls made side by side
  NilID       \* the zero uuid

AllCalls == Calls \cup PlainCalls

Approaches ==
  {"tx_in_ctx", "unit_of_work", "pgx_transactional", "tx_manager", "uow_service"}

(* pgx.BeginFunc makes one attempt, and Do passes noBackoff. *)
ASSUME UserAssumption ==
  /\ IsFiniteSet(PlainCalls)
  /\ Calls \cap PlainCalls = {}
  /\ Approach \in [Calls -> Approaches]
  /\ Together \subseteq SUBSET Calls
  /\ \A c \in Calls : Approach[c] = "pgx_transactional" => ConfigAttempts[c] = 1
  /\ \A c \in Calls : Backoff[c] = 0
  /\ NilID \notin AllCalls \X Nat

VARIABLES
  step,       \* the statement each call's service is at
  result,     \* the result captured from inside the transaction function
  users,      \* committed rows of table users, by id
  profiles,   \* committed rows of table profiles, by user_id
  newUsers,   \* rows of each call's transaction, or of a statement whose
  newProfiles,\* client is gone: not committed, and locking their keys
  stmtHolds   \* calls that hold a connection for one statement on the pool

tableVars == <<users, profiles, newUsers, newProfiles>>
userVars == <<runnerVars, step, result, tableVars, stmtHolds>>

Ids == AllCalls \X Nat
Name(id) == Username[id[1]]

UserInit ==
  /\ Init
  /\ step = [c \in AllCalls |-> "idle"]
  /\ result = [c \in Calls |-> NilID]
  /\ users = {}
  /\ profiles = {}
  /\ newUsers = [c \in AllCalls |-> {}]
  /\ newProfiles = [c \in AllCalls |-> {}]
  /\ stmtHolds = {}

-----------------------------------------------------------------------------
(* Which executor and which id a call's statements use. *)

(* Mutant: runAttempt hands fn the caller's context. *)
ContextKept(c) == FALSE

(* Whether the context a call's service runs under carries a pgx.Tx: it    *)
(* does inside TxManager.runAttempt.                                       *)
ContextWithTx(c) == c \in Calls /\ stage[c] = "body"

ExecutorFromContext(c) == IF ContextWithTx(c) THEN "tx" ELSE "pool"

(* Repositories are bound to the context executor, or built on the tx.     *)
Executor(c) ==
  IF c \in Calls /\ Approach[c] \notin {"tx_in_ctx", "tx_manager"}
  THEN "tx"
  ELSE ExecutorFromContext(c)

(* uuid.New() runs before Do, or in the service, once per attempt. *)
IdPerAttempt(c) ==
  c \in Calls /\ Approach[c] \in {"pgx_transactional", "tx_manager", "uow_service"}

UserID(c) == <<c, IF IdPerAttempt(c) THEN attempt[c] ELSE 0>>

(* The id in what CreateUserWithProfile returns with a nil error. *)
ReturnedID(c) == IF IdPerAttempt(c) THEN result[c] ELSE UserID(c)

-----------------------------------------------------------------------------
(* Statements. *)

Executing(c, s) ==
  /\ step[c] = s
  /\ c \in Calls => stage[c] = "body" /\ c \notin canceled
  /\ Executor(c) = "tx" \/ c \in stmtHolds

InUse == Cardinality(holds) + Cardinality(stmtHolds)

(* A statement on the pool waits for a connection of its own. *)
WaitsForConn(c) ==
  /\ step[c] \in {"users", "profiles"}
  /\ Executor(c) = "pool"
  /\ c \notin stmtHolds

TakeConn(c) ==
  /\ WaitsForConn(c)
  /\ InUse < MaxConns
  /\ stmtHolds' = stmtHolds \cup {c}
  /\ UNCHANGED <<runnerVars, step, result, tableVars>>

SetStep(c, s) == step' = [step EXCEPT ![c] = s]

(* The end of a statement: a connection taken for it goes back. *)
StatementDone(c) == stmtHolds' = stmtHolds \ {c}

(* Another transaction's uncommitted row with this username makes an       *)
(* INSERT wait, a committed one makes it fail.                             *)
NameLocked(c) ==
  \E d \in AllCalls \ {c} : \E id \in newUsers[d] : Name(id) = Username[c]
NameTaken(c) == \E id \in users : Name(id) = Username[c]

InsertUser(c) ==
  /\ Executing(c, "users")
  /\ ~NameLocked(c) /\ ~NameTaken(c)
  /\ IF Executor(c) = "tx"
     THEN /\ newUsers' = [newUsers EXCEPT ![c] = @ \cup {UserID(c)}]
          /\ UNCHANGED users
     ELSE /\ users' = users \cup {UserID(c)}
          /\ UNCHANGED newUsers
  /\ SetStep(c, "profiles")
  /\ StatementDone(c)
  /\ UNCHANGED <<runnerVars, result, profiles, newProfiles>>

(* The row references a user: one committed, or one of this transaction. *)
InsertProfile(c) ==
  /\ Executing(c, "profiles")
  /\ UserID(c) \in users \cup newUsers[c]
  /\ IF Executor(c) = "tx"
     THEN /\ newProfiles' = [newProfiles EXCEPT ![c] = @ \cup {UserID(c)}]
          /\ UNCHANGED profiles
     ELSE /\ profiles' = profiles \cup {UserID(c)}
          /\ UNCHANGED newProfiles
  /\ SetStep(c, "done")
  /\ StatementDone(c)
  /\ UNCHANGED <<runnerVars, result, users, newUsers>>

-----------------------------------------------------------------------------
(* Transactional calls. *)

KeepRows(c) == UNCHANGED tableVars

DropRows(c) ==
  /\ newUsers' = [newUsers EXCEPT ![c] = {}]
  /\ newProfiles' = [newProfiles EXCEPT ![c] = {}]
  /\ UNCHANGED <<users, profiles>>

CommitRows(c) ==
  /\ users' = users \cup newUsers[c]
  /\ profiles' = profiles \cup newProfiles[c]
  /\ newUsers' = [newUsers EXCEPT ![c] = {}]
  /\ newProfiles' = [newProfiles EXCEPT ![c] = {}]

TxStart(c) ==
  /\ \E S \in Together : {c} \cup {d \in Calls : stage[d] # "idle"} \subseteq S
  /\ Start(c)
  /\ UNCHANGED <<step, result, tableVars, stmtHolds>>

TxBegin(c) ==
  /\ Begin(c)
  /\ InUse < MaxConns
  /\ SetStep(c, "users")
  /\ UNCHANGED <<result, tableVars, stmtHolds>>

TxBeginFails(c, e) ==
  /\ BeginFails(c, e)
  /\ UNCHANGED <<step, result, tableVars, stmtHolds>>

(* Mutant: the first attempt's result is kept. *)
CaptureOnce(c) ==
  result' = [result EXCEPT ![c] = IF @ = NilID THEN UserID(c) ELSE @]

(* Mutant: the service fills in the profile only. *)
CaptureProfileOnly(c) == result' = [result EXCEPT ![c] = <<NilID>>]

(* result, err = next.CreateUserWithProfile(ctx, input) *)
Capture(c) == result' = [result EXCEPT ![c] = UserID(c)]

TxServiceReturns(c) ==
  /\ step[c] = "done"
  /\ BodySucceeds(c)
  /\ Capture(c)
  /\ UNCHANGED <<step, tableVars, stmtHolds>>

(* A statement fails: on a conflict it must, otherwise it may. *)
TxStatementFails(c, e) ==
  /\ step[c] \in {"users", "profiles"}
  /\ BodyFails(c, e)
  /\ IF e \in Broken THEN KeepRows(c) ELSE DropRows(c)
  /\ result' = [result EXCEPT ![c] = NilID]
  /\ SetStep(c, "idle")
  /\ StatementDone(c)

TxInsertRefused(c) ==
  /\ Executing(c, "users")
  /\ NameTaken(c) /\ ~NameLocked(c)
  /\ TxStatementFails(c, "refused")

TxCommit(c) ==
  /\ CommitSucceeds(c)
  /\ CommitRows(c)
  /\ UNCHANGED <<step, result, stmtHolds>>

TxCommitRefused(c, e) ==
  /\ CommitRefused(c, e)
  /\ DropRows(c)
  /\ UNCHANGED <<step, result, stmtHolds>>

TxCommitUnanswered(c, e) ==
  /\ CommitUnanswered(c, e)
  /\ KeepRows(c)
  /\ UNCHANGED <<step, result, stmtHolds>>

TxCancel(c) == Cancel(c) /\ UNCHANGED <<step, result, tableVars, stmtHolds>>

TxServerAborts(c) ==
  /\ ServerAborts(c)
  /\ DropRows(c)
  /\ UNCHANGED <<step, result, stmtHolds>>

TxServerCommits(c) ==
  /\ ServerCommits(c)
  /\ CommitRows(c)
  /\ UNCHANGED <<step, result, stmtHolds>>

-----------------------------------------------------------------------------
(* Plain calls: every statement commits by itself. *)

PlainStart(c) ==
  /\ step[c] = "idle"
  /\ SetStep(c, "users")
  /\ UNCHANGED <<runnerVars, result, tableVars, stmtHolds>>

(* The statement had no effect, and the call returns its error. *)
PlainRefused(c) ==
  /\ step[c] \in {"users", "profiles"}
  /\ SetStep(c, "failed")
  /\ StatementDone(c)
  /\ UNCHANGED <<runnerVars, result, tableVars>>

(* The client is gone; the server may be at the statement yet. *)
PlainLost(c) ==
  /\ \/ /\ Executing(c, "users")
        /\ ~NameLocked(c) /\ ~NameTaken(c)
        /\ newUsers' = [newUsers EXCEPT ![c] = {UserID(c)}]
        /\ UNCHANGED newProfiles
     \/ /\ Executing(c, "profiles")
        /\ newProfiles' = [newProfiles EXCEPT ![c] = {UserID(c)}]
        /\ UNCHANGED newUsers
  /\ SetStep(c, "failed")
  /\ StatementDone(c)
  /\ UNCHANGED <<runnerVars, result, users, profiles>>

PlainSettles(c) ==
  /\ newUsers[c] \cup newProfiles[c] # {}
  /\ CommitRows(c) \/ DropRows(c)
  /\ UNCHANGED <<runnerVars, step, result, stmtHolds>>

-----------------------------------------------------------------------------

TxNext(c) ==
  \/ TxStart(c)
  \/ TxBegin(c)
  \/ TxServiceReturns(c)
  \/ TxInsertRefused(c)
  \/ TxCommit(c)
  \/ TxCancel(c)
  \/ TxServerAborts(c)
  \/ TxServerCommits(c)
  \/ \E e \in Errors :
       \/ TxBeginFails(c, e)
       \/ TxStatementFails(c, e)
       \/ TxCommitRefused(c, e)
       \/ TxCommitUnanswered(c, e)

PlainNext(c) ==
  \/ PlainStart(c)
  \/ PlainRefused(c)
  \/ PlainLost(c)
  \/ PlainSettles(c)

UserNext ==
  \/ \E c \in Calls : TxNext(c)
  \/ \E c \in PlainCalls : PlainNext(c)
  \/ \E c \in AllCalls : TakeConn(c) \/ InsertUser(c) \/ InsertProfile(c)

UserSpec == UserInit /\ [][UserNext]_userVars

(* As for the runner; a statement that can run does, and its service       *)
(* returns when its statements have.                                       *)
Statement(c) ==
  \/ TakeConn(c)
  \/ InsertUser(c)
  \/ InsertProfile(c)

TxProceeds(c) ==
  \/ TxBegin(c)
  \/ TxBeginFails(c, "canceled")
  \/ TxServiceReturns(c)
  \/ TxInsertRefused(c)
  \/ TxStatementFails(c, "canceled")
  \/ TxCommit(c)
  \/ TxCommitUnanswered(c, "canceled")

PlainProceeds(c) ==
  /\ c \in stmtHolds
  /\ step[c] = "users" /\ NameTaken(c)
  /\ PlainRefused(c)

UserFairness ==
  /\ \A c \in Calls :
       /\ WF_userVars(TxProceeds(c) \/ Statement(c))
       /\ WF_userVars(TxServerAborts(c) \/ TxServerCommits(c))
  /\ \A c \in PlainCalls :
       /\ WF_userVars(Statement(c) \/ PlainProceeds(c))
       /\ WF_userVars(PlainSettles(c))

FairUserSpec == UserSpec /\ UserFairness

-----------------------------------------------------------------------------
(* Properties. *)

Steps == {"idle", "users", "profiles", "done", "failed"}

UserTypeOK ==
  /\ RunnerTypeOK
  /\ step \in [AllCalls -> Steps]
  /\ result \in [Calls -> Ids \cup {NilID}]
  /\ users \in SUBSET Ids /\ profiles \in SUBSET Ids
  /\ newUsers \in [AllCalls -> SUBSET Ids]
  /\ newProfiles \in [AllCalls -> SUBSET Ids]
  /\ stmtHolds \in SUBSET AllCalls

Of(rows, c) == {id \in rows : id[1] = c}

(* A transactional call leaves a user with its profile or neither, in the  *)
(* tables as in any transaction about to be committed: both statements ran *)
(* on the transaction (context_executor.go, unit_of_work.go).              *)
NoTornPair ==
  \A c \in Calls :
    /\ Of(users, c) = Of(profiles, c)
    /\ txn[c] = "committing" \/ stage[c] = "commit" => newUsers[c] = newProfiles[c]

(* The id a transactional call returns is the one user it created, though  *)
(* it may have drawn another id at each attempt, and a definite error      *)
(* leaves no user.  The bare service commits its statements one by one, so *)
(* it may leave a user without a profile, but it says so: a nil error      *)
(* means the pair is there (CreateUserWithProfile, every approach).        *)
RepliesMatchRows ==
  /\ \A c \in Calls : stage[c] = "returned" =>
       /\ err[c] = NoErr => Of(users, c) = {ReturnedID(c)}
       /\ err[c] \in Definite => Of(users, c) = {}
       /\ Cardinality(Of(users, c)) <= 1
  /\ \A c \in PlainCalls : step[c] = "done" =>
       Of(users, c) = {UserID(c)} /\ Of(profiles, c) = {UserID(c)}

(* Transactions and single statements together stay within the pool, no    *)
(* call asks it for a connection while its transaction holds one, and none *)
(* whose uncommitted row keeps a username locked waits for another         *)
(* username or for a connection.                                           *)
NoHoldAndWait ==
  /\ InUse <= MaxConns
  /\ \A c \in holds : ~WaitsForConn(c) /\ c \notin stmtHolds
  /\ \A c \in AllCalls :
       newUsers[c] # {} => step[c] # "users" /\ ~WaitsForConn(c)

(* Every call of every approach returns, whatever others hold or lock.     *)
EveryUserCallReturns ==
  /\ \A c \in Calls : stage[c] # "idle" ~> stage[c] = "returned"
  /\ \A c \in PlainCalls : step[c] # "idle" ~> step[c] \in {"done", "failed"}

(* Every approach keeps the promise of UserRegistry.                       *)
Reply(c) ==
  CASE stage[c] # "returned" -> <<>>
    [] stage[c] = "returned" /\ err[c] = NoErr -> ReturnedID(c)
    [] stage[c] = "returned" /\ err[c] \in Definite -> <<"failed">>
    [] stage[c] = "returned" /\ err[c] \in Broken -> <<"unknown">>

Registry == INSTANCE UserRegistry WITH
  Draws <- UNION {0 .. MaxAttempts(c) : c \in Calls},
  accounts <- {id \in users : id[1] \in Calls /\ id \in profiles},
  reply <- [c \in Calls |-> Reply(c)]

RegistrySpec == Registry!Spec
=============================================================================
