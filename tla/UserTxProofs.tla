---------------------------- MODULE UserTxProofs ----------------------------
(***************************************************************************)
(* The safety properties of UserTx and its refinement of UserRegistry,     *)
(* proved for any set of calls by any of the approaches, any plain calls,  *)
(* usernames, pool and configuration of attempts.                          *)
(***************************************************************************)
EXTENDS UserTx, TxRunnerProofs

(* What a transactional call has written, by where it is: everything it    *)
(* writes has the id of its current attempt, which is the id it captures.  *)
TxRowsInv(c) ==
  /\ stage[c] = "body" => step[c] \in {"users", "profiles", "done"}
  /\ stage[c] = "commit" => step[c] = "done"
  /\ stage[c] # "body" => step[c] \in {"idle", "done"}
  /\ txn[c] = "none" => newUsers[c] = {} /\ newProfiles[c] = {}
  /\ newUsers[c] \subseteq {UserID(c)} /\ newProfiles[c] \subseteq {UserID(c)}
  /\ stage[c] = "body" =>
       /\ step[c] # "users" <=> newUsers[c] # {}
       /\ step[c] = "done" <=> newProfiles[c] # {}
  /\ stage[c] = "commit" \/ txn[c] = "committing" =>
       newUsers[c] # {} /\ newProfiles[c] # {}
  /\ stage[c] = "commit" \/ (stage[c] = "returned" /\ err[c] = NoErr) =>
       result[c] = UserID(c)
  /\ commits[c] = 0 => Of(users, c) = {} /\ Of(profiles, c) = {}
  /\ commits[c] # 0 => Of(users, c) = {UserID(c)} /\ Of(profiles, c) = {UserID(c)}

(* A plain call's rows are committed one by one; a statement that outlives *)
(* its client is the last one of its call.                                 *)
PlainRowsInv(c) ==
  /\ newUsers[c] \subseteq {UserID(c)} /\ newProfiles[c] \subseteq {UserID(c)}
  /\ step[c] # "failed" => newUsers[c] = {} /\ newProfiles[c] = {}
  /\ Of(users, c) \subseteq {UserID(c)} /\ Of(profiles, c) \subseteq {UserID(c)}
  /\ step[c] \in {"profiles", "done"} => Of(users, c) # {}
  /\ step[c] = "done" => Of(profiles, c) # {}

(* The unique username, over committed rows and those that lock theirs.    *)
NameInv ==
  /\ \A c, d \in AllCalls :
       newUsers[c] # {} /\ newUsers[d] # {} /\ Username[c] = Username[d] => c = d
  /\ \A id \in users : \A c \in AllCalls :
       newUsers[c] # {} => Name(id) # Username[c]

PoolInv ==
  /\ InUse <= MaxConns
  /\ stmtHolds \subseteq PlainCalls

UserInv ==
  /\ RunnerInv
  /\ UserTypeOK
  /\ \A c \in Calls : TxRowsInv(c)
  /\ \A c \in PlainCalls : PlainRowsInv(c)
  /\ NameInv
  /\ PoolInv

-----------------------------------------------------------------------------
(* Executors, ids and steps of the runner. *)

(* Every statement of a transactional call runs on its transaction, with   *)
(* either kind of repository; a plain call's never does.                   *)
LEMMA Executors ==
  /\ \A c \in Calls : stage[c] = "body" => Executor(c) = "tx"
  /\ \A c \in PlainCalls : Executor(c) = "pool" /\ c \notin Calls
BY UserAssumption DEF UserAssumption, Executor, ExecutorFromContext, ContextWithTx

LEMMA IdsOfCalls ==
  ASSUME UserTypeOK, NEW c \in AllCalls
  PROVE  UserID(c) \in Ids /\ UserID(c)[1] = c
BY DEF UserTypeOK, RunnerTypeOK, UserID, Ids, IdPerAttempt

LEMMA UserRunnerPart ==
  ASSUME [UserNext]_userVars
  PROVE  [RunnerNext]_runnerVars
<1>1. CASE UNCHANGED userVars
  BY <1>1 DEF userVars
<1>2. ASSUME NEW c \in AllCalls,
             \/ PlainNext(c) \/ TakeConn(c) \/ InsertUser(c) \/ InsertProfile(c)
      PROVE  UNCHANGED runnerVars
  BY <1>2 DEF PlainNext, PlainStart, PlainRefused, PlainLost, PlainSettles, TakeConn,
    InsertUser, InsertProfile
<1>3. ASSUME NEW c \in Calls, TxNext(c)
      PROVE  RunnerNext
  <2>1. "refused" \in Errors
    BY DEF Errors, Definite
  <2>2. ASSUME NEW e \in Errors,
               \/ TxBeginFails(c, e) \/ TxStatementFails(c, e) \/ TxInsertRefused(c)
               \/ TxCommitRefused(c, e) \/ TxCommitUnanswered(c, e)
        PROVE  RunnerNext
    BY <2>1, <2>2 DEF TxBeginFails, TxStatementFails, TxInsertRefused, TxCommitRefused,
      TxCommitUnanswered, RunnerNext
  <2> QED
    BY <1>3, <2>1, <2>2 DEF TxNext, TxStart, TxBegin, TxServiceReturns, TxCommit, TxCancel,
      TxServerAborts, TxServerCommits, RunnerNext
<1> QED
  BY <1>1, <1>2, <1>3 DEF UserNext, AllCalls

-----------------------------------------------------------------------------
(* Steps of one call. *)

(* What a step of call c does to every other call.                         *)
OnlyCall(c) ==
  \A d \in AllCalls \ {c} :
    /\ step'[d] = step[d] /\ newUsers'[d] = newUsers[d] /\ newProfiles'[d] = newProfiles[d]
    /\ Of(users, d)' = Of(users, d) /\ Of(profiles, d)' = Of(profiles, d)
    /\ d \in Calls =>
         /\ stage'[d] = stage[d] /\ attempt'[d] = attempt[d] /\ err'[d] = err[d]
         /\ txn'[d] = txn[d] /\ commits'[d] = commits[d] /\ result'[d] = result[d]

LEMMA UserStepAt ==
  ASSUME UserInv, RunnerInv', UserTypeOK', NEW c \in AllCalls, OnlyCall(c),
         c \in Calls => TxRowsInv(c)', c \in PlainCalls => PlainRowsInv(c)',
         NameInv', PoolInv'
  PROVE  UserInv'
<1>1. ASSUME NEW d \in Calls, d # c
      PROVE  TxRowsInv(d)'
  <2>1. TxRowsInv(d) /\ UserID(d)' = UserID(d)
    BY <1>1 DEF UserInv, OnlyCall, AllCalls, UserID, IdPerAttempt
  <2> QED
    BY <1>1, <2>1 DEF OnlyCall, AllCalls, TxRowsInv
<1>2. ASSUME NEW d \in PlainCalls, d # c
      PROVE  PlainRowsInv(d)'
  <2>1. PlainRowsInv(d) /\ UserID(d)' = UserID(d)
    BY <1>2, Executors DEF UserInv, UserID, IdPerAttempt
  <2> QED
    BY <1>2, <2>1 DEF OnlyCall, AllCalls, PlainRowsInv
<1> QED
  BY <1>1, <1>2 DEF UserInv

(* A step that leaves committed rows alone and locks no further name.      *)
LEMMA NamesStay ==
  ASSUME NameInv, users' = users,
         \A d \in AllCalls : newUsers'[d] # {} => newUsers[d] # {}
  PROVE  NameInv'
BY DEF NameInv, Name

(* The pool, of transactions and single statements together.               *)
LEMMA PoolCounts ==
  ASSUME UserInv, NEW c \in AllCalls
  PROVE  /\ Cardinality(holds) \in Nat /\ Cardinality(stmtHolds) \in Nat
         /\ Cardinality(holds \ {c}) \in 0 .. Cardinality(holds)
         /\ Cardinality(holds \cup {c}) \in 0 .. (Cardinality(holds) + 1)
         /\ Cardinality(stmtHolds \ {c}) \in 0 .. Cardinality(stmtHolds)
         /\ Cardinality(stmtHolds \cup {c}) \in 0 .. (Cardinality(stmtHolds) + 1)
<1>1. IsFiniteSet(Calls) /\ IsFiniteSet(PlainCalls)
  BY RunnerAssumption, UserAssumption DEF RunnerAssumption, UserAssumption
<1>2. holds \subseteq Calls /\ stmtHolds \subseteq PlainCalls
  BY DEF UserInv, UserTypeOK, RunnerTypeOK, PoolInv
<1>3. IsFiniteSet(holds) /\ IsFiniteSet(stmtHolds)
  BY <1>1, <1>2, FS_Subset
<1>4. ASSUME NEW S, IsFiniteSet(S)
      PROVE  /\ Cardinality(S) \in Nat
             /\ Cardinality(S \ {c}) \in 0 .. Cardinality(S)
             /\ Cardinality(S \cup {c}) \in 0 .. (Cardinality(S) + 1)
  <2>1. Cardinality(S) \in Nat /\ IsFiniteSet(S \ {c}) /\ IsFiniteSet(S \cup {c})
    BY <1>4, FS_CardinalityType, FS_RemoveElement, FS_AddElement
  <2>2. Cardinality(S \ {c}) \in Nat /\ Cardinality(S \cup {c}) \in Nat
    BY <2>1, FS_CardinalityType
  <2>3. /\ Cardinality(S \ {c}) \in {Cardinality(S), Cardinality(S) - 1}
        /\ Cardinality(S \cup {c}) \in {Cardinality(S), Cardinality(S) + 1}
    BY <1>4, FS_RemoveElement, FS_AddElement
  <2> QED
    BY <2>1, <2>2, <2>3
<1> QED
  BY <1>3, <1>4

LEMMA PoolStays ==
  ASSUME UserInv, NEW c \in AllCalls,
         holds' = holds \ {c} \/ holds' = holds,
         stmtHolds' = stmtHolds \ {c} \/ stmtHolds' = stmtHolds
  PROVE  PoolInv'
<1>1. PoolInv /\ MaxConns \in Nat
  BY RunnerAssumption DEF RunnerAssumption, UserInv
<1>2. /\ Cardinality(holds) \in Nat /\ Cardinality(stmtHolds) \in Nat
      /\ Cardinality(holds \ {c}) \in 0 .. Cardinality(holds)
      /\ Cardinality(stmtHolds \ {c}) \in 0 .. Cardinality(stmtHolds)
  BY PoolCounts
<1>3. Cardinality(holds') \in 0 .. Cardinality(holds)
  BY <1>2
<1>4. Cardinality(stmtHolds') \in 0 .. Cardinality(stmtHolds)
  BY <1>2
<1>5. InUse <= MaxConns /\ InUse' <= InUse
  BY <1>1, <1>2, <1>3, <1>4 DEF PoolInv, InUse
<1>6. InUse' <= MaxConns
  BY <1>1, <1>2, <1>3, <1>4, <1>5 DEF InUse
<1> QED
  BY <1>1, <1>6 DEF PoolInv

LEMMA PoolGrows ==
  ASSUME UserInv, NEW c \in AllCalls, InUse < MaxConns,
         \/ holds' = holds \cup {c} /\ stmtHolds' = stmtHolds
         \/ holds' = holds /\ stmtHolds' = stmtHolds \cup {c} /\ c \in PlainCalls
  PROVE  PoolInv'
<1>1. PoolInv /\ MaxConns \in Nat
  BY RunnerAssumption DEF RunnerAssumption, UserInv
<1>2. /\ Cardinality(holds) \in Nat /\ Cardinality(stmtHolds) \in Nat
      /\ Cardinality(holds \cup {c}) \in 0 .. (Cardinality(holds) + 1)
      /\ Cardinality(stmtHolds \cup {c}) \in 0 .. (Cardinality(stmtHolds) + 1)
  BY PoolCounts
<1>3. \/ /\ Cardinality(holds') \in 0 .. (Cardinality(holds) + 1)
         /\ Cardinality(stmtHolds') = Cardinality(stmtHolds)
      \/ /\ Cardinality(stmtHolds') \in 0 .. (Cardinality(stmtHolds) + 1)
         /\ Cardinality(holds') = Cardinality(holds)
  BY <1>2
<1>4. InUse' <= MaxConns
  BY <1>1, <1>2, <1>3 DEF InUse
<1> QED
  BY <1>1, <1>4 DEF PoolInv

(* Every variable keeps its type.                                          *)
LEMMA UserTypeStep ==
  ASSUME UserInv, [UserNext]_userVars
  PROVE  RunnerInv' /\ UserTypeOK'
<1>1. UserTypeOK /\ RunnerInv /\ PlainCalls \subseteq AllCalls /\ Calls \subseteq AllCalls
  BY DEF UserInv, AllCalls
<1>2. RunnerInv' /\ RunnerTypeOK'
  BY <1>1, UserRunnerPart, NextInv DEF RunnerInv
<1>3. CASE UNCHANGED userVars
  BY <1>1, <1>2, <1>3 DEF UserTypeOK, userVars, tableVars
<1>4. ASSUME NEW c \in AllCalls, TakeConn(c) \/ InsertUser(c) \/ InsertProfile(c)
      PROVE  UserTypeOK'
  BY <1>1, <1>2, <1>4, IdsOfCalls DEF UserTypeOK, TakeConn, InsertUser, InsertProfile,
    SetStep, Steps, StatementDone, tableVars
<1>5. ASSUME NEW c \in PlainCalls, PlainNext(c)
      PROVE  UserTypeOK'
  <2>1. CASE PlainStart(c) \/ PlainRefused(c)
    BY <1>1, <1>2, <2>1 DEF UserTypeOK, PlainStart, PlainRefused, SetStep, Steps,
      StatementDone, tableVars
  <2>2. CASE PlainLost(c)
    BY <1>1, <1>2, <2>2, IdsOfCalls DEF UserTypeOK, PlainLost, SetStep, Steps,
      StatementDone
  <2>3. CASE PlainSettles(c)
    BY <1>1, <1>2, <2>3 DEF UserTypeOK, PlainSettles, CommitRows, DropRows
  <2> QED
    BY <1>5, <2>1, <2>2, <2>3 DEF PlainNext
<1>6. ASSUME NEW c \in Calls,
             \/ TxStart(c) \/ TxBegin(c) \/ TxCancel(c) \/ TxServiceReturns(c)
      PROVE  UserTypeOK'
  BY <1>1, <1>2, <1>6, IdsOfCalls DEF UserTypeOK, TxStart, TxBegin, TxCancel,
    TxServiceReturns, Capture, SetStep, Steps, tableVars
<1>7. ASSUME NEW c \in Calls, NEW e \in Errors,
             \/ TxBeginFails(c, e) \/ TxStatementFails(c, e)
             \/ TxCommitRefused(c, e) \/ TxCommitUnanswered(c, e)
      PROVE  UserTypeOK'
  BY <1>1, <1>2, <1>7 DEF UserTypeOK, TxBeginFails, TxStatementFails, TxCommitRefused,
    TxCommitUnanswered, KeepRows, DropRows, StatementDone, SetStep, Steps, tableVars
<1>8. ASSUME NEW c \in Calls, TxCommit(c) \/ TxServerAborts(c) \/ TxServerCommits(c)
      PROVE  UserTypeOK'
  BY <1>1, <1>2, <1>8 DEF UserTypeOK, TxCommit, TxServerAborts, TxServerCommits, CommitRows,
    DropRows
<1>9. "refused" \in Errors
  BY DEF Errors, Definite
<1> QED
  BY <1>2, <1>3, <1>4, <1>5, <1>6, <1>7, <1>8, <1>9 DEF UserNext, TxNext, TxInsertRefused

-----------------------------------------------------------------------------
(* One lemma per class of step. *)

(* A call enters the runner, its context is done, or a transaction begins. *)
LEMMA EnterStep ==
  ASSUME UserInv, RunnerInv', UserTypeOK', NEW c \in Calls,
         TxStart(c) \/ TxCancel(c) \/ TxBegin(c)
  PROVE  UserInv'
<1>1. /\ UserTypeOK /\ TxRowsInv(c) /\ CallInv(c) /\ RunnerTypeOK /\ NameInv
      /\ PoolInv /\ c \in AllCalls
  BY DEF UserInv, RunnerInv, AllCalls
<1>2. UNCHANGED <<users, profiles, newUsers, newProfiles, result, commits, stmtHolds>>
  BY DEF TxStart, Start, TxCancel, Cancel, TxBegin, Begin, tableVars
<1>3. NameInv'
  BY <1>1, <1>2, NamesStay
<1>4. CASE TxStart(c)
  <2>1. stage[c] = "idle" /\ attempt[c] = 0 /\ txn[c] = "none" /\ commits[c] = 0
    BY <1>1, <1>4 DEF TxStart, Start, CallInv
  <2>2. /\ stage' = [stage EXCEPT ![c] = "acquire"]
        /\ attempt' = [attempt EXCEPT ![c] = attempt[c] + 1]
        /\ UNCHANGED <<err, txn, step, holds>>
    BY <1>4, <2>1, AttemptsPositive DEF TxStart, Start, LoopHead
  <2>3. OnlyCall(c) /\ stage'[c] = "acquire"
    BY <1>1, <1>2, <2>2 DEF OnlyCall, RunnerTypeOK, Of
  <2>4. TxRowsInv(c)'
    BY <1>1, <1>2, <2>1, <2>2, <2>3 DEF TxRowsInv, Of
  <2> QED
    BY <1>1, <1>2, <1>3, <2>2, <2>3, <2>4, PoolStays, UserStepAt, UserAssumption
    DEF UserAssumption
<1>5. CASE TxCancel(c)
  <2>1. UNCHANGED <<stage, attempt, err, txn, step, holds>>
    BY <1>5 DEF TxCancel, Cancel
  <2>2. OnlyCall(c)
    BY <1>2, <2>1 DEF OnlyCall, Of
  <2>3. TxRowsInv(c)'
    BY <1>1, <1>2, <2>1 DEF TxRowsInv, Of, UserID
  <2> QED
    BY <1>1, <1>2, <1>3, <2>1, <2>2, <2>3, PoolStays, UserStepAt, UserAssumption
    DEF UserAssumption
<1>6. CASE TxBegin(c)
  <2>1. /\ stage[c] = "acquire" /\ stage' = [stage EXCEPT ![c] = "body"]
        /\ txn' = [txn EXCEPT ![c] = "open"] /\ step' = [step EXCEPT ![c] = "users"]
        /\ UNCHANGED <<attempt, err>> /\ holds' = holds \cup {c} /\ InUse < MaxConns
    BY <1>6 DEF TxBegin, Begin, SetTxn, SetStep
  <2>2. /\ OnlyCall(c) /\ stage'[c] = "body" /\ txn'[c] = "open" /\ step'[c] = "users"
        /\ txn[c] = "none" /\ commits[c] = 0
    BY <1>1, <1>2, <2>1 DEF OnlyCall, RunnerTypeOK, UserTypeOK, CallInv, Of
  <2>3. TxRowsInv(c)'
    BY <1>1, <1>2, <2>1, <2>2 DEF TxRowsInv, Of, UserID
  <2>4. PoolInv'
    BY <1>1, <1>2, <2>1, PoolGrows
  <2> QED
    BY <1>1, <1>3, <2>2, <2>3, <2>4, UserStepAt, UserAssumption DEF UserAssumption
<1> QED
  BY <1>4, <1>5, <1>6

(* Whatever a call has not committed has the call's own id, and name.      *)
LEMMA RowsOfCalls ==
  ASSUME UserInv, NEW c \in AllCalls
  PROVE  /\ newUsers[c] \subseteq {UserID(c)} /\ newProfiles[c] \subseteq {UserID(c)}
         /\ UserID(c)[1] = c /\ Name(UserID(c)) = Username[c]
<1>1. newUsers[c] \subseteq {UserID(c)} /\ newProfiles[c] \subseteq {UserID(c)}
  BY DEF UserInv, TxRowsInv, PlainRowsInv, AllCalls
<1>2. UserID(c)[1] = c
  BY IdsOfCalls DEF UserInv
<1> QED
  BY <1>1, <1>2 DEF Name

(* An INSERT into users that neither waits nor fails takes a free name.    *)
LEMMA NamesOfInsert ==
  ASSUME UserInv, NEW c \in AllCalls, ~NameLocked(c), ~NameTaken(c),
         \/ /\ users' = users
            /\ \A d \in AllCalls \ {c} : newUsers'[d] = newUsers[d]
         \/ /\ users' = users \cup {UserID(c)}
            /\ newUsers' = newUsers /\ newUsers[c] = {}
  PROVE  NameInv'
<1>1. NameInv /\ Name(UserID(c)) = Username[c]
  BY RowsOfCalls DEF UserInv
<1>2. ASSUME NEW d \in AllCalls \ {c}, newUsers[d] # {}
      PROVE  Username[d] # Username[c]
  <2>1. PICK id \in newUsers[d] : TRUE
    BY <1>2
  <2>2. Name(id) = Username[d]
    BY <2>1, RowsOfCalls
  <2> QED
    BY <2>1, <2>2 DEF NameLocked
<1>3. \A id \in users : Name(id) # Username[c]
  BY DEF NameTaken
<1>4. CASE /\ users' = users
           /\ \A d \in AllCalls \ {c} : newUsers'[d] = newUsers[d]
  BY <1>1, <1>2, <1>3, <1>4 DEF NameInv, Name
<1>5. CASE /\ users' = users \cup {UserID(c)}
           /\ newUsers' = newUsers /\ newUsers[c] = {}
  BY <1>1, <1>2, <1>3, <1>5 DEF NameInv, Name
<1> QED
  BY <1>4, <1>5

(* A statement of a transactional call writes to its transaction only.     *)
LEMMA TxStatementStep ==
  ASSUME UserInv, RunnerInv', UserTypeOK', NEW c \in Calls,
         TakeConn(c) \/ InsertUser(c) \/ InsertProfile(c)
  PROVE  UserInv'
<1>1. /\ UserTypeOK /\ TxRowsInv(c) /\ CallInv(c) /\ c \in AllCalls /\ c \notin PlainCalls
      /\ NameInv
  BY UserAssumption DEF UserInv, RunnerInv, AllCalls, UserAssumption
<1>2. ~TakeConn(c)
  BY <1>1, Executors DEF TakeConn, WaitsForConn, TxRowsInv
<1>3. stage[c] = "body" /\ Executor(c) = "tx" /\ txn[c] = "open" /\ commits[c] = 0
  BY <1>1, <1>2, Executors DEF InsertUser, InsertProfile, Executing, CallInv
<1>4. /\ UNCHANGED <<runnerVars, result, users, profiles>> /\ stmtHolds' = stmtHolds \ {c}
  BY <1>2, <1>3 DEF InsertUser, InsertProfile, StatementDone
<1>5. PoolInv'
  BY <1>1, <1>4, PoolStays DEF runnerVars
<1>6. CASE InsertUser(c)
  <2>1. /\ newUsers' = [newUsers EXCEPT ![c] = newUsers[c] \cup {UserID(c)}]
        /\ newProfiles' = newProfiles
        /\ step[c] = "users" /\ step' = [step EXCEPT ![c] = "profiles"]
        /\ ~NameLocked(c) /\ ~NameTaken(c)
    BY <1>3, <1>6 DEF InsertUser, Executing, SetStep
  <2>2. /\ OnlyCall(c) /\ step'[c] = "profiles"
        /\ newUsers'[c] = newUsers[c] \cup {UserID(c)}
    BY <1>1, <1>4, <2>1 DEF OnlyCall, runnerVars, UserTypeOK, Of
  <2>3. TxRowsInv(c)'
    BY <1>1, <1>3, <1>4, <2>1, <2>2 DEF TxRowsInv, runnerVars, UserID, Of
  <2>4. NameInv'
    BY <1>1, <1>4, <2>1, <2>2, NamesOfInsert DEF OnlyCall
  <2> QED
    BY <1>1, <1>5, <2>2, <2>3, <2>4, UserStepAt
<1>7. CASE InsertProfile(c)
  <2>1. /\ newProfiles' = [newProfiles EXCEPT ![c] = newProfiles[c] \cup {UserID(c)}]
        /\ newUsers' = newUsers
        /\ step[c] = "profiles" /\ step' = [step EXCEPT ![c] = "done"]
    BY <1>3, <1>7 DEF InsertProfile, Executing, SetStep
  <2>2. /\ OnlyCall(c) /\ step'[c] = "done"
        /\ newProfiles'[c] = newProfiles[c] \cup {UserID(c)}
    BY <1>1, <1>4, <2>1 DEF OnlyCall, runnerVars, UserTypeOK, Of
  <2>3. TxRowsInv(c)'
    BY <1>1, <1>3, <1>4, <2>1, <2>2 DEF TxRowsInv, runnerVars, UserID, Of
  <2>4. NameInv'
    BY <1>1, <1>4, <2>1, NamesStay
  <2> QED
    BY <1>1, <1>5, <2>2, <2>3, <2>4, UserStepAt
<1> QED
  BY <1>2, <1>6, <1>7

(* The service returns nil: its result is captured for the caller.         *)
LEMMA ReturnsStep ==
  ASSUME UserInv, RunnerInv', UserTypeOK', NEW c \in Calls, TxServiceReturns(c)
  PROVE  UserInv'
<1>1. /\ UserTypeOK /\ TxRowsInv(c) /\ CallInv(c) /\ RunnerTypeOK /\ c \in AllCalls
      /\ NameInv /\ c \notin PlainCalls
  BY UserAssumption DEF UserInv, RunnerInv, AllCalls, UserAssumption
<1>2. /\ UNCHANGED <<users, profiles, newUsers, newProfiles, step, stmtHolds>>
      /\ UNCHANGED <<attempt, err, holds, txn, commits>>
      /\ stage[c] = "body" /\ step[c] = "done"
      /\ stage' = [stage EXCEPT ![c] = "commit"]
      /\ result' = [result EXCEPT ![c] = UserID(c)]
  BY DEF TxServiceReturns, BodySucceeds, Capture, tableVars
<1>3. /\ OnlyCall(c) /\ stage'[c] = "commit" /\ result'[c] = UserID(c) /\ txn[c] = "open"
      /\ UserID(c)' = UserID(c)
  BY <1>1, <1>2 DEF OnlyCall, RunnerTypeOK, UserTypeOK, CallInv, Of, UserID
<1>4. TxRowsInv(c)'
  BY <1>1, <1>2, <1>3 DEF TxRowsInv, Of
<1>5. NameInv' /\ PoolInv'
  BY <1>1, <1>2, NamesStay, PoolStays
<1> QED
  BY <1>1, <1>3, <1>4, <1>5, UserStepAt

(* An attempt fails: its rows are gone, or wait for the server.            *)
LEMMA UserFailureStep ==
  ASSUME UserInv, RunnerInv', UserTypeOK', NEW c \in Calls, NEW e \in Errors,
         \/ TxBeginFails(c, e) \/ TxStatementFails(c, e)
         \/ TxCommitRefused(c, e) \/ TxCommitUnanswered(c, e)
  PROVE  UserInv'
<1>1. /\ UserTypeOK /\ TxRowsInv(c) /\ CallInv(c) /\ RunnerTypeOK /\ RunnerInv
      /\ c \in AllCalls /\ c \notin PlainCalls /\ NameInv
  BY UserAssumption DEF UserInv, RunnerInv, AllCalls, UserAssumption
<1>2. /\ UNCHANGED <<users, profiles, commits>>
      /\ stage[c] \in {"acquire", "body", "commit"} /\ AttemptFailed(c, e)
      /\ holds' = holds \/ holds' = holds \ {c}
      /\ stmtHolds' = stmtHolds \/ stmtHolds' = stmtHolds \ {c}
  BY DEF TxBeginFails, BeginFails, TxStatementFails, BodyFails, TxCommitRefused,
    CommitRefused, TxCommitUnanswered, CommitUnanswered, KeepRows, DropRows, tableVars,
    StatementDone, Release
<1>3. /\ LoopOnlyAt(c) /\ stage'[c] \in {"returned", "acquire", "sleep"}
      /\ stage'[c] = "returned" => err'[c] = e
      /\ e \notin Retryable => attempt'[c] = attempt[c]
  BY <1>1, <1>2, AttemptEnds
<1>4. e # NoErr /\ (e \in Broken => e \notin Retryable)
  BY DEF NoErr, Errors, Definite, Retryable, Broken
<1>5. PICK t \in TxnStates :
        /\ txn' = [txn EXCEPT ![c] = t]
        /\ \/ newUsers' = newUsers /\ newProfiles' = newProfiles /\ e \notin Retryable
           \/ /\ newUsers' = [newUsers EXCEPT ![c] = {}]
              /\ newProfiles' = [newProfiles EXCEPT ![c] = {}]
        /\ t = "none" => newUsers'[c] = {} /\ newProfiles'[c] = {}
        /\ t = "committing" =>
             stage[c] = "commit" /\ newUsers' = newUsers /\ newProfiles' = newProfiles
  <2>1. CASE TxBeginFails(c, e)
    <3>1. /\ txn[c] = "none" /\ txn' = txn /\ newUsers[c] = {} /\ newProfiles[c] = {}
          /\ newUsers' = newUsers /\ newProfiles' = newProfiles
      BY <1>1, <2>1 DEF TxBeginFails, BeginFails, CallInv, TxRowsInv, tableVars
    <3> QED
      BY <1>1, <3>1 DEF UserTypeOK, RunnerTypeOK
  <2>2. CASE TxStatementFails(c, e)
    <3>1. PICK t \in {"none", "orphan"} :
            txn' = [txn EXCEPT ![c] = t] /\ (t = "none" => e \notin Broken)
      BY <2>2 DEF TxStatementFails, BodyFails, SetTxn
    <3>2. /\ e \in Broken => newUsers' = newUsers /\ newProfiles' = newProfiles
          /\ e \notin Broken => /\ newUsers' = [newUsers EXCEPT ![c] = {}]
                                /\ newProfiles' = [newProfiles EXCEPT ![c] = {}]
      BY <2>2 DEF TxStatementFails, KeepRows, DropRows, tableVars
    <3> QED
      BY <1>1, <1>4, <3>1, <3>2 DEF TxnStates, UserTypeOK
  <2>3. CASE TxCommitRefused(c, e)
    BY <1>1, <2>3 DEF TxCommitRefused, CommitRefused, DropRows, SetTxn, TxnStates, UserTypeOK
  <2>4. CASE TxCommitUnanswered(c, e)
    <3>1. PICK t \in {"orphan", "committing"} : txn' = [txn EXCEPT ![c] = t]
      BY <2>4 DEF TxCommitUnanswered, CommitUnanswered, SetTxn
    <3>2. stage[c] = "commit" /\ e \in Broken /\ UNCHANGED <<newUsers, newProfiles>>
      BY <2>4 DEF TxCommitUnanswered, CommitUnanswered, KeepRows, tableVars
    <3> QED
      BY <1>4, <3>1, <3>2 DEF TxnStates
  <2> QED
    BY <2>1, <2>2, <2>3, <2>4
<1>6. /\ step'[c] \in {"idle", "done"}
      /\ \A d \in AllCalls \ {c} : step'[d] = step[d]
      /\ \A d \in Calls \ {c} : result'[d] = result[d]
  BY <1>1 DEF TxBeginFails, BeginFails, TxStatementFails, TxCommitRefused, CommitRefused,
    TxCommitUnanswered, CommitUnanswered, SetStep, UserTypeOK, TxRowsInv
<1>7. OnlyCall(c) /\ txn'[c] = t /\ commits[c] = 0
  BY <1>1, <1>2, <1>3, <1>5, <1>6 DEF OnlyCall, LoopOnlyAt, RunnerTypeOK, UserTypeOK, Of,
    CallInv, AllCalls
<1>8. \/ /\ newUsers'[c] = newUsers[c] /\ newProfiles'[c] = newProfiles[c]
         /\ UserID(c)' = UserID(c)
      \/ newUsers'[c] = {} /\ newProfiles'[c] = {}
  <2>1. CASE newUsers' = newUsers /\ newProfiles' = newProfiles /\ e \notin Retryable
    BY <1>3, <2>1 DEF UserID
  <2>2. CASE /\ newUsers' = [newUsers EXCEPT ![c] = {}]
             /\ newProfiles' = [newProfiles EXCEPT ![c] = {}]
    BY <1>1, <2>2 DEF UserTypeOK
  <2> QED
    BY <1>5, <2>1, <2>2
<1>9. TxRowsInv(c)'
  BY <1>1, <1>2, <1>3, <1>4, <1>5, <1>6, <1>7, <1>8 DEF TxRowsInv, Of
<1>10. NameInv'
  BY <1>1, <1>2, <1>5, NamesStay DEF UserTypeOK
<1>11. PoolInv'
  BY <1>1, <1>2, PoolStays
<1> QED
  BY <1>1, <1>7, <1>9, <1>10, <1>11, UserStepAt

(* The server gives up a transaction whose client is gone.                 *)
LEMMA UserAbortStep ==
  ASSUME UserInv, RunnerInv', UserTypeOK', NEW c \in Calls, TxServerAborts(c)
  PROVE  UserInv'
<1>1. /\ UserTypeOK /\ TxRowsInv(c) /\ CallInv(c) /\ RunnerTypeOK
      /\ c \in AllCalls /\ c \notin PlainCalls /\ NameInv
  BY UserAssumption DEF UserInv, RunnerInv, AllCalls, UserAssumption
<1>2. /\ UNCHANGED <<users, profiles, step, result, stmtHolds>>
      /\ UNCHANGED <<stage, attempt, err, holds, commits>>
      /\ txn[c] \in {"orphan", "committing"} /\ txn' = [txn EXCEPT ![c] = "none"]
      /\ newUsers' = [newUsers EXCEPT ![c] = {}]
      /\ newProfiles' = [newProfiles EXCEPT ![c] = {}]
  BY DEF TxServerAborts, ServerAborts, SetTxn, DropRows
<1>3. /\ OnlyCall(c) /\ newUsers'[c] = {} /\ newProfiles'[c] = {} /\ txn'[c] = "none"
      /\ UserID(c)' = UserID(c) /\ stage[c] \notin {"body", "commit"}
  BY <1>1, <1>2 DEF OnlyCall, RunnerTypeOK, UserTypeOK, CallInv, Of, UserID
<1>4. TxRowsInv(c)'
  BY <1>1, <1>2, <1>3 DEF TxRowsInv, Of
<1>5. NameInv' /\ PoolInv'
  BY <1>1, <1>2, NamesStay, PoolStays DEF UserTypeOK
<1> QED
  BY <1>1, <1>3, <1>4, <1>5, UserStepAt

(* Rows that become visible were locked under a name no other row has.     *)
LEMMA NamesOfCommit ==
  ASSUME UserInv, UserTypeOK', NEW c \in AllCalls, CommitRows(c)
  PROVE  /\ NameInv'
         /\ newUsers'[c] = {} /\ newProfiles'[c] = {}
         /\ Of(users, c)' = Of(users, c) \cup newUsers[c]
         /\ Of(profiles, c)' = Of(profiles, c) \cup newProfiles[c]
         /\ \A d \in AllCalls \ {c} :
              /\ newUsers'[d] = newUsers[d] /\ newProfiles'[d] = newProfiles[d]
              /\ Of(users, d)' = Of(users, d) /\ Of(profiles, d)' = Of(profiles, d)
<1>1. UserTypeOK /\ NameInv
  BY DEF UserInv
<1>2. /\ users' = users \cup newUsers[c] /\ profiles' = profiles \cup newProfiles[c]
      /\ newUsers' = [newUsers EXCEPT ![c] = {}]
      /\ newProfiles' = [newProfiles EXCEPT ![c] = {}]
  BY DEF CommitRows
<1>3. /\ newUsers'[c] = {} /\ newProfiles'[c] = {}
      /\ \A d \in AllCalls \ {c} :
           newUsers'[d] = newUsers[d] /\ newProfiles'[d] = newProfiles[d]
  BY <1>1, <1>2 DEF UserTypeOK
<1>4. /\ \A id \in newUsers[c] : id[1] = c /\ Name(id) = Username[c]
      /\ \A id \in newProfiles[c] : id[1] = c
  BY RowsOfCalls
<1>5. NameInv'
  BY <1>1, <1>2, <1>3, <1>4 DEF NameInv, Name
<1>6. /\ Of(users, c)' = Of(users, c) \cup newUsers[c]
      /\ Of(profiles, c)' = Of(profiles, c) \cup newProfiles[c]
  BY <1>2, <1>4 DEF Of
<1>7. ASSUME NEW d \in AllCalls \ {c}
      PROVE  Of(users, d)' = Of(users, d) /\ Of(profiles, d)' = Of(profiles, d)
  BY <1>2, <1>4 DEF Of
<1> QED
  BY <1>3, <1>5, <1>6, <1>7

(* A commit takes effect, whether or not the client hears of it.           *)
LEMMA UserCommitStep ==
  ASSUME UserInv, RunnerInv', UserTypeOK', NEW c \in Calls,
         TxCommit(c) \/ TxServerCommits(c)
  PROVE  UserInv'
<1>1. /\ UserTypeOK /\ TxRowsInv(c) /\ CallInv(c) /\ RunnerTypeOK /\ CallInv(c)'
      /\ c \in AllCalls /\ c \notin PlainCalls /\ CommitRows(c)
  BY UserAssumption DEF UserInv, RunnerInv, AllCalls, UserAssumption, TxCommit,
    TxServerCommits
<1>2. /\ UNCHANGED <<step, result, stmtHolds, attempt>>
      /\ txn' = [txn EXCEPT ![c] = "none"]
      /\ commits' = [commits EXCEPT ![c] = commits[c] + 1]
      /\ stage[c] = "commit" \/ txn[c] = "committing"
      /\ holds' = holds \/ holds' = holds \ {c}
  BY DEF TxCommit, CommitSucceeds, TxServerCommits, ServerCommits, SetTxn, Release, Return
<1>3. /\ \A d \in Calls \ {c} : stage'[d] = stage[d] /\ err'[d] = err[d]
      /\ stage'[c] = "returned" /\ step[c] \in {"idle", "done"}
      /\ err'[c] = NoErr => stage[c] = "commit"
  <2>1. CASE TxCommit(c)
    BY <1>1, <2>1 DEF TxCommit, CommitSucceeds, Return, RunnerTypeOK, TxRowsInv
  <2>2. CASE TxServerCommits(c)
    <3>1. /\ txn[c] = "committing" /\ stage' = stage /\ err' = err
      BY <2>2 DEF TxServerCommits, ServerCommits
    <3>2. stage[c] = "returned" /\ err[c] # NoErr
      BY <1>1, <3>1 DEF CallInv, Settled, RunnerTypeOK, Stages
    <3> QED
      BY <1>1, <3>1, <3>2 DEF TxRowsInv
  <2> QED
    BY <2>1, <2>2
<1>4. /\ NameInv'
      /\ newUsers'[c] = {} /\ newProfiles'[c] = {}
      /\ Of(users, c)' = Of(users, c) \cup newUsers[c]
      /\ Of(profiles, c)' = Of(profiles, c) \cup newProfiles[c]
      /\ \A d \in AllCalls \ {c} :
           /\ newUsers'[d] = newUsers[d] /\ newProfiles'[d] = newProfiles[d]
           /\ Of(users, d)' = Of(users, d) /\ Of(profiles, d)' = Of(profiles, d)
  BY <1>1, NamesOfCommit
<1>5. commits[c] = 0 /\ commits'[c] = 1 /\ txn'[c] = "none" /\ UserID(c)' = UserID(c)
  <2>1. commits[c] = 0
    BY <1>1, <1>2, <1>3 DEF CallInv, Settled, RunnerTypeOK, Stages, Errors, Definite
  <2> QED
    BY <1>1, <1>2, <2>1 DEF RunnerTypeOK, UserID
<1>6. OnlyCall(c)
  BY <1>1, <1>2, <1>3, <1>4 DEF OnlyCall, RunnerTypeOK
<1>7. newUsers[c] = {UserID(c)} /\ newProfiles[c] = {UserID(c)}
  BY <1>1, <1>2 DEF TxRowsInv
<1>8. TxRowsInv(c)'
  BY <1>1, <1>2, <1>3, <1>4, <1>5, <1>7 DEF TxRowsInv
<1>9. PoolInv'
  BY <1>1, <1>2, PoolStays
<1> QED
  BY <1>1, <1>4, <1>6, <1>8, <1>9, UserStepAt

(* A statement of a plain call takes a connection, or commits by itself.   *)
LEMMA PlainStatementStep ==
  ASSUME UserInv, RunnerInv', UserTypeOK', NEW c \in PlainCalls,
         TakeConn(c) \/ InsertUser(c) \/ InsertProfile(c)
  PROVE  UserInv'
<1>1. /\ UserTypeOK /\ PlainRowsInv(c) /\ NameInv /\ c \in AllCalls /\ c \notin Calls
      /\ UserID(c)' = UserID(c) /\ UserID(c)[1] = c /\ Executor(c) = "pool"
  BY Executors, RowsOfCalls DEF UserInv, AllCalls, UserID, IdPerAttempt
<1>2. UNCHANGED <<runnerVars, result>>
  BY DEF TakeConn, InsertUser, InsertProfile
<1>3. CASE TakeConn(c)
  <2>1. /\ UNCHANGED <<step, users, profiles, newUsers, newProfiles>>
        /\ InUse < MaxConns /\ stmtHolds' = stmtHolds \cup {c}
    BY <1>3 DEF TakeConn, tableVars
  <2>2. OnlyCall(c) /\ PlainRowsInv(c)'
    BY <1>1, <1>2, <2>1 DEF OnlyCall, PlainRowsInv, Of, runnerVars
  <2>3. PoolInv' /\ NameInv'
    BY <1>1, <1>2, <2>1, PoolGrows, NamesStay DEF runnerVars
  <2> QED
    BY <1>1, <2>2, <2>3, UserStepAt
<1>4. ASSUME InsertUser(c) \/ InsertProfile(c)
      PROVE  PoolInv'
  BY <1>1, <1>2, <1>4, PoolStays DEF InsertUser, InsertProfile, StatementDone, runnerVars
<1>5. CASE InsertUser(c)
  <2>1. /\ step[c] = "users" /\ step' = [step EXCEPT ![c] = "profiles"]
        /\ users' = users \cup {UserID(c)} /\ profiles' = profiles
        /\ newUsers' = newUsers /\ newProfiles' = newProfiles
        /\ ~NameLocked(c) /\ ~NameTaken(c)
    BY <1>1, <1>5 DEF InsertUser, Executing, SetStep
  <2>2. newUsers[c] = {} /\ newProfiles[c] = {} /\ step'[c] = "profiles"
    BY <1>1, <2>1 DEF PlainRowsInv, UserTypeOK
  <2>3. OnlyCall(c)
    BY <1>1, <1>2, <2>1 DEF OnlyCall, Of, runnerVars, UserTypeOK
  <2>4. PlainRowsInv(c)'
    BY <1>1, <2>1, <2>2 DEF PlainRowsInv, Of
  <2>5. NameInv'
    BY <1>1, <2>1, <2>2, NamesOfInsert
  <2> QED
    BY <1>1, <1>4, <1>5, <2>3, <2>4, <2>5, UserStepAt
<1>6. CASE InsertProfile(c)
  <2>1. /\ step[c] = "profiles" /\ step' = [step EXCEPT ![c] = "done"]
        /\ profiles' = profiles \cup {UserID(c)} /\ users' = users
        /\ newUsers' = newUsers /\ newProfiles' = newProfiles
        /\ UserID(c) \in users \cup newUsers[c]
    BY <1>1, <1>6 DEF InsertProfile, Executing, SetStep
  <2>2. /\ newUsers[c] = {} /\ newProfiles[c] = {} /\ step'[c] = "done"
        /\ UserID(c) \in Of(users, c)
    BY <1>1, <2>1 DEF PlainRowsInv, UserTypeOK, Of
  <2>3. OnlyCall(c)
    BY <1>1, <1>2, <2>1 DEF OnlyCall, Of, runnerVars, UserTypeOK
  <2>4. PlainRowsInv(c)'
    BY <1>1, <2>1, <2>2 DEF PlainRowsInv, Of
  <2>5. NameInv'
    BY <1>1, <2>1, NamesStay
  <2> QED
    BY <1>1, <1>4, <1>6, <2>3, <2>4, <2>5, UserStepAt
<1> QED
  BY <1>3, <1>5, <1>6

(* A plain call starts, fails, loses its client, or has a statement that   *)
(* outlived its client settled.                                            *)
LEMMA PlainStep ==
  ASSUME UserInv, RunnerInv', UserTypeOK', NEW c \in PlainCalls, PlainNext(c)
  PROVE  UserInv'
<1>1. /\ UserTypeOK /\ PlainRowsInv(c) /\ NameInv /\ c \in AllCalls /\ c \notin Calls
      /\ UserID(c)' = UserID(c)
  BY Executors DEF UserInv, AllCalls, UserID, IdPerAttempt
<1>2. /\ UNCHANGED <<runnerVars, result>>
      /\ stmtHolds' = stmtHolds \/ stmtHolds' = stmtHolds \ {c}
  BY DEF PlainNext, PlainStart, PlainRefused, PlainLost, PlainSettles, StatementDone
<1>3. PoolInv'
  BY <1>1, <1>2, PoolStays DEF runnerVars
<1>4. CASE PlainStart(c) \/ PlainRefused(c)
  <2>1. /\ UNCHANGED <<users, profiles, newUsers, newProfiles>>
        /\ step[c] \in {"idle", "users", "profiles"}
        /\ \E s \in {"users", "failed"} : step' = [step EXCEPT ![c] = s]
    BY <1>4 DEF PlainStart, PlainRefused, SetStep, tableVars
  <2>2. OnlyCall(c) /\ step'[c] \in {"users", "failed"}
    BY <1>1, <1>2, <2>1 DEF OnlyCall, Of, runnerVars, UserTypeOK
  <2>3. PlainRowsInv(c)'
    BY <1>1, <2>1, <2>2 DEF PlainRowsInv, Of
  <2>4. NameInv'
    BY <1>1, <2>1, NamesStay
  <2> QED
    BY <1>1, <1>3, <2>2, <2>3, <2>4, UserStepAt
<1>5. CASE PlainLost(c)
  <2>1. /\ UNCHANGED <<users, profiles>> /\ step' = [step EXCEPT ![c] = "failed"]
        /\ \/ /\ newUsers' = [newUsers EXCEPT ![c] = {UserID(c)}]
              /\ newProfiles' = newProfiles /\ ~NameLocked(c) /\ ~NameTaken(c)
           \/ /\ newProfiles' = [newProfiles EXCEPT ![c] = {UserID(c)}]
              /\ newUsers' = newUsers
    BY <1>5 DEF PlainLost, SetStep
  <2>2. /\ OnlyCall(c) /\ step'[c] = "failed"
        /\ newUsers'[c] \subseteq {UserID(c)} /\ newProfiles'[c] \subseteq {UserID(c)}
    BY <1>1, <1>2, <2>1 DEF OnlyCall, Of, runnerVars, UserTypeOK, PlainRowsInv
  <2>3. PlainRowsInv(c)'
    BY <1>1, <2>1, <2>2 DEF PlainRowsInv, Of
  <2>4. NameInv'
    BY <1>1, <2>1, <2>2, NamesStay, NamesOfInsert DEF OnlyCall
  <2> QED
    BY <1>1, <1>3, <2>2, <2>3, <2>4, UserStepAt
<1>6. CASE PlainSettles(c)
  <2>1. step' = step /\ step[c] = "failed"
    BY <1>1, <1>6 DEF PlainSettles, PlainRowsInv, UserTypeOK, Steps
  <2>2. CASE CommitRows(c)
    <3>1. /\ NameInv'
          /\ newUsers'[c] = {} /\ newProfiles'[c] = {}
          /\ Of(users, c)' = Of(users, c) \cup newUsers[c]
          /\ Of(profiles, c)' = Of(profiles, c) \cup newProfiles[c]
          /\ \A d \in AllCalls \ {c} :
               /\ newUsers'[d] = newUsers[d] /\ newProfiles'[d] = newProfiles[d]
               /\ Of(users, d)' = Of(users, d) /\ Of(profiles, d)' = Of(profiles, d)
      BY <1>1, <2>2, NamesOfCommit
    <3>2. OnlyCall(c)
      BY <1>2, <2>1, <3>1 DEF OnlyCall, runnerVars
    <3>3. PlainRowsInv(c)'
      BY <1>1, <2>1, <3>1 DEF PlainRowsInv
    <3> QED
      BY <1>1, <1>3, <3>1, <3>2, <3>3, UserStepAt
  <2>3. CASE DropRows(c)
    <3>1. /\ UNCHANGED <<users, profiles>>
          /\ newUsers' = [newUsers EXCEPT ![c] = {}]
          /\ newProfiles' = [newProfiles EXCEPT ![c] = {}]
      BY <2>3 DEF DropRows
    <3>2. OnlyCall(c) /\ newUsers'[c] = {} /\ newProfiles'[c] = {}
      BY <1>1, <1>2, <2>1, <3>1 DEF OnlyCall, Of, runnerVars, UserTypeOK
    <3>3. PlainRowsInv(c)' /\ NameInv'
      BY <1>1, <2>1, <3>1, <3>2, NamesStay DEF PlainRowsInv, Of, UserTypeOK
    <3> QED
      BY <1>1, <1>3, <3>2, <3>3, UserStepAt
  <2> QED
    BY <1>6, <2>2, <2>3 DEF PlainSettles
<1> QED
  BY <1>4, <1>5, <1>6 DEF PlainNext

LEMMA UserInitInv == UserInit => UserInv
<1> SUFFICES ASSUME UserInit PROVE UserInv
  OBVIOUS
<1>1. RunnerInv
  BY InitInv DEF UserInit
<1>2. UserTypeOK
  BY <1>1 DEF UserInit, RunnerInv, UserTypeOK, Steps
<1>3. ASSUME NEW c \in AllCalls
      PROVE  /\ step[c] = "idle" /\ newUsers[c] = {} /\ newProfiles[c] = {}
             /\ Of(users, c) = {} /\ Of(profiles, c) = {}
  BY DEF UserInit, Of
<1>4. \A c \in Calls : stage[c] = "idle" /\ commits[c] = 0 /\ txn[c] = "none"
  BY DEF UserInit, Init
<1>5. \A c \in Calls : TxRowsInv(c)
  BY <1>3, <1>4 DEF TxRowsInv, AllCalls
<1>6. \A c \in PlainCalls : PlainRowsInv(c)
  BY <1>3 DEF PlainRowsInv, AllCalls
<1>7. NameInv
  BY <1>3 DEF UserInit, NameInv
<1>8. PoolInv
  <2>1. Cardinality({}) = 0
    BY FS_EmptySet
  <2> QED
    BY <2>1, RunnerAssumption DEF UserInit, Init, PoolInv, InUse, RunnerAssumption
<1> QED
  BY <1>1, <1>2, <1>5, <1>6, <1>7, <1>8 DEF UserInv

LEMMA UserNextInv == UserInv /\ [UserNext]_userVars => UserInv'
<1> SUFFICES ASSUME UserInv, [UserNext]_userVars PROVE UserInv'
  OBVIOUS
<1>1. RunnerInv' /\ UserTypeOK'
  BY UserTypeStep
<1>2. CASE UNCHANGED userVars
  <2>1. /\ \A c \in AllCalls : UserID(c)' = UserID(c)
        /\ \A c \in AllCalls :
             Of(users, c)' = Of(users, c) /\ Of(profiles, c)' = Of(profiles, c)
    BY <1>2 DEF userVars, runnerVars, tableVars, UserID, IdPerAttempt, Of
  <2>2. \A c \in Calls : TxRowsInv(c)'
    BY <1>2, <2>1 DEF UserInv, TxRowsInv, AllCalls, userVars, runnerVars, tableVars
  <2>3. \A c \in PlainCalls : PlainRowsInv(c)'
    BY <1>2, <2>1 DEF UserInv, PlainRowsInv, AllCalls, userVars, tableVars
  <2>4. NameInv' /\ PoolInv'
    BY <1>2 DEF UserInv, NameInv, PoolInv, Name, InUse, userVars, runnerVars, tableVars
  <2> QED
    BY <1>1, <2>2, <2>3, <2>4 DEF UserInv
<1>3. ASSUME NEW c \in Calls,
             \/ TxStart(c) \/ TxBegin(c) \/ TxCancel(c) \/ TxServiceReturns(c)
             \/ TxCommit(c) \/ TxServerAborts(c) \/ TxServerCommits(c)
      PROVE  UserInv'
  BY <1>1, <1>3, EnterStep, ReturnsStep, UserCommitStep, UserAbortStep
<1>4. ASSUME NEW c \in Calls, NEW e \in Errors,
             \/ TxBeginFails(c, e) \/ TxStatementFails(c, e)
             \/ TxCommitRefused(c, e) \/ TxCommitUnanswered(c, e)
      PROVE  UserInv'
  BY <1>1, <1>4, UserFailureStep
<1>5. ASSUME NEW c \in PlainCalls, PlainNext(c)
      PROVE  UserInv'
  BY <1>1, <1>5, PlainStep
<1>6. ASSUME NEW c \in AllCalls, TakeConn(c) \/ InsertUser(c) \/ InsertProfile(c)
      PROVE  UserInv'
  BY <1>1, <1>6, TxStatementStep, PlainStatementStep DEF AllCalls
<1>7. "refused" \in Errors
  BY DEF Errors, Definite
<1> QED
  BY <1>2, <1>3, <1>4, <1>5, <1>6, <1>7 DEF UserNext, TxNext, TxInsertRefused

(* The inductive invariant holds throughout every behaviour of the calls.  *)
THEOREM UserInvariant == UserSpec => []UserInv
BY UserInitInv, UserNextInv, PTL DEF UserSpec

-----------------------------------------------------------------------------
(* The theorems. *)

(* Every approach uses the runner as it is, beside any plain calls.        *)
THEOREM UserCallsRunRunner == UserSpec => RunnerSpec
<1>1. UserInit => Init
  BY DEF UserInit
<1>2. [UserNext]_userVars => [RunnerNext]_runnerVars
  BY UserRunnerPart
<1> QED
  BY <1>1, <1>2, PTL DEF UserSpec, RunnerSpec

(* Every variable of the calls keeps its type.                             *)
THEOREM UserTypes == UserSpec => []UserTypeOK
<1>1. UserInv => UserTypeOK
  BY DEF UserInv
<1> QED
  BY <1>1, UserInvariant, PTL

(* A transactional call leaves a user with its profile or neither.         *)
THEOREM PairsAreWhole == UserSpec => []NoTornPair
<1>1. UserInv => NoTornPair
  <2> SUFFICES ASSUME UserInv, NEW c \in Calls
               PROVE  /\ Of(users, c) = Of(profiles, c)
                      /\ txn[c] = "committing" \/ stage[c] = "commit" =>
                           newUsers[c] = newProfiles[c]
    BY DEF NoTornPair
  <2>1. TxRowsInv(c)
    BY DEF UserInv
  <2>2. Of(users, c) = Of(profiles, c)
    <3>1. CASE commits[c] = 0
      BY <2>1, <3>1 DEF TxRowsInv
    <3>2. CASE commits[c] # 0
      BY <2>1, <3>2 DEF TxRowsInv
    <3> QED
      BY <3>1, <3>2
  <2>3. ASSUME txn[c] = "committing" \/ stage[c] = "commit"
        PROVE  newUsers[c] = newProfiles[c]
    <3>1. newUsers[c] \subseteq {UserID(c)} /\ newProfiles[c] \subseteq {UserID(c)}
      BY <2>1 DEF TxRowsInv
    <3>2. newUsers[c] # {} /\ newProfiles[c] # {}
      BY <2>1, <2>3 DEF TxRowsInv
    <3> QED
      BY <3>1, <3>2
  <2> QED
    BY <2>2, <2>3
<1> QED
  BY <1>1, UserInvariant, PTL

(* The id a call captured inside its transaction.                          *)
LEMMA CapturedID ==
  ASSUME UserInv, NEW c \in Calls, stage[c] = "returned", err[c] = NoErr
  PROVE  ReturnedID(c) = UserID(c)
BY DEF UserInv, TxRowsInv, ReturnedID

(* The id in a nil reply is that of the one user the call created; a       *)
(* definite error leaves none.                                             *)
THEOREM RepliesTellOfRows == UserSpec => []RepliesMatchRows
<1>1. UserInv => RepliesMatchRows
  <2> SUFFICES ASSUME UserInv PROVE RepliesMatchRows
    OBVIOUS
  <2>1. ASSUME NEW c \in Calls, stage[c] = "returned"
        PROVE  /\ err[c] = NoErr => Of(users, c) = {ReturnedID(c)}
               /\ err[c] \in Definite => Of(users, c) = {}
               /\ Cardinality(Of(users, c)) <= 1
    <3>1. TxRowsInv(c) /\ Settled(c)
      BY <2>1 DEF UserInv, RunnerInv, CallInv
    <3>2. Cardinality({}) = 0 /\ Cardinality({UserID(c)}) = 1
      BY FS_EmptySet, FS_Singleton
    <3>3. Of(users, c) = {} \/ Of(users, c) = {UserID(c)}
      BY <3>1 DEF TxRowsInv
    <3>4. Cardinality(Of(users, c)) <= 1
      BY <3>2, <3>3
    <3>5. err[c] = NoErr => Of(users, c) = {ReturnedID(c)}
      BY <2>1, <3>1, CapturedID DEF TxRowsInv, Settled
    <3>6. err[c] \in Definite => Of(users, c) = {}
      BY <3>1 DEF TxRowsInv, Settled
    <3> QED
      BY <3>4, <3>5, <3>6
  <2>2. ASSUME NEW c \in PlainCalls, step[c] = "done"
        PROVE  Of(users, c) = {UserID(c)} /\ Of(profiles, c) = {UserID(c)}
    BY <2>2 DEF UserInv, PlainRowsInv
  <2> QED
    BY <2>1, <2>2 DEF RepliesMatchRows
<1> QED
  BY <1>1, UserInvariant, PTL

(* Transactions and single statements together stay within the pool, no    *)
(* call asks it for a second connection, and none that keeps a username    *)
(* locked waits for anything that others hold.                             *)
THEOREM NoCallHoldsAndWaits == UserSpec => []NoHoldAndWait
<1>1. UserInv => NoHoldAndWait
  <2> SUFFICES ASSUME UserInv PROVE NoHoldAndWait
    OBVIOUS
  <2>1. ASSUME NEW c \in holds
        PROVE  ~WaitsForConn(c) /\ c \notin stmtHolds
    <3>1. c \in Calls /\ c \notin PlainCalls
      BY UserAssumption DEF UserInv, UserTypeOK, RunnerTypeOK, UserAssumption
    <3>2. stage[c] \in {"body", "commit"} /\ TxRowsInv(c)
      BY <3>1 DEF UserInv, RunnerInv, PoolDiscipline
    <3>3. ~WaitsForConn(c)
      BY <3>1, <3>2, Executors DEF WaitsForConn, TxRowsInv
    <3> QED
      BY <3>1, <3>3 DEF UserInv, PoolInv
  <2>2. ASSUME NEW c \in AllCalls, newUsers[c] # {}
        PROVE  step[c] # "users" /\ ~WaitsForConn(c)
    <3>1. CASE c \in Calls
      BY <2>2, <3>1, Executors DEF UserInv, TxRowsInv, WaitsForConn
    <3>2. CASE c \in PlainCalls
      BY <2>2, <3>2 DEF UserInv, PlainRowsInv, WaitsForConn
    <3> QED
      BY <3>1, <3>2 DEF AllCalls
  <2> QED
    BY <2>1, <2>2 DEF UserInv, PoolInv, NoHoldAndWait
<1> QED
  BY <1>1, UserInvariant, PTL

-----------------------------------------------------------------------------
(* Every approach implements UserRegistry. *)

Others(c) ==
  \A d \in Calls \ {c} :
    /\ stage'[d] = stage[d] /\ err'[d] = err[d]
    /\ attempt'[d] = attempt[d] /\ commits'[d] = commits[d]

(* A step that decides nothing: no call returns, no transaction commits.   *)
Undecided ==
  /\ \A d \in Calls : commits'[d] = commits[d]
  /\ \A d \in Calls : stage'[d] = "returned" <=> stage[d] = "returned"
  /\ \A d \in Calls :
       stage[d] = "returned" => err'[d] = err[d] /\ attempt'[d] = attempt[d]

Ends(c) == stage[c] # "returned" /\ stage'[c] = "returned" /\ commits[c] = 0

EndsWell(c) ==
  /\ Ends(c) /\ stage[c] = "commit"
  /\ err'[c] = NoErr /\ commits'[c] = 1 /\ attempt'[c] = attempt[c]

EndsBadly(c) == Ends(c) /\ err'[c] \in Errors /\ commits'[c] = 0

CommitsLate(c) ==
  /\ stage[c] = "returned" /\ stage'[c] = "returned" /\ txn[c] = "committing"
  /\ err[c] \in Broken /\ err'[c] = err[c] /\ attempt'[c] = attempt[c]
  /\ commits[c] = 0 /\ commits'[c] = 1

(* Every step of the runner decides nothing or the outcome of one call.    *)
LEMMA Outcomes ==
  ASSUME RunnerInv, [RunnerNext]_runnerVars
  PROVE  \/ Undecided
         \/ \E c \in Calls : Others(c) /\ (EndsWell(c) \/ EndsBadly(c) \/ CommitsLate(c))
<1>1. RunnerTypeOK /\ \A c \in Calls : CallInv(c)
  BY DEF RunnerInv
<1>2. CASE UNCHANGED runnerVars
  BY <1>2 DEF runnerVars, Undecided
<1>3. ASSUME NEW c \in Calls, Begin(c) \/ BodySucceeds(c) \/ Cancel(c) \/ ServerAborts(c)
      PROVE  Undecided
  BY <1>1, <1>3 DEF Begin, BodySucceeds, Cancel, ServerAborts, Undecided, RunnerTypeOK
<1>4. ASSUME NEW c \in Calls, Start(c) \/ (Wake(c) /\ LoopHead(c))
      PROVE  Undecided
  <2>1. /\ stage[c] \in {"idle", "sleep"} /\ LoopHead(c) /\ UNCHANGED commits
    BY <1>4 DEF Start, Wake
  <2>2. attempt[c] + 1 <= MaxAttempts(c)
    BY <1>1, <2>1, AttemptsPositive DEF CallInv, RunnerTypeOK
  <2>3. /\ stage' = [stage EXCEPT ![c] = "acquire"]
        /\ attempt' = [attempt EXCEPT ![c] = attempt[c] + 1]
        /\ err' = err
    BY <2>1, <2>2 DEF LoopHead
  <2> QED
    BY <1>1, <2>1, <2>3 DEF Undecided, RunnerTypeOK
<1>5. ASSUME NEW c \in Calls, Wake(c), Return(c, "canceled")
      PROVE  Others(c) /\ EndsBadly(c)
  BY <1>1, <1>5 DEF Wake, Return, Others, EndsBadly, Ends, RunnerTypeOK, CallInv, Errors,
    Broken
<1>6. ASSUME NEW c \in Calls, CommitSucceeds(c)
      PROVE  Others(c) /\ EndsWell(c)
  BY <1>1, <1>6 DEF CommitSucceeds, Return, Others, EndsWell, Ends, RunnerTypeOK, CallInv
<1>7. ASSUME NEW c \in Calls, ServerCommits(c)
      PROVE  Others(c) /\ CommitsLate(c)
  <2>1. stage[c] = "returned" /\ txn[c] = "committing" /\ Settled(c)
    BY <1>7, ServerStep DEF ServerCommits, RunnerInv, CallInv
  <2>2. err[c] \in Broken /\ commits[c] = 0
    BY <1>1, <2>1 DEF Settled, RunnerTypeOK, Errors
  <2> QED
    BY <1>1, <1>7, <2>1, <2>2 DEF ServerCommits, Others, CommitsLate, RunnerTypeOK
<1>8. ASSUME NEW c \in Calls, NEW e \in Errors,
             \/ BeginFails(c, e) \/ BodyFails(c, e)
             \/ CommitRefused(c, e) \/ CommitUnanswered(c, e)
      PROVE  Undecided \/ (Others(c) /\ EndsBadly(c))
  <2>1. /\ stage[c] \in {"acquire", "body", "commit"} /\ AttemptFailed(c, e)
        /\ commits' = commits /\ commits[c] = 0
    BY <1>1, <1>8 DEF BeginFails, BodyFails, CommitRefused, CommitUnanswered, CallInv
  <2>2. /\ LoopOnlyAt(c) /\ stage'[c] \in {"returned", "acquire", "sleep"}
        /\ stage'[c] = "returned" => err'[c] = e
    BY <2>1, AttemptEnds
  <2> QED
    BY <2>1, <2>2 DEF LoopOnlyAt, Undecided, Others, EndsBadly, Ends
<1>9. \A c \in Calls : Wake(c) => LoopHead(c) \/ Return(c, "canceled")
  BY DEF Wake
<1> QED
  BY <1>2, <1>3, <1>4, <1>5, <1>6, <1>7, <1>8, <1>9 DEF RunnerNext

Accounts == {id \in users : id[1] \in Calls /\ id \in profiles}

(* The registry's accounts are the ids of the calls that committed.        *)
AccountsAreCommits ==
  Accounts = {UserID(c) : c \in {d \in Calls : commits[d] # 0}}

LEMMA AccountsOfCommits == UserInv => AccountsAreCommits
<1> SUFFICES ASSUME UserInv PROVE AccountsAreCommits
  OBVIOUS
<1>1. \A c \in Calls : UserID(c)[1] = c
  BY RowsOfCalls DEF AllCalls
<1>2. ASSUME NEW id \in Accounts
      PROVE  id \in {UserID(c) : c \in {d \in Calls : commits[d] # 0}}
  <2>1. id[1] \in Calls /\ id \in Of(users, id[1]) /\ TxRowsInv(id[1])
    BY <1>2 DEF Accounts, Of, UserInv
  <2> QED
    BY <2>1 DEF TxRowsInv
<1>3. ASSUME NEW c \in Calls, commits[c] # 0
      PROVE  UserID(c) \in Accounts
  <2>1. UserID(c) \in Of(users, c) /\ UserID(c) \in Of(profiles, c)
    BY <1>3 DEF UserInv, TxRowsInv
  <2> QED
    BY <1>1, <2>1 DEF Accounts, Of
<1> QED
  BY <1>2, <1>3 DEF AccountsAreCommits

(* What the registry's reply is for a call, by its stage and its error.    *)
RepliesByOutcome ==
  \A c \in Calls :
    /\ stage[c] # "returned" => Reply(c) = <<>>
    /\ stage[c] = "returned" /\ err[c] = NoErr => Reply(c) = UserID(c)
    /\ stage[c] = "returned" /\ err[c] \in Definite => Reply(c) = <<"failed">>
    /\ stage[c] = "returned" /\ err[c] \in Broken => Reply(c) = <<"unknown">>

LEMMA ReplyOf == UserInv => RepliesByOutcome
<1> SUFFICES ASSUME UserInv, NEW c \in Calls
             PROVE  /\ stage[c] # "returned" => Reply(c) = <<>>
                    /\ stage[c] = "returned" /\ err[c] = NoErr => Reply(c) = UserID(c)
                    /\ stage[c] = "returned" /\ err[c] \in Definite =>
                         Reply(c) = <<"failed">>
                    /\ stage[c] = "returned" /\ err[c] \in Broken =>
                         Reply(c) = <<"unknown">>
  BY DEF RepliesByOutcome
<1>1. NoErr \notin Definite /\ NoErr \notin Broken /\ Definite \cap Broken = {}
  BY DEF NoErr, Definite, Retryable, Broken
<1>2. CASE stage[c] # "returned"
  BY <1>2 DEF Reply
<1>3. CASE stage[c] = "returned" /\ err[c] = NoErr
  BY <1>1, <1>3, CapturedID DEF Reply
<1>4. CASE stage[c] = "returned" /\ err[c] \in Definite
  BY <1>1, <1>4 DEF Reply
<1>5. CASE stage[c] = "returned" /\ err[c] \in Broken
  BY <1>1, <1>5 DEF Reply
<1> QED
  BY <1>2, <1>3, <1>4, <1>5

(* The same of the state after a step.                                     *)
LEMMA ViewAfterStep == UserInv' => AccountsAreCommits' /\ RepliesByOutcome'
BY AccountsOfCommits, ReplyOf, PTL

Replies == [c \in Calls |-> Reply(c)]

(* Other calls' replies and accounts do not move.                          *)
LEMMA OthersStay ==
  ASSUME UserInv, UserInv', NEW d \in Calls,
         stage'[d] = "returned" <=> stage[d] = "returned",
         stage[d] = "returned" => err'[d] = err[d] /\ attempt'[d] = attempt[d]
  PROVE  /\ Reply(d)' = Reply(d)
         /\ stage[d] = "returned" => UserID(d)' = UserID(d)
<1>1. RepliesByOutcome /\ RepliesByOutcome'
  BY ReplyOf, ViewAfterStep
<1>2. stage[d] = "returned" => UserID(d)' = UserID(d)
  BY DEF UserID, IdPerAttempt
<1>3. CASE stage[d] # "returned"
  BY <1>1, <1>3 DEF RepliesByOutcome
<1>4. CASE stage[d] = "returned" /\ err[d] = NoErr
  <2>1. Reply(d) = UserID(d)
    BY <1>1, <1>4 DEF RepliesByOutcome
  <2>2. Reply(d)' = UserID(d)'
    BY <1>1, <1>4 DEF RepliesByOutcome
  <2> QED
    BY <1>2, <1>4, <2>1, <2>2
<1>5. CASE stage[d] = "returned" /\ err[d] \in Definite
  BY <1>1, <1>2, <1>5 DEF RepliesByOutcome
<1>6. CASE stage[d] = "returned" /\ err[d] \in Broken
  BY <1>1, <1>2, <1>6 DEF RepliesByOutcome
<1>7. err[d] \in Errors \cup {NoErr}
  BY DEF UserInv, RunnerInv, RunnerTypeOK
<1> QED
  BY <1>2, <1>3, <1>4, <1>5, <1>6, <1>7 DEF Errors

(* A step that decides nothing is none of the registry's.                  *)
LEMMA UndecidedStutters ==
  ASSUME UserInv, UserInv', Undecided
  PROVE  Accounts' = Accounts /\ Replies' = Replies
<1>1. \A d \in Calls :
        Reply(d)' = Reply(d) /\ (stage[d] = "returned" => UserID(d)' = UserID(d))
  BY OthersStay DEF Undecided
<1>2. Replies' = Replies
  BY <1>1 DEF Replies
<1>3. \A d \in Calls : commits'[d] = commits[d]
  BY DEF Undecided
<1>4. \A d \in Calls : commits[d] # 0 => stage[d] = "returned"
  BY DEF UserInv, RunnerInv, RunnerTypeOK, CallInv, Stages
<1>5. /\ Accounts = {UserID(d) : d \in {x \in Calls : commits[x] # 0}}
      /\ Accounts' = {UserID(d)' : d \in {x \in Calls : commits'[x] # 0}}
  BY AccountsOfCommits, ViewAfterStep DEF AccountsAreCommits
<1>6. Accounts' = Accounts
  BY <1>1, <1>3, <1>4, <1>5
<1> QED
  BY <1>2, <1>6

(* The account a commit adds, with a name and a call that have none yet.   *)
LEMMA CommitCreates ==
  ASSUME UserInv, UserInv', NEW c \in Calls, Others(c),
         commits[c] = 0, commits'[c] = 1, attempt'[c] = attempt[c],
         stage[c] = "commit" \/ txn[c] = "committing"
  PROVE  \E id \in Registry!Ids : id = UserID(c) /\ Registry!Created(c, id)
<1>1. \A d \in Calls : UserID(d)' = UserID(d)
  BY DEF Others, UserID, IdPerAttempt
<1>2. /\ Accounts = {UserID(d) : d \in {x \in Calls : commits[x] # 0}}
      /\ Accounts' = {UserID(d)' : d \in {x \in Calls : commits'[x] # 0}}
  BY AccountsOfCommits, ViewAfterStep DEF AccountsAreCommits
<1>3. \A d \in Calls : commits'[d] # 0 <=> commits[d] # 0 \/ d = c
  BY DEF Others
<1>4. Accounts' = Accounts \cup {UserID(c)}
  BY <1>1, <1>2, <1>3
<1>5. \A d \in Calls : UserID(d)[1] = d
  BY RowsOfCalls DEF AllCalls
<1>6. ASSUME NEW a \in Accounts
      PROVE  a[1] # c /\ Username[a[1]] # Username[c]
  <2>1. a[1] # c
    BY <1>2, <1>5
  <2>2. newUsers[c] # {} /\ a \in users
    BY DEF UserInv, TxRowsInv, Accounts
  <2>3. Username[a[1]] # Username[c]
    BY <2>2 DEF UserInv, NameInv, Name, AllCalls
  <2> QED
    BY <2>1, <2>3
<1>7. PICK id \in Registry!Ids : id = UserID(c)
  <2>1. attempt[c] \in 0 .. MaxAttempts(c) /\ 0 \in 0 .. MaxAttempts(c)
    BY AttemptsPositive DEF UserInv, RunnerInv, RunnerTypeOK, CallInv
  <2>2. \E n \in 0 .. MaxAttempts(c) : UserID(c) = <<c, n>>
    BY <2>1 DEF UserID
  <2> QED
    BY <2>2 DEF Registry!Ids
<1>8. Registry!Created(c, id)
  BY <1>4, <1>5, <1>6, <1>7 DEF Registry!Created, Accounts
<1> QED
  BY <1>7, <1>8

(* The reply of a call that returns, and only that one.                    *)
LEMMA EndTells ==
  ASSUME UserInv, UserInv', NEW c \in Calls, Others(c), Ends(c), NEW r, Reply(c)' = r
  PROVE  Registry!Told(c, r)
<1>1. Replies[c] = <<>>
  BY ReplyOf DEF Ends, Replies, RepliesByOutcome
<1>2. \A d \in Calls \ {c} : Reply(d)' = Reply(d)
  BY OthersStay DEF Others
<1>3. Replies' = [Replies EXCEPT ![c] = r]
  BY <1>2 DEF Replies
<1> QED
  BY <1>1, <1>3 DEF Registry!Told, Registry!NoReply, Replies

LEMMA RegistryStep ==
  ASSUME UserInv, UserInv', [UserNext]_userVars
  PROVE  [Registry!Next]_(Registry!registryVars)
<1>1. RepliesByOutcome /\ RepliesByOutcome' /\ RunnerInv
  BY ReplyOf, ViewAfterStep DEF UserInv
<1>2. CASE Undecided
  BY <1>2, UndecidedStutters DEF Registry!registryVars, Accounts, Replies
<1>3. ASSUME NEW c \in Calls, Others(c), EndsWell(c)
      PROVE  Registry!Succeed(c)
  <2>1. PICK id \in Registry!Ids : id = UserID(c) /\ Registry!Created(c, id)
    BY <1>3, CommitCreates DEF EndsWell, Ends
  <2>2. Reply(c)' = id
    <3>1. UserID(c)' = id
      BY <1>3, <2>1 DEF EndsWell, UserID, IdPerAttempt
    <3> QED
      BY <1>1, <1>3, <3>1 DEF RepliesByOutcome, EndsWell, Ends
  <2>3. Registry!Told(c, id)
    BY <1>3, <2>2, EndTells DEF EndsWell
  <2> QED
    BY <2>1, <2>3 DEF Registry!Succeed
<1>4. ASSUME NEW c \in Calls, Others(c), EndsBadly(c)
      PROVE  Registry!Fail(c) \/ Registry!Lose(c)
  <2>1. PICK r \in {<<"failed">>, <<"unknown">>} : Reply(c)' = r
    BY <1>1, <1>4 DEF RepliesByOutcome, EndsBadly, Ends, Errors
  <2>2. Registry!Told(c, r)
    BY <1>4, <2>1, EndTells DEF EndsBadly
  <2>3. /\ Accounts = {UserID(d) : d \in {x \in Calls : commits[x] # 0}}
        /\ Accounts' = {UserID(d)' : d \in {x \in Calls : commits'[x] # 0}}
    BY AccountsOfCommits, ViewAfterStep DEF AccountsAreCommits
  <2>4. /\ \A d \in Calls \ {c} : UserID(d)' = UserID(d)
        /\ \A d \in Calls : UserID(d)[1] = d
    BY <1>4, RowsOfCalls DEF Others, UserID, IdPerAttempt, AllCalls
  <2>5. \A d \in Calls : commits'[d] = commits[d]
    BY <1>4 DEF Others, EndsBadly, Ends
  <2>6. commits[c] = 0
    BY <1>4 DEF EndsBadly, Ends
  <2>7. Accounts' = Accounts /\ \A a \in Accounts : a[1] # c
    BY <2>3, <2>4, <2>5, <2>6
  <2> QED
    BY <2>1, <2>2, <2>7 DEF Registry!Fail, Registry!Lose, Registry!Failed,
      Registry!Unknown, Accounts
<1>5. ASSUME NEW c \in Calls, Others(c), CommitsLate(c)
      PROVE  Registry!CreateLate(c)
  <2>1. PICK id \in Registry!Ids : Registry!Created(c, id)
    BY <1>5, CommitCreates DEF CommitsLate
  <2>2. Reply(c) = <<"unknown">>
    BY <1>1, <1>5 DEF RepliesByOutcome, CommitsLate
  <2>3. \A d \in Calls : Reply(d)' = Reply(d)
    BY <1>5, OthersStay DEF Others, CommitsLate
  <2>4. Replies[c] = <<"unknown">> /\ Replies' = Replies
    BY <2>2, <2>3 DEF Replies
  <2> QED
    BY <2>1, <2>4, Zenon DEF Registry!CreateLate, Registry!Unknown, Replies
<1>6. \/ Undecided
      \/ \E c \in Calls : Others(c) /\ (EndsWell(c) \/ EndsBadly(c) \/ CommitsLate(c))
  BY <1>1, UserRunnerPart, Outcomes
<1> QED
  BY <1>2, <1>3, <1>4, <1>5, <1>6 DEF Registry!Next

(* Every approach to CreateUserWithProfile keeps the promise of            *)
(* UserRegistry: an account appears whole, in one step, at most one for a  *)
(* call, under a free name, and the reply says which.                      *)
THEOREM ApproachesKeepPromise == UserSpec => RegistrySpec
<1>1. UserInit => Registry!Init
  <2> SUFFICES ASSUME UserInit PROVE Registry!Init
    OBVIOUS
  <2>1. UserInv
    BY UserInitInv
  <2>2. \A c \in Calls : Reply(c) = <<>>
    BY <2>1, ReplyOf DEF RepliesByOutcome, UserInit, Init
  <2> QED
    BY <2>2 DEF UserInit, Registry!Init, Registry!NoReply
<1>2. UserInv /\ UserInv' /\ [UserNext]_userVars => [Registry!Next]_(Registry!registryVars)
  BY RegistryStep
<1> QED
  BY <1>1, <1>2, UserInvariant, PTL DEF UserSpec, RegistrySpec, Registry!Spec

(* What the registry promises, drawn from UserRegistry alone.              *)
RegistryInv ==
  /\ Accounts \subseteq Registry!Ids
  /\ \A a, b \in Accounts : a[1] = b[1] \/ Name(a) = Name(b) => a = b
  /\ \A c \in Calls :
       /\ Replies[c] = <<>> \/ Replies[c] = <<"failed">> => \A a \in Accounts : a[1] # c
       /\ \/ Replies[c] \in {<<>>, <<"failed">>, <<"unknown">>}
          \/ Replies[c] \in Accounts /\ Replies[c][1] = c

LEMMA RegistryInit == Registry!Init => RegistryInv
BY DEF Registry!Init, Registry!NoReply, RegistryInv, Accounts, Replies

LEMMA RegistryKeeps ==
  ASSUME RegistryInv, [Registry!Next]_(Registry!registryVars)
  PROVE  RegistryInv' /\ Accounts \subseteq Accounts'
<1>1. <<"unknown">> # <<>> /\ <<"unknown">> # <<"failed">>
  OBVIOUS
<1>2. CASE UNCHANGED Registry!registryVars
  BY <1>2 DEF Registry!registryVars, RegistryInv, Accounts, Replies
<1>3. ASSUME NEW c \in Calls, NEW id \in Registry!Ids, Registry!Created(c, id)
      PROVE  /\ Accounts' = Accounts \cup {id} /\ id[1] = c
             /\ \A a \in Accounts : a[1] # c /\ Name(a) # Name(id)
  BY <1>3 DEF Registry!Created, Accounts, Name
<1>4. ASSUME NEW c \in Calls, NEW r, Registry!Told(c, r)
      PROVE  /\ Replies[c] = <<>> /\ Replies'[c] = r
             /\ \A d \in Calls \ {c} : Replies'[d] = Replies[d]
  BY <1>4 DEF Registry!Told, Registry!NoReply, Replies
<1>5. ASSUME NEW c \in Calls, Registry!Succeed(c)
      PROVE  RegistryInv' /\ Accounts \subseteq Accounts'
  <2>1. PICK id \in Registry!Ids : Registry!Created(c, id) /\ Registry!Told(c, id)
    BY <1>5 DEF Registry!Succeed
  <2>2. /\ Accounts' = Accounts \cup {id} /\ id[1] = c
        /\ \A a \in Accounts : a[1] # c /\ Name(a) # Name(id)
    BY <1>3, <2>1
  <2>3. /\ Replies'[c] = id /\ id \in Accounts' /\ id # <<>> /\ id # <<"failed">>
        /\ \A d \in Calls \ {c} : Replies'[d] = Replies[d]
    BY <1>4, <2>1, <2>2 DEF Registry!Ids
  <2>4. Accounts' \subseteq Registry!Ids
    BY <2>2 DEF RegistryInv
  <2>5. \A a, b \in Accounts' : a[1] = b[1] \/ Name(a) = Name(b) => a = b
    BY <2>2 DEF RegistryInv
  <2>6. ASSUME NEW d \in Calls
        PROVE  /\ Replies'[d] = <<>> \/ Replies'[d] = <<"failed">> =>
                    \A a \in Accounts' : a[1] # d
               /\ \/ Replies'[d] \in {<<>>, <<"failed">>, <<"unknown">>}
                  \/ Replies'[d] \in Accounts' /\ Replies'[d][1] = d
    <3>1. CASE d = c
      BY <2>2, <2>3, <3>1
    <3>2. CASE d # c
      <4>1. Replies'[d] = Replies[d]
        BY <2>3, <3>2
      <4>2. /\ Replies[d] = <<>> \/ Replies[d] = <<"failed">> => \A a \in Accounts : a[1] # d
            /\ \/ Replies[d] \in {<<>>, <<"failed">>, <<"unknown">>}
               \/ Replies[d] \in Accounts /\ Replies[d][1] = d
        BY DEF RegistryInv
      <4> QED
        BY <2>2, <3>2, <4>1, <4>2
    <3> QED
      BY <3>1, <3>2
  <2> QED
    <3>1. RegistryInv'
      BY <2>4, <2>5, <2>6 DEF RegistryInv, Name
    <3> QED
      BY <2>2, <3>1
<1>6. ASSUME NEW c \in Calls, Registry!Fail(c) \/ Registry!Lose(c)
      PROVE  RegistryInv' /\ Accounts \subseteq Accounts'
  <2>1. Accounts' = Accounts /\ \A a \in Accounts : a[1] # c
    BY <1>6 DEF Registry!Fail, Registry!Lose, Accounts
  <2>2. PICK r \in {<<"failed">>, <<"unknown">>} : Registry!Told(c, r)
    BY <1>6 DEF Registry!Fail, Registry!Lose, Registry!Failed, Registry!Unknown
  <2>3. Replies'[c] = r /\ \A d \in Calls \ {c} : Replies'[d] = Replies[d]
    BY <1>4, <2>2
  <2> QED
    BY <2>1, <2>3 DEF RegistryInv, Name
<1>7. ASSUME NEW c \in Calls, Registry!CreateLate(c)
      PROVE  RegistryInv' /\ Accounts \subseteq Accounts'
  <2>1. PICK id \in Registry!Ids : Registry!Created(c, id)
    BY <1>7 DEF Registry!CreateLate
  <2>2. /\ Accounts' = Accounts \cup {id} /\ id[1] = c
        /\ \A a \in Accounts : a[1] # c /\ Name(a) # Name(id)
    BY <1>3, <2>1
  <2>3. Replies[c] = <<"unknown">> /\ Replies' = Replies
    BY <1>7 DEF Registry!CreateLate, Registry!Unknown, Replies
  <2> QED
    BY <1>1, <2>2, <2>3 DEF RegistryInv, Name
<1> QED
  BY <1>2, <1>5, <1>6, <1>7 DEF Registry!Next

(* Every approach inherits what the registry promises: no two accounts     *)
(* share a username or a call, an account is never taken back, an id that  *)
(* was returned is the account of its call, and one that was told of a     *)
(* failure, or nothing yet, has none.                                      *)
THEOREM AccountsAreUnique ==
  UserSpec => []RegistryInv /\ [][Accounts \subseteq Accounts']_Accounts
<1>1. Registry!Init => RegistryInv
  BY RegistryInit
<1>2. RegistryInv /\ [Registry!Next]_(Registry!registryVars) => RegistryInv'
  BY RegistryKeeps
<1>3. RegistryInv /\ [Registry!Next]_(Registry!registryVars) => [Accounts \subseteq Accounts']_Accounts
  BY RegistryKeeps
<1> QED
  BY <1>1, <1>2, <1>3, ApproachesKeepPromise, PTL DEF RegistrySpec, Registry!Spec

-----------------------------------------------------------------------------
(* The calls' work runs out, and until it has, one of them can go on. *)

(* What a call still has to do: a transactional call's attempts and the    *)
(* statements of the current one, a plain call's statements, each with its *)
(* connection, and what a lost one leaves to the server.                   *)
StatementsLeft(s) == CASE s = "users" -> 2 [] s = "profiles" -> 1 [] OTHER -> 0

PlainLeft(c) ==
  CASE step[c] = "idle" -> 6
    [] step[c] = "users" -> IF c \in stmtHolds THEN 4 ELSE 5
    [] step[c] = "profiles" -> IF c \in stmtHolds THEN 2 ELSE 3
    [] OTHER -> IF newUsers[c] \cup newProfiles[c] # {} THEN 1 ELSE 0

UserWork(c) ==
  IF c \in Calls THEN 3 * Work(c) + StatementsLeft(step[c]) ELSE PlainLeft(c)

UserAdvances(c) ==
  /\ UserWork(c)' < UserWork(c)
  /\ \A d \in AllCalls \ {c} : UserWork(d)' = UserWork(d)

LEMMA LeftOfStep ==
  /\ \A s \in Steps : StatementsLeft(s) \in 0..2
  /\ StatementsLeft("users") = 2 /\ StatementsLeft("profiles") = 1
  /\ StatementsLeft("done") = 0
BY DEF StatementsLeft, Steps

(* Every step of a call in the runner is one of its steps here.            *)
LEMMA TxStepOf ==
  ASSUME NEW c \in Calls, TxNext(c)
  PROVE  StepOf(c)
<1>1. "refused" \in Errors
  BY DEF Errors, Definite
<1>2. ASSUME NEW e \in Errors,
             \/ TxBeginFails(c, e) \/ TxStatementFails(c, e) \/ TxInsertRefused(c)
             \/ TxCommitRefused(c, e) \/ TxCommitUnanswered(c, e)
      PROVE  StepOf(c)
  BY <1>1, <1>2 DEF TxBeginFails, TxStatementFails, TxInsertRefused, TxCommitRefused,
    TxCommitUnanswered, StepOf
<1> QED
  BY <1>1, <1>2 DEF TxNext, TxStart, TxBegin, TxServiceReturns, TxCommit, TxCancel,
    TxServerAborts, TxServerCommits, StepOf

(* What a step of call c does outside the runner: it moves c only.         *)
OnlyStepAt(c) ==
  /\ UNCHANGED step \/ \E s \in Steps : step' = [step EXCEPT ![c] = s]
  /\ \A d \in AllCalls \ {c} :
       /\ newUsers'[d] = newUsers[d] /\ newProfiles'[d] = newProfiles[d]
       /\ d \in stmtHolds' <=> d \in stmtHolds

LEMMA TxStepIsLocal ==
  ASSUME UserInv, NEW c \in Calls, TxNext(c)
  PROVE  OnlyStepAt(c)
<1>1. UserTypeOK /\ c \in AllCalls /\ "users" \in Steps /\ "idle" \in Steps
  BY DEF UserInv, AllCalls, Steps
<1>2. UNCHANGED step \/ \E s \in Steps : step' = [step EXCEPT ![c] = s]
  BY <1>1 DEF TxNext, TxStart, TxBegin, TxServiceReturns, TxInsertRefused, TxCommit,
    TxCancel, TxServerAborts, TxServerCommits, TxBeginFails, TxStatementFails,
    TxCommitRefused, TxCommitUnanswered, SetStep
<1>3. stmtHolds' = stmtHolds \/ stmtHolds' = stmtHolds \ {c}
  BY DEF TxNext, TxStart, TxBegin, TxServiceReturns, TxInsertRefused, TxCommit,
    TxCancel, TxServerAborts, TxServerCommits, TxBeginFails, TxStatementFails,
    TxCommitRefused, TxCommitUnanswered, StatementDone
<1>4. UNCHANGED tableVars \/ DropRows(c) \/ CommitRows(c)
  BY DEF TxNext, TxStart, TxBegin, TxServiceReturns, TxInsertRefused, TxCommit,
    TxCancel, TxServerAborts, TxServerCommits, TxBeginFails, TxStatementFails,
    TxCommitRefused, TxCommitUnanswered, KeepRows
<1>5. ASSUME NEW d \in AllCalls \ {c}
      PROVE  newUsers'[d] = newUsers[d] /\ newProfiles'[d] = newProfiles[d]
  BY <1>1, <1>4 DEF DropRows, CommitRows, tableVars, UserTypeOK
<1> QED
  BY <1>2, <1>3, <1>5 DEF OnlyStepAt

LEMMA OthersKeepUserWork ==
  ASSUME UserInv, NEW c \in AllCalls, OnlyStepAt(c),
         \A d \in Calls \ {c} : Work(d)' = Work(d)
  PROVE  \A d \in AllCalls \ {c} : UserWork(d)' = UserWork(d)
<1> SUFFICES ASSUME NEW d \in AllCalls, d # c PROVE UserWork(d)' = UserWork(d)
  OBVIOUS
<1>1. /\ step'[d] = step[d] /\ (d \in stmtHolds' <=> d \in stmtHolds)
      /\ newUsers'[d] = newUsers[d] /\ newProfiles'[d] = newProfiles[d]
  BY DEF OnlyStepAt, UserInv, UserTypeOK
<1>2. PlainLeft(d)' = PlainLeft(d)
  BY <1>1 DEF PlainLeft
<1>3. StatementsLeft(step[d])' = StatementsLeft(step[d])
  BY <1>1
<1> QED
  BY <1>2, <1>3 DEF UserWork

LEMMA TxAdvances ==
  ASSUME UserInv, UserInv', NEW c \in Calls, TxNext(c)
  PROVE  UserAdvances(c)
<1>1. RunnerInv /\ RunnerInv' /\ UserTypeOK /\ UserTypeOK' /\ c \in AllCalls
  BY DEF UserInv, AllCalls
<1>2. Advances(c) /\ OnlyStepAt(c)
  BY <1>1, TxStepOf, StepAdvances, TxStepIsLocal
<1>3. Work(c) \in Nat /\ Work(c)' \in Nat /\ Work(c)' < Work(c)
  BY <1>1, <1>2, WorkType, WorkAfterStep DEF WorksOK, Advances
<1>4. StatementsLeft(step[c]) \in 0..2 /\ StatementsLeft(step'[c]) \in 0..2
  BY <1>1, LeftOfStep DEF UserTypeOK
<1>5. UserWork(c)' < UserWork(c)
  BY <1>3, <1>4 DEF UserWork
<1> QED
  BY <1>1, <1>2, <1>5, OthersKeepUserWork DEF Advances, UserAdvances

(* A step outside the runner leaves what the runner has to do as it was.   *)
LEMMA RunnerWorkStays ==
  ASSUME UNCHANGED runnerVars
  PROVE  \A d \in Calls : Work(d)' = Work(d)
BY DEF runnerVars, Work, Rank, Unsettled, MaxAttempts

LEMMA TxStatementAdvances ==
  ASSUME UserInv, NEW c \in Calls, TakeConn(c) \/ InsertUser(c) \/ InsertProfile(c)
  PROVE  UserAdvances(c)
<1>1. /\ RunnerInv /\ UserTypeOK /\ c \in AllCalls /\ TxRowsInv(c)
      /\ "profiles" \in Steps /\ "done" \in Steps
  BY DEF UserInv, AllCalls, Steps
<1>2. ~TakeConn(c)
  BY <1>1, Executors DEF TakeConn, WaitsForConn, TxRowsInv
<1>3. /\ UNCHANGED runnerVars /\ stmtHolds' = stmtHolds \ {c}
      /\ \/ step[c] = "users" /\ step' = [step EXCEPT ![c] = "profiles"]
         \/ step[c] = "profiles" /\ step' = [step EXCEPT ![c] = "done"]
      /\ \A d \in AllCalls \ {c} :
           newUsers'[d] = newUsers[d] /\ newProfiles'[d] = newProfiles[d]
  BY <1>1, <1>2 DEF InsertUser, InsertProfile, Executing, SetStep, StatementDone, UserTypeOK
<1>4. OnlyStepAt(c)
  BY <1>1, <1>3 DEF OnlyStepAt
<1>5. \A d \in Calls : Work(d)' = Work(d) /\ Work(d) \in Nat
  BY <1>1, <1>3, RunnerWorkStays, WorkType DEF WorksOK
<1>6. StatementsLeft(step[c]) \in 0..2 /\ StatementsLeft(step'[c]) \in 0..2
      /\ StatementsLeft(step'[c]) < StatementsLeft(step[c])
  BY <1>1, <1>3, LeftOfStep DEF UserTypeOK
<1> QED
  BY <1>1, <1>4, <1>5, <1>6, OthersKeepUserWork DEF UserWork, UserAdvances

LEMMA PlainAdvances ==
  ASSUME UserInv, NEW c \in PlainCalls,
         PlainNext(c) \/ TakeConn(c) \/ InsertUser(c) \/ InsertProfile(c)
  PROVE  UserAdvances(c)
<1>1. /\ RunnerInv /\ UserTypeOK /\ c \in AllCalls /\ c \notin Calls
      /\ Executor(c) = "pool" /\ PlainRowsInv(c)
  BY Executors DEF UserInv, AllCalls
<1>2. UNCHANGED runnerVars
  BY DEF PlainNext, PlainStart, PlainRefused, PlainLost, PlainSettles, TakeConn, InsertUser,
    InsertProfile
<1>3. \A s \in {"users", "profiles", "done", "failed"} : s \in Steps
  BY DEF Steps
<1>4. OnlyStepAt(c) /\ PlainLeft(c)' < PlainLeft(c)
  <2>1. CASE PlainStart(c)
    <3>1. /\ step[c] = "idle" /\ step' = [step EXCEPT ![c] = "users"] /\ step'[c] = "users"
          /\ UNCHANGED <<newUsers, newProfiles, stmtHolds>>
      BY <1>1, <2>1 DEF PlainStart, SetStep, UserTypeOK, tableVars
    <3>2. OnlyStepAt(c)
      BY <1>3, <3>1 DEF OnlyStepAt
    <3>3. PlainLeft(c)' < PlainLeft(c)
      BY <3>1 DEF PlainLeft
    <3> QED
      BY <3>2, <3>3
  <2>2. CASE TakeConn(c)
    <3>1. /\ step[c] \in {"users", "profiles"} /\ c \notin stmtHolds
          /\ stmtHolds' = stmtHolds \cup {c} /\ UNCHANGED <<step, newUsers, newProfiles>>
      BY <2>2 DEF TakeConn, WaitsForConn, tableVars
    <3> QED
      BY <3>1 DEF OnlyStepAt, PlainLeft
  <2>3. CASE InsertUser(c) \/ InsertProfile(c)
    <3>1. /\ \/ step[c] = "users" /\ step' = [step EXCEPT ![c] = "profiles"]
             \/ step[c] = "profiles" /\ step' = [step EXCEPT ![c] = "done"]
          /\ c \in stmtHolds /\ stmtHolds' = stmtHolds \ {c}
          /\ UNCHANGED <<newUsers, newProfiles>>
      BY <1>1, <2>3 DEF InsertUser, InsertProfile, Executing, SetStep, StatementDone
    <3>2. \/ step[c] = "users" /\ step'[c] = "profiles"
          \/ step[c] = "profiles" /\ step'[c] = "done"
      BY <1>1, <3>1 DEF UserTypeOK
    <3>3. newUsers'[c] \cup newProfiles'[c] = {}
      BY <1>1, <3>1 DEF PlainRowsInv
    <3> QED
      BY <1>3, <3>1, <3>2, <3>3 DEF OnlyStepAt, PlainLeft
  <2>4. CASE PlainRefused(c)
    <3>1. /\ step[c] \in {"users", "profiles"} /\ step' = [step EXCEPT ![c] = "failed"]
          /\ step'[c] = "failed" /\ stmtHolds' = stmtHolds \ {c}
          /\ UNCHANGED <<newUsers, newProfiles>>
      BY <1>1, <2>4 DEF PlainRefused, SetStep, StatementDone, UserTypeOK, tableVars
    <3>2. OnlyStepAt(c)
      BY <1>3, <3>1 DEF OnlyStepAt
    <3>3. PlainLeft(c)' < PlainLeft(c)
      BY <3>1 DEF PlainLeft
    <3> QED
      BY <3>2, <3>3
  <2>5. CASE PlainLost(c)
    <3>1. /\ step[c] \in {"users", "profiles"} /\ step' = [step EXCEPT ![c] = "failed"]
          /\ step'[c] = "failed" /\ stmtHolds' = stmtHolds \ {c}
          /\ \A d \in AllCalls \ {c} :
               newUsers'[d] = newUsers[d] /\ newProfiles'[d] = newProfiles[d]
      BY <1>1, <2>5 DEF PlainLost, Executing, SetStep, StatementDone, UserTypeOK
    <3>2. OnlyStepAt(c)
      BY <1>3, <3>1 DEF OnlyStepAt
    <3>3. PlainLeft(c)' < PlainLeft(c)
      BY <3>1 DEF PlainLeft
    <3> QED
      BY <3>2, <3>3
  <2>6. CASE PlainSettles(c)
    <3>1. /\ newUsers[c] \cup newProfiles[c] # {} /\ UNCHANGED <<step, stmtHolds>>
          /\ newUsers'[c] = {} /\ newProfiles'[c] = {}
          /\ \A d \in AllCalls \ {c} :
               newUsers'[d] = newUsers[d] /\ newProfiles'[d] = newProfiles[d]
      BY <1>1, <2>6 DEF PlainSettles, CommitRows, DropRows, UserTypeOK
    <3>2. step[c] = "failed"
      BY <1>1, <3>1 DEF PlainRowsInv
    <3> QED
      BY <3>1, <3>2 DEF OnlyStepAt, PlainLeft
  <2> QED
    BY <2>1, <2>2, <2>3, <2>4, <2>5, <2>6 DEF PlainNext
<1>5. UserWork(c)' < UserWork(c)
  BY <1>1, <1>4 DEF UserWork
<1> QED
  BY <1>1, <1>2, <1>4, <1>5, RunnerWorkStays, OthersKeepUserWork DEF UserAdvances

LEMMA UserWorkBound ==
  UserInv => /\ \A c \in Calls : UserWork(c) \in 0..(45 * MaxAttempts(c) + 50)
             /\ \A c \in PlainCalls : UserWork(c) \in 0..6
<1> SUFFICES ASSUME UserInv
             PROVE  /\ \A c \in Calls : UserWork(c) \in 0..(45 * MaxAttempts(c) + 50)
                    /\ \A c \in PlainCalls : UserWork(c) \in 0..6
  OBVIOUS
<1>1. ASSUME NEW c \in Calls
      PROVE  UserWork(c) \in 0..(45 * MaxAttempts(c) + 50)
  <2>1. Work(c) \in 0..(15 * MaxAttempts(c) + 16) /\ MaxAttempts(c) \in Nat
    BY WorkBound, AttemptsPositive DEF UserInv
  <2>2. StatementsLeft(step[c]) \in 0..2
    BY LeftOfStep DEF UserInv, UserTypeOK, AllCalls
  <2> QED
    BY <2>1, <2>2 DEF UserWork
<1>2. ASSUME NEW c \in PlainCalls
      PROVE  UserWork(c) \in 0..6
  BY <1>2, Executors DEF UserWork, PlainLeft
<1> QED
  BY <1>1, <1>2

(* Every step of every approach and of the bare service leaves its call    *)
(* less to do and the others what they had: retries, lost connections and  *)
(* statements that outlive their client can not keep the program going.    *)
THEOREM UserStepsRunOut ==
  UserSpec =>
    /\ [](/\ \A c \in Calls : UserWork(c) \in 0..(45 * MaxAttempts(c) + 50)
          /\ \A c \in PlainCalls : UserWork(c) \in 0..6)
    /\ [][\E c \in AllCalls : UserAdvances(c)]_userVars
<1>1. ASSUME UserInv, UserInv', [UserNext]_userVars
      PROVE  [\E c \in AllCalls : UserAdvances(c)]_userVars
  BY <1>1, TxAdvances, TxStatementAdvances, PlainAdvances DEF UserNext, AllCalls
<1> QED
  BY <1>1, UserWorkBound, UserInvariant, PTL DEF UserSpec

Started(c) ==
  IF c \in Calls THEN stage[c] \notin {"idle", "returned"}
                 ELSE step[c] \in {"users", "profiles"}

(* The guards of what the call itself, or the server for it, does next.    *)
StatementReady(c) ==
  /\ Executor(c) = "tx" \/ c \in stmtHolds
  /\ \/ step[c] = "users" /\ ~NameLocked(c)
     \/ step[c] = "profiles" /\ UserID(c) \in users \cup newUsers[c]

Ready(c) ==
  \/ c \in Calls /\ stage[c] = "acquire" /\ (c \in canceled \/ InUse < MaxConns)
  \/ c \in Calls /\ stage[c] = "body" /\ (c \in canceled \/ step[c] = "done")
  \/ c \in Calls /\ stage[c] \in {"commit", "sleep"}
  \/ (c \in Calls => stage[c] = "body") /\ StatementReady(c)
  \/ WaitsForConn(c) /\ InUse < MaxConns

ServerReady(c) ==
  \/ c \in Calls /\ Unsettled(c)
  \/ c \in PlainCalls /\ newUsers[c] \cup newProfiles[c] # {}

(* The calls whose uncommitted row keeps call c from its username.         *)
Lockers(c) ==
  {d \in AllCalls \ {c} : \E id \in newUsers[d] : Name(id) = Username[c]}

WaitsForName(c) ==
  /\ step[c] = "users" /\ Lockers(c) # {} /\ (Executor(c) = "tx" \/ c \in stmtHolds)
  /\ \A d \in Lockers(c) : Ready(d) \/ ServerReady(d)

WaitsForPool ==
  /\ InUse = MaxConns
  /\ \A d \in holds \cup stmtHolds : Ready(d) \/ WaitsForName(d)

(* A call that has begun can go on, or waits for a name whose holder can,  *)
(* or for a full pool whose connections are all with calls of these kinds. *)
NoCircularWait ==
  \A c \in AllCalls :
    Started(c) => Ready(c) \/ WaitsForName(c) \/ WaitsForPool

(* What keeps a username locked can be ended at once, by its call or by    *)
(* the server.                                                             *)
LEMMA LockersMoveOn ==
  ASSUME UserInv, NEW d \in AllCalls, newUsers[d] # {}
  PROVE  Ready(d) \/ ServerReady(d)
<1>1. CASE d \in PlainCalls
  BY <1>1 DEF ServerReady
<1>2. CASE d \in Calls
  <2>1. TxRowsInv(d) /\ CallInv(d) /\ RunnerTypeOK
    BY <1>2 DEF UserInv, RunnerInv
  <2>2. CASE stage[d] = "body"
    <3>1. Executor(d) = "tx" /\ step[d] \in {"profiles", "done"}
      BY <1>2, <2>1, <2>2, Executors DEF TxRowsInv
    <3>2. UserID(d) \in newUsers[d]
      BY <2>1 DEF TxRowsInv
    <3> QED
      BY <1>2, <2>2, <3>1, <3>2 DEF Ready, StatementReady
  <2>3. CASE stage[d] = "commit"
    BY <1>2, <2>3 DEF Ready
  <2>4. CASE stage[d] \notin {"body", "commit"}
    <3>1. txn[d] # "none" /\ stage[d] = "returned"
      BY <1>2, <2>1, <2>4 DEF TxRowsInv, CallInv, RunnerTypeOK, Stages
    <3>2. Unsettled(d)
      BY <1>2, <2>1, <3>1 DEF CallInv, Settled, RunnerTypeOK, Errors, Unsettled
    <3> QED
      BY <1>2, <3>2 DEF ServerReady
  <2> QED
    BY <2>2, <2>3, <2>4
<1> QED
  BY <1>1, <1>2 DEF AllCalls

(* A connection taken for a statement goes back with it.                   *)
StatementsHold == \A c \in stmtHolds : step[c] \in {"users", "profiles"}

LEMMA HoldStep ==
  ASSUME UserInv, StatementsHold, [UserNext]_userVars
  PROVE  StatementsHold'
<1>1. UserTypeOK /\ stmtHolds \subseteq PlainCalls /\ PlainCalls \cap Calls = {}
      /\ PlainCalls \subseteq AllCalls
  BY UserAssumption DEF UserInv, PoolInv, UserAssumption, AllCalls
<1>2. CASE UNCHANGED userVars
  BY <1>2 DEF userVars, StatementsHold
<1>3. ASSUME NEW c \in Calls, TxNext(c)
      PROVE  StatementsHold'
  <2>1. OnlyStepAt(c)
    BY <1>3, TxStepIsLocal
  <2>2. stmtHolds' \subseteq stmtHolds
    BY <1>3 DEF TxNext, TxStart, TxBegin, TxServiceReturns, TxInsertRefused, TxCommit,
      TxCancel, TxServerAborts, TxServerCommits, TxBeginFails, TxStatementFails,
      TxCommitRefused, TxCommitUnanswered, StatementDone
  <2>3. \A d \in stmtHolds : step'[d] = step[d]
    BY <1>1, <1>3, <2>1 DEF OnlyStepAt, UserTypeOK
  <2> QED
    BY <2>2, <2>3 DEF StatementsHold
<1>4. ASSUME NEW c \in AllCalls,
             TakeConn(c) \/ InsertUser(c) \/ InsertProfile(c) \/ PlainRefused(c) \/ PlainLost(c)
      PROVE  StatementsHold'
  <2>1. \A d \in stmtHolds' \ {c} : d \in stmtHolds /\ step'[d] = step[d]
    BY <1>1, <1>4 DEF TakeConn, InsertUser, InsertProfile, PlainRefused, PlainLost, SetStep,
      StatementDone, UserTypeOK
  <2>2. c \in stmtHolds' => step'[c] \in {"users", "profiles"}
    BY <1>1, <1>4 DEF TakeConn, WaitsForConn, InsertUser, InsertProfile, PlainRefused,
      PlainLost, SetStep, StatementDone, UserTypeOK
  <2> QED
    BY <2>1, <2>2 DEF StatementsHold
<1>5. ASSUME NEW c \in PlainCalls, PlainStart(c) \/ PlainSettles(c)
      PROVE  StatementsHold'
  BY <1>1, <1>5 DEF PlainStart, PlainSettles, SetStep, UserTypeOK, StatementsHold
<1> QED
  BY <1>1, <1>2, <1>3, <1>4, <1>5 DEF UserNext, PlainNext

(* A call that has its connection goes on, or waits for its username.      *)
LEMMA HoldersMoveOn ==
  ASSUME UserInv, NEW c \in holds \cup stmtHolds, Started(c)
  PROVE  Ready(c) \/ WaitsForName(c)
<1>1. c \in AllCalls /\ (c \in stmtHolds => c \in PlainCalls)
  BY DEF UserInv, UserTypeOK, RunnerTypeOK, PoolInv, AllCalls
<1>2. \A d \in Lockers(c) : Ready(d) \/ ServerReady(d)
  BY LockersMoveOn DEF Lockers
<1>3. NameLocked(c) => Lockers(c) # {}
  BY DEF NameLocked, Lockers
<1>4. CASE c \in holds
  <2>1. c \in Calls /\ stage[c] \in {"body", "commit"} /\ TxRowsInv(c)
    BY <1>4 DEF UserInv, RunnerInv, RunnerTypeOK, PoolDiscipline
  <2>2. CASE stage[c] = "commit"
    BY <2>1, <2>2 DEF Ready
  <2>3. CASE stage[c] = "body"
    <3>1. Executor(c) = "tx" /\ step[c] \in {"users", "profiles", "done"}
      BY <2>1, <2>3, Executors DEF TxRowsInv
    <3>2. step[c] = "profiles" => UserID(c) \in newUsers[c]
      BY <2>1, <2>3 DEF TxRowsInv
    <3> QED
      BY <1>2, <1>3, <2>1, <2>3, <3>1, <3>2 DEF Ready, StatementReady, WaitsForName
  <2> QED
    BY <2>1, <2>2, <2>3
<1>5. CASE c \in stmtHolds
  <2>1. c \in PlainCalls /\ c \notin Calls /\ PlainRowsInv(c) /\ step[c] \in {"users", "profiles"}
    BY <1>1, <1>5, Executors DEF UserInv, Started
  <2>2. step[c] = "profiles" => UserID(c) \in users
    BY <2>1 DEF PlainRowsInv, Of
  <2> QED
    BY <1>2, <1>3, <1>5, <2>1, <2>2 DEF Ready, StatementReady, WaitsForName
<1> QED
  BY <1>4, <1>5

(* Pool and unique index together never tie calls in a knot: with a full   *)
(* pool, wait chains have length two at most, over a connection and a      *)
(* username, and end at a call or a server that can go on.                 *)
THEOREM NoCallWaitsInACircle == UserSpec => []NoCircularWait
<1>1. UserInv /\ StatementsHold => NoCircularWait
  <2> SUFFICES ASSUME UserInv, StatementsHold, NEW c \in AllCalls, Started(c), ~Ready(c), ~WaitsForName(c)
               PROVE  WaitsForPool
    BY DEF NoCircularWait
  <2>1. c \notin holds \cup stmtHolds
    BY HoldersMoveOn
  <2>2. InUse <= MaxConns /\ ~(InUse < MaxConns)
    <3>1. CASE c \in Calls
      <4>1. stage[c] \in Stages /\ stage[c] \notin {"body", "commit"}
        BY <2>1, <3>1 DEF UserInv, RunnerInv, RunnerTypeOK, PoolDiscipline
      <4> QED
        BY <3>1, <4>1 DEF Stages, Started, Ready, UserInv, PoolInv
    <3>2. CASE c \in PlainCalls
      BY <2>1, <3>2, Executors DEF Started, WaitsForConn, Ready, UserInv, PoolInv
    <3> QED
      BY <3>1, <3>2 DEF AllCalls
  <2>3. InUse = MaxConns
    <3>1. /\ Cardinality(holds) \in Nat /\ Cardinality(stmtHolds) \in Nat
      BY PoolCounts
    <3> QED
      BY <2>2, <3>1, RunnerAssumption DEF RunnerAssumption, InUse
  <2>4. ASSUME NEW d \in holds \cup stmtHolds
        PROVE  Started(d)
    <3>1. CASE d \in holds
      BY <3>1 DEF UserInv, RunnerInv, RunnerTypeOK, PoolDiscipline, Started
    <3>2. CASE d \in stmtHolds
      BY <3>2, UserAssumption DEF UserInv, PoolInv, UserAssumption, StatementsHold, Started
    <3> QED
      BY <3>1, <3>2
  <2> QED
    BY <2>3, <2>4, HoldersMoveOn DEF WaitsForPool
<1>2. UserInit => StatementsHold
  BY DEF UserInit, StatementsHold
<1>3. UserInv /\ StatementsHold /\ [UserNext]_userVars => StatementsHold'
  BY HoldStep
<1> QED
  BY <1>1, <1>2, <1>3, UserInvariant, PTL DEF UserSpec
=============================================================================
