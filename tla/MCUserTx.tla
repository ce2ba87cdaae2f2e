------------------------------ MODULE MCUserTx ------------------------------
EXTENDS UserTx, TLC

CONSTANTS c1, c2, c3, c4, c5, p1, nil

(* One call by each approach of main.go, and one plain call.  Those that   *)
(* draw an id per attempt and may be given a TxConfig have two attempts.   *)
MCCalls == {c1, c2, c3, c4, c5}
MCPlain == {p1}

MCApproach ==
  (c1 :> "tx_in_ctx") @@ (c2 :> "tx_manager") @@ (c3 :> "unit_of_work")
    @@ (c4 :> "pgx_transactional") @@ (c5 :> "uow_service")
MCAttempts == (c2 :> 2) @@ (c5 :> 2) @@ [c \in MCCalls |-> 1]
NoBackoff == [c \in Calls |-> 0]

(* One username for all the calls, so that they lock one another's rows.   *)
OneName == [c \in AllCalls |-> "ann"]

(* Pairs: the context executor against itself and against bound            *)
(* repositories, and each kind of captured id against another.             *)
MCTogether == {{c1, c2}, {c2, c3}, {c3, c5}, {c4, c5}, {c1, c4}}
=============================================================================
