---------------------------- MODULE UserRegistry ----------------------------
(***************************************************************************)
(* What CreateUserWithProfile promises its callers, whichever approach     *)
(* implements it: an account (a user and its profile) appears in one step  *)
(* or not at all, at most one per call, and the reply says which, except   *)
(* that a broken connection leaves the outcome open until later.           *)
(***************************************************************************)
CONSTANTS
  Calls,    \* calls of CreateUserWithProfile
  Username, \* the username each call asks for
  Draws     \* how the ids a call draws are told apart

VARIABLES
  accounts, \* ids <<call, n>> of the accounts that exist
  reply     \* what each call was told: an id, Failed or Unknown

NoReply == <<>>
Failed == <<"failed">>
Unknown == <<"unknown">>

Ids == Calls \X Draws

registryVars == <<accounts, reply>>

Init ==
  /\ accounts = {}
  /\ reply = [c \in Calls |-> NoReply]

Created(c, id) ==
  /\ id[1] = c
  /\ \A a \in accounts : a[1] # c /\ Username[a[1]] # Username[c]
  /\ accounts' = accounts \cup {id}

Told(c, r) ==
  /\ reply[c] = NoReply
  /\ reply' = [reply EXCEPT ![c] = r]

Succeed(c) == \E id \in Ids : Created(c, id) /\ Told(c, id)

Fail(c) ==
  /\ \A a \in accounts : a[1] # c
  /\ Told(c, Failed)
  /\ UNCHANGED accounts

Lose(c) ==
  /\ \A a \in accounts : a[1] # c
  /\ Told(c, Unknown)
  /\ UNCHANGED accounts

(* The lost COMMIT takes effect after all. *)
CreateLate(c) ==
  /\ reply[c] = Unknown
  /\ \E id \in Ids : Created(c, id)
  /\ UNCHANGED reply

Next == \E c \in Calls : Succeed(c) \/ Fail(c) \/ Lose(c) \/ CreateLate(c)

Spec == Init /\ [][Next]_registryVars
=============================================================================
