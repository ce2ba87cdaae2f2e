---------------------------- MODULE BioRegister ----------------------------
(***************************************************************************)
(* What GET and PATCH /users/{id} promise their clients: each user that    *)
(* exists has a bio, and a request acts on it at one moment, as if alone.  *)
(* A 200 shows what that moment left; a 500 leaves open whether it comes.  *)
(***************************************************************************)
CONSTANTS
  Requests,
  Users,  \* ids a path may name
  Stored, \* those of existing users
  Shown   \* what a bio may be shown as

VARIABLES
  bios,  \* the bio of every user that exists
  asked, \* what each client asked for
  seen,  \* the bio at the moment each request acted
  told   \* the response

registerVars == <<bios, asked, seen, told>>

Unasked == [op |-> "unasked"]
NotYet == <<>>
NoReply == <<"no reply">>

Reads == [op : {"read"}, user : Users]
Writes == [op : {"write"}, user : Users, bio : Shown]
Others == [op : {"nothing", "malformed"}, user : Users]

Init ==
  /\ bios \in [Stored -> Shown]
  /\ asked = [r \in Requests |-> Unasked]
  /\ seen = [r \in Requests |-> NotYet]
  /\ told = [r \in Requests |-> NoReply]

Ask(r) ==
  /\ asked[r] = Unasked /\ told[r] = NoReply
  /\ \E a \in Reads \cup Writes \cup Others : asked' = [asked EXCEPT ![r] = a]
  /\ UNCHANGED <<bios, seen, told>>

(* The request acts, once, on a user that exists. *)
Act(r) ==
  LET u == asked[r].user IN
  /\ asked[r] \in Reads \cup Writes
  /\ u \in Stored /\ seen[r] = NotYet
  /\ bios' = IF asked[r] \in Writes THEN [bios EXCEPT ![u] = asked[r].bio] ELSE bios
  /\ seen' = [seen EXCEPT ![r] = <<bios'[u]>>]
  /\ UNCHANGED <<asked, told>>

Tell(r, status, body) ==
  /\ told[r] = NoReply
  /\ told' = [told EXCEPT ![r] = <<status, body>>]
  /\ UNCHANGED <<bios, asked, seen>>

Show(r) == \E b \in Shown : seen[r] = <<b>> /\ Tell(r, 200, b)

NothingAsked(r) ==
  asked[r].op = "nothing" /\ Tell(r, 204, "empty")

Refuse(r) ==
  /\ asked[r].op \in {"unasked", "malformed"}
  /\ Tell(r, 400, "error")

Fail(r) == asked[r] \in Reads \cup Writes /\ Tell(r, 500, "error")

Next ==
  \E r \in Requests :
    Ask(r) \/ Act(r) \/ Show(r) \/ NothingAsked(r) \/ Refuse(r) \/ Fail(r)

Spec == Init /\ [][Next]_registerVars
=============================================================================
