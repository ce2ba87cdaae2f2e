----------------------------- MODULE PatchUser -----------------------------
(***************************************************************************)
(* optional/: GET and PATCH /users/{id}, where the bio of a PATCH document *)
(* may be missing, null or a value, and each means something else.  A      *)
(* document is the sequence of its "bio" members: encoding/json gives each *)
(* of them in turn to UnmarshalJSON.  A statement runs on the server and   *)
(* then is answered, or its answer is lost, and one whose handler has      *)
(* given up may run yet.  Requests run side by side.                       *)
(***************************************************************************)
EXTENDS Naturals, Sequences

CONSTANTS
  Requests,
  Users,     \* ids a path may name
  Stored,    \* those that have a row
  Bios,      \* bios a client may send
  MaxMembers \* the most "bio" members of a document

NoRow == "no row"

(* What stands for a column that is NULL, a JSON null, a member that is no *)
(* string and an absent row is no bio. *)
ASSUME PatchAssumption ==
  /\ Stored \subseteq Users /\ MaxMembers \in Nat
  /\ Bios \cap {"NULL", "null", "invalid", NoRow} = {}

VARIABLES
  bio,     \* the users table: a bio or "NULL"
  request, \* what each client sent
  command, \* the Optional that its handler decodes
  decoded, \* the number of members decoded so far
  phase,   \* "none", "decoding", "query", "executed" or "answered"
  row,     \* the row its statement returned
  reply,   \* the response
  orphans  \* requests whose UPDATE the server may run yet, with nobody waiting

patchVars == <<bio, request, command, decoded, phase, row, reply, orphans>>

Documents == UNION {[1 .. n -> Bios \cup {"null", "invalid"}] : n \in 0 .. MaxMembers}

Unset == [set |-> FALSE, null |-> FALSE, value |-> "zero"]
Null == [set |-> TRUE, null |-> TRUE, value |-> "zero"]
Value(v) == [set |-> TRUE, null |-> FALSE, value |-> v]

NoRequest == [method |-> "none"]
NoReply == <<"no reply">>

PatchInit ==
  /\ bio \in [Stored -> Bios]
  /\ request = [r \in Requests |-> NoRequest]
  /\ command = [r \in Requests |-> Unset]
  /\ decoded = [r \in Requests |-> 0]
  /\ phase = [r \in Requests |-> "none"]
  /\ row = [r \in Requests |-> NoRow]
  /\ reply = [r \in Requests |-> NoReply]
  /\ orphans = {}

-----------------------------------------------------------------------------
(* Decoding. *)

(* Mutant: a value leaves the null of an earlier member standing. *)
UnmarshalOver(o, member) ==
  IF member = "null" THEN [o EXCEPT !.set = TRUE, !.null = TRUE]
  ELSE [o EXCEPT !.set = TRUE, !.value = member]

UnmarshalJSON(o, member) == IF member = "null" THEN Null ELSE Value(member)

DecodeFails(doc) == \E i \in DOMAIN doc : doc[i] = "invalid"

(* Mutant: the zero Optional counts as set. *)
IsSetAlways(o) == o = o

IsSet(o) == o.set

Ptr(o) == IF ~o.set \/ o.null THEN "NULL" ELSE o.value

-----------------------------------------------------------------------------
(* The handlers: encoding/json calls UnmarshalJSON for one member after    *)
(* the other, unless the document as a whole is no JSON. *)

Answer(r, status, body) ==
  /\ phase' = [phase EXCEPT ![r] = "answered"]
  /\ reply' = [reply EXCEPT ![r] = <<status, body>>]

getUser(r, u) ==
  /\ phase[r] = "none"
  /\ phase' = [phase EXCEPT ![r] = "query"]
  /\ request' = [request EXCEPT ![r] = [method |-> "GET", user |-> u, doc |-> <<>>]]
  /\ UNCHANGED <<bio, command, decoded, row, reply, orphans>>

patchUser(r, u, doc) ==
  /\ phase[r] = "none"
  /\ phase' = [phase EXCEPT ![r] = "decoding"]
  /\ request' = [request EXCEPT ![r] = [method |-> "PATCH", user |-> u, doc |-> doc]]
  /\ UNCHANGED <<bio, command, decoded, row, reply, orphans>>

InvalidID(r) ==
  /\ phase[r] = "none"
  /\ Answer(r, 400, "error")
  /\ UNCHANGED <<bio, request, command, decoded, row, orphans>>

(* The next member of the document. *)
DecodeMember(r) ==
  LET doc == request[r].doc
      i == decoded[r] + 1
  IN
  /\ phase[r] = "decoding"
  /\ i \in DOMAIN doc /\ doc[i] # "invalid"
  /\ command' = [command EXCEPT ![r] = UnmarshalJSON(@, doc[i])]
  /\ decoded' = [decoded EXCEPT ![r] = i]
  /\ UNCHANGED <<bio, request, phase, row, reply, orphans>>

DecodeRefused(r) ==
  /\ phase[r] = "decoding" /\ DecodeFails(request[r].doc)
  /\ Answer(r, 400, "error")
  /\ UNCHANGED <<bio, request, command, decoded, row, orphans>>

Decode(r) ==
  /\ phase[r] = "decoding" /\ decoded[r] = Len(request[r].doc)
  /\ IF IsSet(command[r])
       THEN phase' = [phase EXCEPT ![r] = "query"] /\ UNCHANGED reply
       ELSE Answer(r, 204, "empty")
  /\ UNCHANGED <<bio, request, command, decoded, row, orphans>>

Find(r) ==
  /\ phase[r] = "query" /\ request[r].method = "GET"
  /\ request[r].user \in Stored
  /\ row' = [row EXCEPT ![r] = bio[request[r].user]]
  /\ phase' = [phase EXCEPT ![r] = "executed"]
  /\ UNCHANGED <<bio, request, command, decoded, reply, orphans>>

(* Mutant: RETURNING old.bio. *)
UpdateReturnsOld(r) ==
  LET u == request[r].user IN
  /\ request[r].method = "PATCH" /\ u \in Stored
  /\ bio' = [bio EXCEPT ![u] = Ptr(command[r])]
  /\ row' = [row EXCEPT ![r] = bio[u]]

(* UPDATE ... RETURNING is one statement. *)
Update(r) ==
  LET u == request[r].user IN
  /\ request[r].method = "PATCH" /\ u \in Stored
  /\ bio' = [bio EXCEPT ![u] = Ptr(command[r])]
  /\ row' = [row EXCEPT ![r] = bio'[u]]

UpdateBio(r) ==
  /\ phase[r] = "query"
  /\ Update(r)
  /\ phase' = [phase EXCEPT ![r] = "executed"]
  /\ UNCHANGED <<request, command, decoded, reply, orphans>>

(* Neither statement finds a row: Scan returns ErrNoRows. *)
NoRows(r) ==
  /\ phase[r] = "query" /\ request[r].user \notin Stored
  /\ Answer(r, 500, "error")
  /\ UNCHANGED <<bio, request, command, decoded, row, orphans>>

(* The statement fails before it runs, or its answer is lost after it ran. *)
QueryFails(r) ==
  /\ phase[r] \in {"query", "executed"}
  /\ Answer(r, 500, "error")
  /\ UNCHANGED <<bio, request, command, decoded, row, orphans>>

(* The handler's context is done while the server has the UPDATE. *)
QueryAbandoned(r) ==
  /\ phase[r] = "query" /\ request[r].method = "PATCH"
  /\ Answer(r, 500, "error")
  /\ orphans' = orphans \cup {r}
  /\ UNCHANGED <<bio, request, command, decoded, row>>

OrphanRuns(r) ==
  /\ r \in orphans
  /\ Update(r)
  /\ orphans' = orphans \ {r}
  /\ UNCHANGED <<request, command, decoded, phase, reply>>

mapUserRow(dbBio) == IF dbBio = "NULL" THEN "null" ELSE dbBio

Respond(r) ==
  /\ phase[r] = "executed"
  /\ Answer(r, 200, mapUserRow(row[r]))
  /\ UNCHANGED <<bio, request, command, decoded, row, orphans>>

PatchNext ==
  \E r \in Requests :
    \/ \E u \in Users : getUser(r, u) \/ \E doc \in Documents : patchUser(r, u, doc)
    \/ InvalidID(r) \/ DecodeMember(r) \/ DecodeRefused(r) \/ Decode(r)
    \/ Find(r) \/ UpdateBio(r) \/ NoRows(r) \/ Respond(r)
    \/ QueryFails(r) \/ QueryAbandoned(r) \/ OrphanRuns(r)

PatchSpec == PatchInit /\ [][PatchNext]_patchVars

-----------------------------------------------------------------------------
(* What the handlers promise, stated of the documents and not of what they *)
(* were decoded to. *)

Asked(q) ==
  IF q.method = "none" THEN [op |-> "unasked"]
  ELSE IF q.method = "GET" THEN [op |-> "read", user |-> q.user]
  ELSE IF DecodeFails(q.doc) THEN [op |-> "malformed", user |-> q.user]
  ELSE IF q.doc = <<>> THEN [op |-> "nothing", user |-> q.user]
  ELSE [op |-> "write", user |-> q.user, bio |-> q.doc[Len(q.doc)]]

ShownBios == [u \in Stored |-> mapUserRow(bio[u])]
Askings == [r \in Requests |-> Asked(request[r])]
Sights ==
  [r \in Requests |-> IF row[r] = NoRow THEN <<>> ELSE <<mapUserRow(row[r])>>]

Register == INSTANCE BioRegister WITH
  Shown <- Bios \cup {"null"},
  bios <- ShownBios, asked <- Askings, seen <- Sights, told <- reply

(* Both handlers together implement BioRegister.  A patch whose document   *)
(* names no bio changes nothing and is told 204, whether the user exists   *)
(* or not; one that does not decode changes nothing and is told 400; any   *)
(* other sets just what its last member says, null included, at one moment *)
(* and once, and a 200 shows that moment's bio, whatever others have       *)
(* written by then (handler.go to repository.go and back).                 *)
BioRegisterSpec == Register!Spec
=============================================================================
