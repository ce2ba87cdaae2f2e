--------------------------- MODULE PatchUserProofs ---------------------------
(***************************************************************************)
(* That GET and PATCH /users/{id} implement BioRegister, for any number of *)
(* requests, users and bios and for documents of any length.               *)
(***************************************************************************)
EXTENDS PatchUser, TLAPS

Columns == Bios \cup {"NULL"}

Gets == {[method |-> "GET", user |-> u, doc |-> <<>>] : u \in Users}
Patches == {[method |-> "PATCH", user |-> u, doc |-> d] : u \in Users, d \in Documents}

PatchTypeOK ==
  /\ bio \in [Stored -> Columns]
  /\ request \in [Requests -> {NoRequest} \cup Gets \cup Patches]
  /\ DOMAIN command = Requests
  /\ decoded \in [Requests -> Nat]
  /\ phase \in [Requests -> {"none", "decoding", "query", "executed", "answered"}]
  /\ row \in [Requests -> Columns \cup {NoRow}]
  /\ DOMAIN reply = Requests
  /\ orphans \subseteq Requests

(* What a member makes of an Optional does not depend on the Optional.     *)
Meaning(member) == UnmarshalJSON(Unset, member)

(* The members decoded so far are good, and the last of them counts.       *)
Decoding(r) ==
  LET doc == request[r].doc IN
  /\ request[r] \in Patches
  /\ decoded[r] \in 0 .. Len(doc)
  /\ \A i \in 1 .. decoded[r] : doc[i] # "invalid"
  /\ command[r] = IF decoded[r] = 0 THEN Unset ELSE Meaning(doc[decoded[r]])

(* The command is what the document's last member asks for.                *)
Writing(r) ==
  LET doc == request[r].doc IN
  /\ request[r] \in Patches
  /\ ~DecodeFails(doc) /\ doc # <<>>
  /\ command[r] = Meaning(doc[Len(doc)])

RequestInv(r) ==
  /\ phase[r] = "none" =>
       request[r] = NoRequest /\ decoded[r] = 0 /\ command[r] = Unset
  /\ phase[r] # "answered" => reply[r] = NoReply /\ r \notin orphans
  /\ phase[r] \in {"none", "decoding", "query"} => row[r] = NoRow
  /\ phase[r] = "decoding" => Decoding(r)
  /\ phase[r] \in {"query", "executed"} => request[r] \in Gets \/ Writing(r)
  /\ phase[r] = "executed" => row[r] # NoRow
  /\ r \in orphans => Writing(r) /\ row[r] = NoRow

PatchInv == PatchTypeOK /\ \A r \in Requests : RequestInv(r)

-----------------------------------------------------------------------------
(* Requests and documents. *)

LEMMA DocumentFacts ==
  ASSUME NEW d \in Documents
  PROVE  /\ Len(d) \in Nat /\ DOMAIN d = 1 .. Len(d)
         /\ \A i \in 1 .. Len(d) : d[i] \in Bios \cup {"null", "invalid"}
         /\ d # <<>> <=> Len(d) # 0
<1>1. PICK n \in 0 .. MaxMembers : d \in [1 .. n -> Bios \cup {"null", "invalid"}]
  BY DEF Documents
<1>2. n \in Nat
  BY <1>1, PatchAssumption
<1>3. d \in Seq(Bios \cup {"null", "invalid"})
  BY <1>1, <1>2
<1> QED
  BY <1>3

LEMMA GetFacts ==
  ASSUME NEW q \in Gets
  PROVE  q.method = "GET" /\ q.user \in Users
BY DEF Gets

LEMMA PatchFacts ==
  ASSUME NEW q \in Patches
  PROVE  q.method = "PATCH" /\ q.user \in Users /\ q.doc \in Documents
BY DEF Patches

LEMMA NoRequestFacts == NoRequest.method = "none"
BY DEF NoRequest

LEMMA MeaningFacts ==
  ASSUME NEW o, NEW member
  PROVE  /\ UnmarshalJSON(o, member) = Meaning(member)
         /\ Meaning(member).set
         /\ Ptr(Meaning(member)) = IF member = "null" THEN "NULL" ELSE member
BY DEF Meaning, UnmarshalJSON, Null, Value, Ptr

LEMMA UnsetFacts == ~Unset.set
BY DEF Unset

-----------------------------------------------------------------------------
(* A step is of one request. *)

SameAt(o) ==
  /\ request'[o] = request[o] /\ command'[o] = command[o] /\ decoded'[o] = decoded[o]
  /\ phase'[o] = phase[o] /\ row'[o] = row[o] /\ reply'[o] = reply[o]
  /\ o \in orphans' <=> o \in orphans

OnlyAt(r) == \A o \in Requests \ {r} : SameAt(o)

LEMMA OthersKept ==
  ASSUME NEW o \in Requests, SameAt(o), RequestInv(o)
  PROVE  RequestInv(o)'
<1>1. Decoding(o)' <=> Decoding(o)
  BY DEF SameAt, Decoding
<1>2. Writing(o)' <=> Writing(o)
  BY DEF SameAt, Writing
<1> QED
  BY <1>1, <1>2 DEF SameAt, RequestInv

Kept(r) == PatchTypeOK' /\ OnlyAt(r) /\ RequestInv(r)'

LEMMA getUserKeeps ==
  ASSUME PatchTypeOK, NEW r \in Requests, RequestInv(r), NEW u \in Users, getUser(r, u)
  PROVE  Kept(r)
<1> DEFINE q == [method |-> "GET", user |-> u, doc |-> <<>>]
<1>1. /\ phase[r] = "none" /\ phase' = [phase EXCEPT ![r] = "query"]
      /\ request' = [request EXCEPT ![r] = q] /\ bio' = bio /\ command' = command
      /\ decoded' = decoded /\ row' = row /\ reply' = reply /\ orphans' = orphans
  BY DEF getUser
<1>2. q \in Gets
  BY DEF Gets
<1> HIDE DEF q
<1>3. PatchTypeOK'
  BY <1>1, <1>2 DEF PatchTypeOK
<1>4. OnlyAt(r)
  BY <1>1 DEF PatchTypeOK, OnlyAt, SameAt
<1>5. phase'[r] = "query" /\ request'[r] = q
  BY <1>1 DEF PatchTypeOK
<1>6. RequestInv(r)'
  BY <1>1, <1>2, <1>5 DEF RequestInv
<1> QED
  BY <1>3, <1>4, <1>6 DEF Kept

LEMMA patchUserKeeps ==
  ASSUME PatchTypeOK, NEW r \in Requests, RequestInv(r), NEW u \in Users,
         NEW d \in Documents, patchUser(r, u, d)
  PROVE  Kept(r)
<1> DEFINE q == [method |-> "PATCH", user |-> u, doc |-> d]
<1>1. /\ phase[r] = "none" /\ phase' = [phase EXCEPT ![r] = "decoding"]
      /\ request' = [request EXCEPT ![r] = q] /\ bio' = bio /\ command' = command
      /\ decoded' = decoded /\ row' = row /\ reply' = reply /\ orphans' = orphans
  BY DEF patchUser
<1>2. q \in Patches /\ q.doc = d
  BY DEF Patches
<1> HIDE DEF q
<1>3. PatchTypeOK'
  BY <1>1, <1>2 DEF PatchTypeOK
<1>4. OnlyAt(r)
  BY <1>1 DEF PatchTypeOK, OnlyAt, SameAt
<1>5. phase'[r] = "decoding" /\ request'[r] = q
  BY <1>1 DEF PatchTypeOK
<1>6. decoded[r] = 0 /\ command[r] = Unset
  BY <1>1 DEF RequestInv
<1>7. Decoding(r)'
  <2>1. Len(d) \in Nat
    BY DocumentFacts
  <2> QED
    BY <1>1, <1>2, <1>5, <1>6, <2>1 DEF Decoding
<1>8. RequestInv(r)'
  BY <1>1, <1>5, <1>7 DEF RequestInv
<1> QED
  BY <1>3, <1>4, <1>8 DEF Kept

LEMMA DecodeMemberKeeps ==
  ASSUME PatchTypeOK, NEW r \in Requests, RequestInv(r), DecodeMember(r)
  PROVE  Kept(r)
<1> DEFINE d == request[r].doc
           i == decoded[r] + 1
           c == UnmarshalJSON(command[r], d[i])
<1>1. /\ phase[r] = "decoding" /\ i \in DOMAIN d /\ d[i] # "invalid"
      /\ command' = [command EXCEPT ![r] = c] /\ decoded' = [decoded EXCEPT ![r] = i]
      /\ bio' = bio /\ request' = request /\ phase' = phase /\ row' = row
      /\ reply' = reply /\ orphans' = orphans
  BY DEF DecodeMember
<1>2. Decoding(r) /\ decoded[r] \in Nat
  BY <1>1 DEF RequestInv, PatchTypeOK
<1>3. Len(d) \in Nat /\ DOMAIN d = 1 .. Len(d)
  BY <1>2, PatchFacts, DocumentFacts DEF Decoding
<1>4. PatchTypeOK'
  <2> HIDE DEF c
  <2> QED
    BY <1>1, <1>2 DEF PatchTypeOK
<1>5. OnlyAt(r)
  BY <1>1 DEF PatchTypeOK, OnlyAt, SameAt
<1>6. decoded'[r] = i /\ command'[r] = Meaning(d[i])
  <2>1. c = Meaning(d[i])
    BY MeaningFacts
  <2> HIDE DEF c, i
  <2> QED
    BY <1>1, <2>1 DEF PatchTypeOK
<1>7. /\ i \in 0 .. Len(d) /\ i # 0
      /\ \A k \in 1 .. i : k \in 1 .. decoded[r] \/ k = i
  BY <1>1, <1>2, <1>3
<1>8. Decoding(r)'
  <2> HIDE DEF i
  <2>1. request[r] \in Patches /\ \A k \in 1 .. decoded[r] : request[r].doc[k] # "invalid"
    BY <1>2 DEF Decoding
  <2> QED
    BY <1>1, <1>6, <1>7, <2>1 DEF Decoding
<1>9. RequestInv(r)'
  BY <1>1, <1>8 DEF RequestInv
<1> QED
  BY <1>4, <1>5, <1>9 DEF Kept

(* Every reply ends a request that was not answered before.                *)
LEMMA AnswerKeeps ==
  ASSUME PatchTypeOK, NEW r \in Requests, RequestInv(r), phase[r] # "answered",
         NEW status, NEW body, Answer(r, status, body), bio' = bio, request' = request,
         command' = command, decoded' = decoded, row' = row,
         orphans' = orphans \/ (orphans' = orphans \cup {r} /\ Writing(r) /\ row[r] = NoRow)
  PROVE  Kept(r)
<1> DEFINE p == <<status, body>>
<1>1. phase' = [phase EXCEPT ![r] = "answered"] /\ reply' = [reply EXCEPT ![r] = p]
  BY DEF Answer
<1> HIDE DEF p
<1>2. PatchTypeOK'
  BY <1>1 DEF PatchTypeOK
<1>3. OnlyAt(r)
  BY <1>1 DEF PatchTypeOK, OnlyAt, SameAt
<1>4. phase'[r] = "answered"
  BY <1>1 DEF PatchTypeOK
<1>5. r \in orphans' => Writing(r)' /\ row'[r] = NoRow
  <2>1. Writing(r)' <=> Writing(r)
    BY DEF Writing
  <2> QED
    BY <2>1 DEF RequestInv
<1>6. RequestInv(r)'
  BY <1>4, <1>5 DEF RequestInv
<1> QED
  BY <1>2, <1>3, <1>6 DEF Kept

LEMMA DecodeKeeps ==
  ASSUME PatchTypeOK, NEW r \in Requests, RequestInv(r), Decode(r)
  PROVE  Kept(r)
<1> DEFINE d == request[r].doc
<1>1. /\ phase[r] = "decoding" /\ decoded[r] = Len(d) /\ bio' = bio /\ request' = request
      /\ command' = command /\ decoded' = decoded /\ row' = row /\ orphans' = orphans
      /\ IF IsSet(command[r])
           THEN phase' = [phase EXCEPT ![r] = "query"] /\ reply' = reply
           ELSE Answer(r, 204, "empty")
  BY DEF Decode
<1>2. CASE IsSet(command[r])
  <2>1. phase' = [phase EXCEPT ![r] = "query"] /\ reply' = reply
    BY <1>1, <1>2
  <2>2. PatchTypeOK' /\ phase'[r] = "query"
    BY <1>1, <2>1 DEF PatchTypeOK
  <2>3. OnlyAt(r)
    BY <1>1, <2>1 DEF PatchTypeOK, OnlyAt, SameAt
  <2>4. Decoding(r)
    BY <1>1 DEF RequestInv
  <2>5. /\ Len(d) \in Nat /\ DOMAIN d = 1 .. Len(d) /\ d # <<>> <=> Len(d) # 0
    BY <2>4, PatchFacts, DocumentFacts DEF Decoding
  <2>6. d # <<>> /\ command[r] = Meaning(d[Len(d)])
    BY <1>1, <1>2, <2>4, <2>5, UnsetFacts DEF Decoding, IsSet
  <2>7. ~DecodeFails(d)
    BY <1>1, <2>4, <2>5 DEF Decoding, DecodeFails
  <2>8. Writing(r)'
    BY <1>1, <2>4, <2>6, <2>7 DEF Decoding, Writing
  <2>9. RequestInv(r)'
    BY <1>1, <2>1, <2>2, <2>8 DEF RequestInv
  <2> QED
    BY <2>2, <2>3, <2>9 DEF Kept
<1>3. CASE ~IsSet(command[r])
  BY <1>1, <1>3, AnswerKeeps
<1> QED
  BY <1>2, <1>3

(* A statement has run for a request, which is answered later.             *)
LEMMA ExecutedKeeps ==
  ASSUME PatchTypeOK, NEW r \in Requests, RequestInv(r), phase[r] = "query",
         phase' = [phase EXCEPT ![r] = "executed"],
         NEW v \in Columns, row' = [row EXCEPT ![r] = v], bio' \in [Stored -> Columns],
         request' = request, command' = command, decoded' = decoded, reply' = reply,
         orphans' = orphans
  PROVE  Kept(r)
<1>1. PatchTypeOK' /\ phase'[r] = "executed" /\ row'[r] = v
  BY DEF PatchTypeOK
<1>2. OnlyAt(r)
  BY DEF PatchTypeOK, OnlyAt, SameAt
<1>3. v # NoRow
  BY PatchAssumption DEF Columns, NoRow
<1>4. Writing(r)' <=> Writing(r)
  BY DEF Writing
<1>5. RequestInv(r)'
  BY <1>1, <1>3, <1>4 DEF RequestInv
<1> QED
  BY <1>1, <1>2, <1>5 DEF Kept

LEMMA FindKeeps ==
  ASSUME PatchTypeOK, NEW r \in Requests, RequestInv(r), Find(r)
  PROVE  Kept(r)
<1> DEFINE v == bio[request[r].user]
<1>1. v \in Columns
  BY DEF Find, PatchTypeOK
<1> HIDE DEF v
<1>2. /\ phase[r] = "query" /\ phase' = [phase EXCEPT ![r] = "executed"]
      /\ row' = [row EXCEPT ![r] = v] /\ bio' = bio /\ request' = request
      /\ command' = command /\ decoded' = decoded /\ reply' = reply /\ orphans' = orphans
  BY DEF Find, v
<1>3. bio' \in [Stored -> Columns]
  BY <1>2 DEF PatchTypeOK
<1> QED
  BY <1>1, <1>2, <1>3, ExecutedKeeps

(* What an UPDATE writes: the column for the document's last member.       *)
LEMMA UpdateWrites ==
  ASSUME PatchTypeOK, NEW r \in Requests, Writing(r), Update(r)
  PROVE  LET u == request[r].user
             d == request[r].doc
             last == d[Len(d)]
             v == Ptr(command[r])
         IN /\ u \in Stored /\ v \in Columns /\ last \in Bios \cup {"null"}
            /\ mapUserRow(v) = last
            /\ bio' = [bio EXCEPT ![u] = v] /\ bio' \in [Stored -> Columns]
            /\ row' = [row EXCEPT ![r] = v]
<1> DEFINE u == request[r].user
           d == request[r].doc
           last == d[Len(d)]
           v == Ptr(command[r])
<1>1. d \in Documents /\ d # <<>> /\ ~DecodeFails(d) /\ command[r] = Meaning(last)
  BY PatchFacts DEF Writing
<1>2. Len(d) \in 1 .. Len(d) /\ DOMAIN d = 1 .. Len(d)
  BY <1>1, DocumentFacts
<1>3. last \in Bios \cup {"null"}
  BY <1>1, <1>2, DocumentFacts DEF DecodeFails
<1>4. v = IF last = "null" THEN "NULL" ELSE last
  BY <1>1, MeaningFacts
<1> HIDE DEF last, v
<1>5. v \in Columns /\ mapUserRow(v) = last
  BY <1>3, <1>4, PatchAssumption DEF Columns, mapUserRow
<1>6. u \in Stored /\ bio' = [bio EXCEPT ![u] = v] /\ row' = [row EXCEPT ![r] = bio'[u]]
  BY DEF Update, v
<1> HIDE DEF u
<1>7. bio'[u] = v /\ bio' \in [Stored -> Columns]
  BY <1>5, <1>6 DEF PatchTypeOK
<1> QED
  BY <1>3, <1>5, <1>6, <1>7 DEF u, last, v

LEMMA PatchWrites ==
  ASSUME NEW r \in Requests, PatchTypeOK, RequestInv(r), phase[r] = "query", Update(r)
  PROVE  Writing(r)
<1>1. request[r] \in Gets \/ Writing(r)
  BY DEF RequestInv
<1>2. request[r].method = "PATCH"
  BY DEF Update
<1> QED
  BY <1>1, <1>2, GetFacts

LEMMA UpdateBioKeeps ==
  ASSUME PatchTypeOK, NEW r \in Requests, RequestInv(r), UpdateBio(r)
  PROVE  Kept(r)
<1> DEFINE v == Ptr(command[r])
<1>1. /\ phase[r] = "query" /\ phase' = [phase EXCEPT ![r] = "executed"] /\ Update(r)
      /\ request' = request /\ command' = command /\ decoded' = decoded /\ reply' = reply
      /\ orphans' = orphans
  BY DEF UpdateBio
<1>2. v \in Columns /\ bio' \in [Stored -> Columns] /\ row' = [row EXCEPT ![r] = v]
  BY <1>1, PatchWrites, UpdateWrites
<1> HIDE DEF v
<1> QED
  BY <1>1, <1>2, ExecutedKeeps

LEMMA OrphanRunsKeeps ==
  ASSUME PatchTypeOK, NEW r \in Requests, RequestInv(r), OrphanRuns(r)
  PROVE  Kept(r)
<1> DEFINE v == Ptr(command[r])
<1>1. /\ r \in orphans /\ Update(r) /\ orphans' = orphans \ {r} /\ request' = request
      /\ command' = command /\ decoded' = decoded /\ phase' = phase /\ reply' = reply
  BY DEF OrphanRuns
<1>2. Writing(r) /\ phase[r] = "answered"
  BY <1>1 DEF RequestInv, PatchTypeOK
<1>3. v \in Columns /\ bio' \in [Stored -> Columns] /\ row' = [row EXCEPT ![r] = v]
  BY <1>1, <1>2, UpdateWrites
<1> HIDE DEF v
<1>4. PatchTypeOK'
  BY <1>1, <1>3 DEF PatchTypeOK
<1>5. OnlyAt(r)
  BY <1>1, <1>3 DEF PatchTypeOK, OnlyAt, SameAt
<1>6. RequestInv(r)'
  BY <1>1, <1>2 DEF RequestInv
<1> QED
  BY <1>4, <1>5, <1>6 DEF Kept

LEMMA RepliesKeep ==
  ASSUME PatchTypeOK, NEW r \in Requests, RequestInv(r),
         \/ InvalidID(r) \/ DecodeRefused(r) \/ NoRows(r) \/ Respond(r)
         \/ QueryFails(r) \/ QueryAbandoned(r)
  PROVE  Kept(r)
<1>1. CASE InvalidID(r)
  BY <1>1, AnswerKeeps DEF InvalidID
<1>2. CASE DecodeRefused(r)
  BY <1>2, AnswerKeeps DEF DecodeRefused
<1>3. CASE NoRows(r)
  BY <1>3, AnswerKeeps DEF NoRows
<1>4. CASE Respond(r)
  BY <1>4, AnswerKeeps DEF Respond
<1>5. CASE QueryFails(r)
  BY <1>5, AnswerKeeps DEF QueryFails
<1>6. CASE QueryAbandoned(r)
  <2>1. /\ phase[r] = "query" /\ request[r].method = "PATCH" /\ Answer(r, 500, "error")
        /\ orphans' = orphans \cup {r} /\ bio' = bio /\ request' = request
        /\ command' = command /\ decoded' = decoded /\ row' = row
    BY <1>6 DEF QueryAbandoned
  <2>2. Writing(r) /\ row[r] = NoRow
    BY <2>1, GetFacts DEF RequestInv
  <2> QED
    BY <2>1, <2>2, AnswerKeeps
<1> QED
  BY <1>1, <1>2, <1>3, <1>4, <1>5, <1>6

(* At every place of the handlers the command is what the document decoded *)
(* so far asks for, and only a request given up has an UPDATE still out.   *)
THEOREM PatchInvariant == PatchSpec => []PatchInv
<1>1. PatchInit => PatchInv
  <2> SUFFICES ASSUME PatchInit PROVE PatchInv
    OBVIOUS
  <2>1. PatchTypeOK
    BY DEF PatchInit, PatchTypeOK, Columns
  <2>2. ASSUME NEW r \in Requests PROVE RequestInv(r)
    BY DEF PatchInit, RequestInv
  <2> QED
    BY <2>1, <2>2 DEF PatchInv
<1>2. PatchInv /\ [PatchNext]_patchVars => PatchInv'
  <2> SUFFICES ASSUME PatchInv, [PatchNext]_patchVars PROVE PatchInv'
    OBVIOUS
  <2>1. PatchTypeOK /\ \A r \in Requests : RequestInv(r)
    BY DEF PatchInv
  <2>2. ASSUME NEW r \in Requests, Kept(r) PROVE PatchInv'
    <3>1. PatchTypeOK' /\ OnlyAt(r) /\ RequestInv(r)'
      BY <2>2 DEF Kept
    <3>2. ASSUME NEW o \in Requests PROVE RequestInv(o)'
      <4>1. CASE o = r
        BY <3>1, <4>1
      <4>2. CASE o # r
        BY <2>1, <3>1, <4>2, OthersKept DEF OnlyAt
      <4> QED
        BY <4>1, <4>2
    <3> QED
      BY <3>1, <3>2 DEF PatchInv
  <2>3. CASE PatchNext
    <3>1. PICK r \in Requests :
            \/ \E u \in Users : getUser(r, u) \/ \E doc \in Documents : patchUser(r, u, doc)
            \/ InvalidID(r) \/ DecodeMember(r) \/ DecodeRefused(r) \/ Decode(r)
            \/ Find(r) \/ UpdateBio(r) \/ NoRows(r) \/ Respond(r)
            \/ QueryFails(r) \/ QueryAbandoned(r) \/ OrphanRuns(r)
      BY <2>3 DEF PatchNext
    <3>2. Kept(r)
      BY <2>1, <3>1, getUserKeeps, patchUserKeeps, DecodeMemberKeeps, DecodeKeeps, FindKeeps,
         UpdateBioKeeps, OrphanRunsKeeps, RepliesKeep
    <3> QED
      BY <2>2, <3>2
  <2>4. CASE UNCHANGED patchVars
    <3>1. PatchTypeOK'
      BY <2>1, <2>4 DEF PatchTypeOK, patchVars
    <3>2. ASSUME NEW o \in Requests PROVE RequestInv(o)'
      <4>1. SameAt(o)
        BY <2>4 DEF SameAt, patchVars
      <4> QED
        BY <2>1, <4>1, OthersKept
    <3> QED
      BY <3>1, <3>2 DEF PatchInv
  <2> QED
    BY <2>3, <2>4
<1> QED
  BY <1>1, <1>2, PTL DEF PatchSpec

-----------------------------------------------------------------------------
(* The register that clients see: what every part of it is, before and     *)
(* after a step. *)

LEMMA AskedOfGet ==
  ASSUME NEW q \in Gets
  PROVE  Asked(q) \in Register!Reads /\ Asked(q).user = q.user
<1>1. Asked(q) = [op |-> "read", user |-> q.user]
  BY GetFacts DEF Asked
<1> QED
  BY <1>1, GetFacts DEF Register!Reads

LEMMA AskedOfWrite ==
  ASSUME NEW q \in Patches, ~DecodeFails(q.doc), q.doc # <<>>,
         NEW last, last = q.doc[Len(q.doc)]
  PROVE  /\ last \in Bios \cup {"null"} /\ Asked(q) \in Register!Writes
         /\ Asked(q).user = q.user /\ Asked(q).bio = last
<1> DEFINE d == q.doc
<1>1. q.method = "PATCH" /\ q.user \in Users /\ d \in Documents
  BY PatchFacts
<1>2. Len(d) \in 1 .. Len(d) /\ DOMAIN d = 1 .. Len(d)
  BY <1>1, DocumentFacts
<1>3. last \in Bios \cup {"null"}
  BY <1>1, <1>2, DocumentFacts DEF DecodeFails
<1>4. Asked(q) = [op |-> "write", user |-> q.user, bio |-> last]
  BY <1>1 DEF Asked
<1> HIDE DEF d
<1> QED
  BY <1>1, <1>3, <1>4 DEF Register!Writes

LEMMA AskedOfOther ==
  ASSUME NEW q \in Patches, DecodeFails(q.doc) \/ q.doc = <<>>
  PROVE  /\ Asked(q) \in Register!Others
         /\ Asked(q).op = IF DecodeFails(q.doc) THEN "malformed" ELSE "nothing"
<1>1. q.method = "PATCH" /\ q.user \in Users
  BY PatchFacts
<1>2. CASE DecodeFails(q.doc)
  BY <1>1, <1>2 DEF Asked, Register!Others
<1>3. CASE ~DecodeFails(q.doc) /\ q.doc = <<>>
  BY <1>1, <1>3 DEF Asked, Register!Others
<1> QED
  BY <1>2, <1>3

LEMMA NothingIsAsked == Asked(NoRequest) = Register!Unasked
BY NoRequestFacts DEF Asked, Register!Unasked

(* The kinds of asking are apart.                                          *)
LEMMA KindsApart ==
  /\ Register!Unasked.op = "unasked"
  /\ \A a \in Register!Reads : a \notin Register!Writes
BY DEF Register!Unasked, Register!Reads, Register!Writes

(* A statement acts for a request that reads or writes.                    *)
LEMMA ActsOnUser ==
  ASSUME NEW r \in Requests, request[r] \in Gets \/ Writing(r)
  PROVE  /\ Askings[r] \in Register!Reads \cup Register!Writes
         /\ Askings[r].user = request[r].user
BY AskedOfGet, AskedOfWrite DEF Askings, Writing

LEMMA AskingsStay == request' = request => Askings' = Askings
BY DEF Askings

LEMMA BiosStay == bio' = bio => ShownBios' = ShownBios
BY DEF ShownBios

LEMMA SightsStay == row' = row => Sights' = Sights
BY DEF Sights

(* The column's type tells a row from no row.                              *)
LEMMA SightOf ==
  ASSUME NEW v \in Columns
  PROVE  /\ v # NoRow /\ mapUserRow(v) \in Bios \cup {"null"}
BY PatchAssumption DEF Columns, NoRow, mapUserRow

SightOfRow(v) == IF v = NoRow THEN <<>> ELSE <<mapUserRow(v)>>

LEMMA RowSeen ==
  ASSUME PatchTypeOK, NEW r \in Requests, NEW v \in Columns, row' = [row EXCEPT ![r] = v]
  PROVE  Sights' = [Sights EXCEPT ![r] = <<mapUserRow(v)>>]
<1> DEFINE s == <<mapUserRow(v)>>
<1>1. v # NoRow /\ row'[r] = v /\ \A o \in Requests \ {r} : row'[o] = row[o]
  BY SightOf DEF PatchTypeOK
<1>2. Sights'[r] = s /\ \A o \in Requests \ {r} : Sights'[o] = Sights[o]
  <2>1. \A o \in Requests :
          /\ Sights[o] = SightOfRow(row[o])
          /\ Sights'[o] = SightOfRow(row'[o])
    BY DEF Sights, SightOfRow
  <2>2. SightOfRow(v) = s
    BY <1>1 DEF SightOfRow
  <2> QED
    BY <1>1, <2>1, <2>2
<1>3. /\ Sights = [o \in Requests |-> Sights[o]]
      /\ Sights' = [o \in Requests |-> Sights'[o]]
  BY DEF Sights
<1> HIDE DEF s
<1>4. Sights' = [o \in Requests |-> IF o = r THEN s ELSE Sights[o]]
  BY <1>2, <1>3
<1>5. [Sights EXCEPT ![r] = s] = [o \in Requests |-> IF o = r THEN s ELSE Sights[o]]
  BY <1>3
<1> QED
  BY <1>4, <1>5 DEF s

LEMMA BioShown ==
  ASSUME PatchTypeOK, NEW u \in Stored, NEW v, bio' = [bio EXCEPT ![u] = v]
  PROVE  ShownBios' = [ShownBios EXCEPT ![u] = mapUserRow(v)]
<1> DEFINE s == mapUserRow(v)
<1>1. bio'[u] = v /\ \A w \in Stored \ {u} : bio'[w] = bio[w]
  BY DEF PatchTypeOK
<1>2. ShownBios'[u] = s /\ \A w \in Stored \ {u} : ShownBios'[w] = ShownBios[w]
  BY <1>1 DEF ShownBios
<1>3. /\ ShownBios = [w \in Stored |-> ShownBios[w]]
      /\ ShownBios' = [w \in Stored |-> ShownBios'[w]]
  BY DEF ShownBios
<1> HIDE DEF s
<1>4. ShownBios' = [w \in Stored |-> IF w = u THEN s ELSE ShownBios[w]]
  BY <1>2, <1>3
<1>5. [ShownBios EXCEPT ![u] = s] = [w \in Stored |-> IF w = u THEN s ELSE ShownBios[w]]
  BY <1>3
<1> QED
  BY <1>4, <1>5 DEF s

-----------------------------------------------------------------------------
(* Each handler step is one of the register, or none of its business. *)

LEMMA AsksRegister ==
  ASSUME PatchTypeOK, NEW r \in Requests, RequestInv(r), phase[r] = "none",
         NEW q \in Gets \cup Patches, request' = [request EXCEPT ![r] = q],
         bio' = bio, row' = row, reply' = reply
  PROVE  Register!Ask(r)
<1>1. Asked(q) \in Register!Reads \cup Register!Writes \cup Register!Others
  BY AskedOfGet, AskedOfWrite, AskedOfOther
<1>2. Askings' = [Askings EXCEPT ![r] = Asked(q)]
  BY DEF Askings, PatchTypeOK
<1>3. Askings[r] = Register!Unasked /\ reply[r] = NoReply
  BY NothingIsAsked DEF RequestInv, Askings
<1> QED
  BY <1>1, <1>2, <1>3, BiosStay, SightsStay DEF Register!Ask, NoReply, Register!NoReply

LEMMA TellsRegister ==
  ASSUME NEW r \in Requests, RequestInv(r), phase[r] # "answered",
         NEW status, NEW body, Answer(r, status, body), bio' = bio, request' = request,
         row' = row
  PROVE  Register!Tell(r, status, body)
<1>1. reply[r] = NoReply /\ reply' = [reply EXCEPT ![r] = <<status, body>>]
  BY DEF RequestInv, Answer
<1> QED
  BY <1>1, BiosStay, SightsStay, AskingsStay
  DEF Register!Tell, NoReply, Register!NoReply

LEMMA FindActs ==
  ASSUME PatchTypeOK, NEW r \in Requests, RequestInv(r), Find(r)
  PROVE  Register!Act(r)
<1> DEFINE u == request[r].user
           v == bio[u]
<1>1. /\ phase[r] = "query" /\ request[r].method = "GET" /\ u \in Stored
      /\ row' = [row EXCEPT ![r] = v] /\ bio' = bio /\ request' = request /\ reply' = reply
  BY DEF Find
<1>2. request[r] \in Gets
  BY <1>1, PatchFacts DEF RequestInv, Writing
<1>3. /\ Askings[r] \in Register!Reads /\ Askings[r] \notin Register!Writes
      /\ Askings[r].user = u
  BY <1>2, AskedOfGet, KindsApart, ActsOnUser DEF Askings
<1>4. v \in Columns
  BY <1>1 DEF PatchTypeOK
<1>5. Sights[r] = Register!NotYet
  BY <1>1 DEF RequestInv, Sights, Register!NotYet
<1>6. Sights' = [Sights EXCEPT ![r] = <<mapUserRow(v)>>]
  BY <1>1, <1>4, RowSeen
<1>7. ShownBios' = ShownBios /\ ShownBios[u] = mapUserRow(v)
  BY <1>1, BiosStay DEF ShownBios
<1>8. Askings' = Askings
  BY <1>1, AskingsStay
<1> HIDE DEF u, v
<1> QED
  BY <1>1, <1>3, <1>5, <1>6, <1>7, <1>8 DEF Register!Act

LEMMA UpdateActs ==
  ASSUME PatchTypeOK, NEW r \in Requests, Writing(r), row[r] = NoRow, Update(r),
         request' = request, reply' = reply
  PROVE  Register!Act(r)
<1> DEFINE u == request[r].user
           d == request[r].doc
           last == d[Len(d)]
           v == Ptr(command[r])
<1>1. /\ u \in Stored /\ v \in Columns /\ mapUserRow(v) = last
      /\ bio' = [bio EXCEPT ![u] = v] /\ row' = [row EXCEPT ![r] = v]
  BY UpdateWrites
<1>2. /\ Askings[r] \in Register!Writes /\ Askings[r].user = u
      /\ Askings[r].bio = last
  BY AskedOfWrite DEF Writing, Askings
<1>4. Sights[r] = Register!NotYet
  BY DEF Sights, Register!NotYet
<1> HIDE DEF u, last, v
<1>5. Sights' = [Sights EXCEPT ![r] = <<last>>]
  BY <1>1, RowSeen
<1>6. ShownBios' = [ShownBios EXCEPT ![u] = last]
  BY <1>1, BioShown
<1>7. ShownBios'[u] = last
  BY <1>1, <1>6 DEF ShownBios
<1>8. Askings' = Askings
  BY AskingsStay
<1> QED
  BY <1>1, <1>2, <1>4, <1>5, <1>6, <1>7, <1>8 DEF Register!Act

(* A document with no bio that decodes asks for nothing, any other that    *)
(* decodes goes on to its statement.                                       *)
LEMMA DecodeTells ==
  ASSUME PatchTypeOK, NEW r \in Requests, RequestInv(r), Decode(r)
  PROVE  Register!NothingAsked(r) \/ UNCHANGED Register!registerVars
<1> DEFINE d == request[r].doc
<1>1. /\ phase[r] = "decoding" /\ decoded[r] = Len(d) /\ bio' = bio /\ request' = request
      /\ row' = row
      /\ IF IsSet(command[r]) THEN reply' = reply ELSE Answer(r, 204, "empty")
  BY DEF Decode
<1>2. /\ request[r] \in Patches /\ d \in Documents
      /\ command[r] = IF Len(d) = 0 THEN Unset ELSE Meaning(d[Len(d)])
  BY <1>1, PatchFacts DEF RequestInv, Decoding
<1>3. Len(d) \in Nat /\ DOMAIN d = 1 .. Len(d) /\ (d # <<>> <=> Len(d) # 0)
  BY <1>2, DocumentFacts
<1>4. CASE IsSet(command[r])
  BY <1>1, <1>4, BiosStay, SightsStay, AskingsStay DEF Register!registerVars
<1>5. CASE ~IsSet(command[r])
  <2>1. Len(d) = 0
    BY <1>2, <1>5, MeaningFacts DEF IsSet
  <2>2. d = <<>> /\ ~DecodeFails(d)
    BY <1>3, <2>1 DEF DecodeFails
  <2>3. Askings[r].op = "nothing"
    BY <1>2, <2>2, AskedOfOther DEF Askings
  <2>4. Register!Tell(r, 204, "empty")
    BY <1>1, <1>5, TellsRegister
  <2> QED
    BY <2>3, <2>4 DEF Register!NothingAsked
<1> QED
  BY <1>4, <1>5

LEMMA RespondShows ==
  ASSUME PatchTypeOK, NEW r \in Requests, RequestInv(r), Respond(r)
  PROVE  Register!Show(r)
<1> DEFINE b == mapUserRow(row[r])
<1>1. phase[r] = "executed" /\ Answer(r, 200, b) /\ bio' = bio /\ request' = request /\ row' = row
  BY DEF Respond
<1>2. row[r] # NoRow /\ row[r] \in Columns
  BY <1>1 DEF RequestInv, PatchTypeOK
<1>3. b \in Bios \cup {"null"}
  BY <1>2, SightOf
<1>4. Sights[r] = <<b>>
  BY <1>2 DEF Sights
<1> HIDE DEF b
<1>5. Register!Tell(r, 200, b)
  BY <1>1, TellsRegister
<1> QED
  BY <1>3, <1>4, <1>5 DEF Register!Show

LEMMA RefusedIsTold ==
  ASSUME PatchTypeOK, NEW r \in Requests, RequestInv(r), InvalidID(r) \/ DecodeRefused(r)
  PROVE  Register!Refuse(r)
<1>1. /\ phase[r] # "answered" /\ Answer(r, 400, "error")
      /\ bio' = bio /\ request' = request /\ row' = row
  BY DEF InvalidID, DecodeRefused
<1>2. Register!Tell(r, 400, "error")
  BY <1>1, TellsRegister
<1>3. Askings[r].op \in {"unasked", "malformed"}
  <2>1. CASE InvalidID(r)
    BY <2>1, NothingIsAsked, KindsApart DEF InvalidID, RequestInv, Askings
  <2>2. CASE DecodeRefused(r)
    <3>1. request[r] \in Patches /\ DecodeFails(request[r].doc)
      BY <2>2 DEF DecodeRefused, RequestInv, Decoding
    <3> QED
      BY <3>1, AskedOfOther DEF Askings
  <2> QED
    BY <2>1, <2>2
<1> QED
  BY <1>2, <1>3 DEF Register!Refuse

LEMMA FailureIsTold ==
  ASSUME PatchTypeOK, NEW r \in Requests, RequestInv(r),
         NoRows(r) \/ QueryFails(r) \/ QueryAbandoned(r)
  PROVE  Register!Fail(r)
<1>1. /\ phase[r] \in {"query", "executed"} /\ Answer(r, 500, "error")
      /\ bio' = bio /\ request' = request /\ row' = row
  BY DEF NoRows, QueryFails, QueryAbandoned
<1>2. Register!Tell(r, 500, "error")
  BY <1>1, TellsRegister
<1>3. Askings[r] \in Register!Reads \cup Register!Writes
  BY <1>1, ActsOnUser DEF RequestInv
<1> QED
  BY <1>2, <1>3 DEF Register!Fail

LEMMA StatementActs ==
  ASSUME PatchTypeOK, NEW r \in Requests, RequestInv(r), UpdateBio(r) \/ OrphanRuns(r)
  PROVE  Register!Act(r)
<1>1. CASE UpdateBio(r)
  <2>1. phase[r] = "query" /\ Update(r) /\ request' = request /\ reply' = reply
    BY <1>1 DEF UpdateBio
  <2>2. Writing(r) /\ row[r] = NoRow
    BY <2>1, PatchWrites DEF RequestInv
  <2> QED
    BY <2>1, <2>2, UpdateActs
<1>2. CASE OrphanRuns(r)
  <2>1. r \in orphans /\ Update(r) /\ request' = request /\ reply' = reply
    BY <1>2 DEF OrphanRuns
  <2>2. Writing(r) /\ row[r] = NoRow
    BY <2>1 DEF RequestInv
  <2> QED
    BY <2>1, <2>2, UpdateActs
<1> QED
  BY <1>1, <1>2

LEMMA AskingIsAsked ==
  ASSUME PatchTypeOK, NEW r \in Requests, RequestInv(r), NEW u \in Users,
         getUser(r, u) \/ \E d \in Documents : patchUser(r, u, d)
  PROVE  Register!Ask(r)
<1>1. CASE getUser(r, u)
  <2> DEFINE q == [method |-> "GET", user |-> u, doc |-> <<>>]
  <2>1. /\ phase[r] = "none" /\ request' = [request EXCEPT ![r] = q] /\ bio' = bio
        /\ row' = row /\ reply' = reply
    BY <1>1 DEF getUser
  <2>2. q \in Gets
    BY DEF Gets
  <2> HIDE DEF q
  <2> QED
    BY <2>1, <2>2, AsksRegister
<1>2. ASSUME NEW d \in Documents, patchUser(r, u, d)
      PROVE  Register!Ask(r)
  <2> DEFINE q == [method |-> "PATCH", user |-> u, doc |-> d]
  <2>1. /\ phase[r] = "none" /\ request' = [request EXCEPT ![r] = q] /\ bio' = bio
        /\ row' = row /\ reply' = reply
    BY <1>2 DEF patchUser
  <2>2. q \in Patches
    BY DEF Patches
  <2> HIDE DEF q
  <2> QED
    BY <2>1, <2>2, AsksRegister
<1> QED
  BY <1>1, <1>2

LEMMA RegisterStep ==
  ASSUME PatchInv, [PatchNext]_patchVars
  PROVE  [Register!Next]_(Register!registerVars)
<1>1. CASE UNCHANGED patchVars
  BY <1>1, BiosStay, SightsStay, AskingsStay DEF patchVars, Register!registerVars
<1>2. CASE PatchNext
  <2>1. PICK r \in Requests :
          \/ \E u \in Users : getUser(r, u) \/ \E d \in Documents : patchUser(r, u, d)
          \/ InvalidID(r) \/ DecodeMember(r) \/ DecodeRefused(r) \/ Decode(r)
          \/ Find(r) \/ UpdateBio(r) \/ NoRows(r) \/ Respond(r)
          \/ QueryFails(r) \/ QueryAbandoned(r) \/ OrphanRuns(r)
    BY <1>2 DEF PatchNext
  <2>2. PatchTypeOK /\ RequestInv(r)
    BY DEF PatchInv
  <2>3. CASE DecodeMember(r)
    <3>1. bio' = bio /\ request' = request /\ row' = row /\ reply' = reply
      BY <2>3 DEF DecodeMember
    <3> QED
      BY <3>1, BiosStay, SightsStay, AskingsStay DEF Register!registerVars
  <2>4. CASE ~DecodeMember(r)
    <3>1. \/ Register!Ask(r) \/ Register!Act(r) \/ Register!Show(r)
          \/ Register!NothingAsked(r) \/ Register!Refuse(r) \/ Register!Fail(r)
          \/ UNCHANGED Register!registerVars
      BY <2>1, <2>2, <2>4, AskingIsAsked, FindActs, StatementActs, RespondShows,
         DecodeTells, RefusedIsTold, FailureIsTold
    <3> QED
      BY <3>1 DEF Register!Next
  <2> QED
    BY <2>3, <2>4
<1> QED
  BY <1>1, <1>2

(* Both handlers keep the promise of BioRegister: every request acts at    *)
(* one moment, as if alone, and the reply tells what its document asked    *)
(* for and that moment left, for any number of requests and documents of   *)
(* any length.                                                             *)
THEOREM HandlersKeepRegister == PatchSpec => BioRegisterSpec
<1>1. PatchInit => Register!Init
  <2> SUFFICES ASSUME PatchInit PROVE Register!Init
    OBVIOUS
  <2>1. ShownBios \in [Stored -> Bios \cup {"null"}]
    BY PatchAssumption DEF PatchInit, ShownBios, mapUserRow
  <2>2. Askings = [r \in Requests |-> Register!Unasked]
    BY NothingIsAsked DEF PatchInit, Askings
  <2>3. Sights = [r \in Requests |-> Register!NotYet]
    BY DEF PatchInit, Sights, Register!NotYet
  <2>4. reply = [r \in Requests |-> Register!NoReply]
    BY DEF PatchInit, NoReply, Register!NoReply
  <2> QED
    BY <2>1, <2>2, <2>3, <2>4 DEF Register!Init
<1>2. PatchInv /\ [PatchNext]_patchVars => [Register!Next]_(Register!registerVars)
  BY RegisterStep
<1> QED
  BY <1>1, <1>2, PatchInvariant, PTL DEF PatchSpec, BioRegisterSpec, Register!Spec

-----------------------------------------------------------------------------
(* What clients may conclude, drawn from BioRegister alone. *)

(* What a response may show of a bio.                                      *)
Shown == Bios \cup {"null"}

Acted(r) == Sights[r] # <<>>

(* A request that has acted read or wrote, on a user that exists; what it  *)
(* saw is, for a write, what it wrote.                                     *)
SawItsMoment(r) ==
  \E b \in Shown :
    /\ Sights[r] = <<b>> /\ Askings[r] \in Register!Reads \cup Register!Writes
    /\ Askings[r].user \in Stored
    /\ Askings[r] \in Register!Writes => b = Askings[r].bio

(* A 200 shows the moment the request acted; after a 204 or a 400 it has   *)
(* not acted; a 500 leaves that open.                                      *)
ToldItsMoment(r) ==
  \/ reply[r] = <<"no reply">>
  \/ \E b \in Shown : reply[r] = <<200, b>> /\ Sights[r] = <<b>>
  \/ reply[r] = <<204, "empty">> /\ Askings[r].op = "nothing" /\ ~Acted(r)
  \/ reply[r] = <<400, "error">> /\ Askings[r].op \in {"unasked", "malformed"} /\ ~Acted(r)
  \/ reply[r] = <<500, "error">> /\ Askings[r] \in Register!Reads \cup Register!Writes

RegisterInv ==
  /\ ShownBios \in [Stored -> Shown]
  /\ \A r \in Requests : (Acted(r) => SawItsMoment(r)) /\ ToldItsMoment(r)

(* A bio changes when one write to that user, which had not acted, acts,   *)
(* and to what it wrote; no request acts twice or is asked anew after it.  *)
OneWriteEach ==
  /\ \A u \in Stored : ShownBios'[u] # ShownBios[u] =>
       \E r \in Requests :
         /\ Askings[r] \in Register!Writes /\ Askings[r].user = u
         /\ ShownBios'[u] = Askings[r].bio /\ ~Acted(r) /\ Acted(r)'
  /\ \A r \in Requests : Acted(r) => Sights'[r] = Sights[r] /\ Askings'[r] = Askings[r]

LEMMA OpsApart ==
  /\ \A a \in Register!Reads : a.op = "read"
  /\ \A a \in Register!Writes : a.op = "write" /\ a.bio \in Shown
  /\ Register!Unasked.op = "unasked"
BY DEF Register!Reads, Register!Writes, Register!Unasked, Shown

LEMMA SightsAreFunctions ==
  /\ Sights = [r \in Requests |-> Sights[r]]
  /\ Askings = [r \in Requests |-> Askings[r]]
BY DEF Sights, Askings

LEMMA MomentStays ==
  ASSUME RegisterInv, NEW o \in Requests,
         Sights'[o] = Sights[o], Askings'[o] = Askings[o]
  PROVE  /\ Acted(o)' => SawItsMoment(o)'
         /\ reply'[o] = reply[o] => ToldItsMoment(o)'
<1>1. (Acted(o) => SawItsMoment(o)) /\ ToldItsMoment(o)
  BY DEF RegisterInv
<1>2. Acted(o)' <=> Acted(o)
  BY DEF Acted
<1>3. SawItsMoment(o) => SawItsMoment(o)'
  <2>1. Sights[o] = Sights'[o] /\ Askings[o] = Askings'[o]
    OBVIOUS
  <2> QED
    BY <2>1, SMTT(30) DEF SawItsMoment
<1>4. ASSUME reply'[o] = reply[o]
      PROVE  ToldItsMoment(o)'
  <2>1. /\ reply[o] = reply'[o] /\ Sights[o] = Sights'[o] /\ Askings[o] = Askings'[o]
        /\ ~Acted(o) => ~Acted(o)'
    BY <1>2, <1>4
  <2>2. CASE reply[o] = <<"no reply">>
    BY <2>1, <2>2 DEF ToldItsMoment
  <2>3. CASE \E b \in Shown : reply[o] = <<200, b>> /\ Sights[o] = <<b>>
    BY <2>1, <2>3 DEF ToldItsMoment
  <2>4. CASE reply[o] = <<204, "empty">> /\ Askings[o].op = "nothing" /\ ~Acted(o)
    BY <2>1, <2>4 DEF ToldItsMoment
  <2>5. CASE /\ reply[o] = <<400, "error">> /\ Askings[o].op \in {"unasked", "malformed"}
             /\ ~Acted(o)
    BY <2>1, <2>5 DEF ToldItsMoment
  <2>6. CASE reply[o] = <<500, "error">> /\ Askings[o] \in Register!Reads \cup Register!Writes
    BY <2>1, <2>6 DEF ToldItsMoment
  <2> QED
    BY <1>1, <2>2, <2>3, <2>4, <2>5, <2>6 DEF ToldItsMoment
<1> QED
  BY <1>1, <1>2, <1>3, <1>4

LEMMA AskKeeps ==
  ASSUME RegisterInv, NEW r \in Requests, Register!Ask(r)
  PROVE  RegisterInv' /\ OneWriteEach
<1>1. /\ Askings[r] = Register!Unasked /\ reply[r] = <<"no reply">>
      /\ \A o \in Requests \ {r} : Askings'[o] = Askings[o]
      /\ ShownBios' = ShownBios /\ Sights' = Sights /\ reply' = reply
  BY SightsAreFunctions DEF Register!Ask, Register!NoReply
<1>2. ~Acted(r)
  BY <1>1, OpsApart DEF RegisterInv, SawItsMoment
<1>3. ASSUME NEW o \in Requests
      PROVE  (Acted(o)' => SawItsMoment(o)') /\ ToldItsMoment(o)'
  <2>1. CASE o = r
    BY <1>1, <1>2, <2>1 DEF Acted, ToldItsMoment
  <2>2. CASE o # r
    BY <1>1, <2>2, MomentStays
  <2> QED
    BY <2>1, <2>2
<1> QED
  BY <1>1, <1>2, <1>3 DEF RegisterInv, Acted, OneWriteEach

LEMMA ActKeeps ==
  ASSUME RegisterInv, NEW r \in Requests, Register!Act(r)
  PROVE  RegisterInv' /\ OneWriteEach
<1> DEFINE u == Askings[r].user
           b == IF Askings[r] \in Register!Writes THEN Askings[r].bio ELSE ShownBios[u]
<1>1. /\ Askings[r] \in Register!Reads \cup Register!Writes /\ u \in Stored
      /\ Sights[r] = <<>> /\ Askings' = Askings /\ reply' = reply
      /\ ShownBios' = IF Askings[r] \in Register!Writes
                      THEN [ShownBios EXCEPT ![u] = Askings[r].bio] ELSE ShownBios
      /\ Sights' = [Sights EXCEPT ![r] = <<ShownBios'[u]>>]
  BY DEF Register!Act, Register!NotYet
<1>2. b \in Shown /\ ShownBios \in [Stored -> Shown]
  BY <1>1, OpsApart DEF RegisterInv
<1>3. /\ ShownBios' \in [Stored -> Shown] /\ ShownBios'[u] = b
      /\ \A w \in Stored \ {u} : ShownBios'[w] = ShownBios[w]
  BY <1>1, <1>2
<1>4. Sights'[r] = <<b>> /\ \A o \in Requests \ {r} : Sights'[o] = Sights[o]
  BY <1>1, <1>3, SightsAreFunctions
<1>5. Acted(r)' /\ ~Acted(r) /\ SawItsMoment(r)'
  <2>1. <<b>> # <<>>
    OBVIOUS
  <2> QED
    BY <1>1, <1>2, <1>4, <2>1 DEF Acted, SawItsMoment
<1>6. ToldItsMoment(r)'
  <2>1. Askings[r].op \in {"read", "write"}
    BY <1>1, OpsApart
  <2>2. ToldItsMoment(r) /\ \A x \in Shown : Sights[r] # <<x>>
    BY <1>1 DEF RegisterInv
  <2>3. reply[r] = <<"no reply">> \/ reply[r] = <<500, "error">>
    BY <2>1, <2>2 DEF ToldItsMoment
  <2>4. reply'[r] = reply[r] /\ Askings'[r] = Askings[r]
    BY <1>1
  <2>5. CASE reply[r] = <<"no reply">>
    BY <2>4, <2>5 DEF ToldItsMoment
  <2>6. CASE reply[r] = <<500, "error">>
    BY <1>1, <2>4, <2>6 DEF ToldItsMoment
  <2> QED
    BY <2>3, <2>5, <2>6
<1>7. ASSUME NEW o \in Requests, o # r
      PROVE  (Acted(o)' => SawItsMoment(o)') /\ ToldItsMoment(o)'
  BY <1>1, <1>4, <1>7, MomentStays
<1>8. ShownBios'[u] # ShownBios[u] =>
        Askings[r] \in Register!Writes /\ ShownBios'[u] = Askings[r].bio
  BY <1>1, <1>3
<1> HIDE DEF u, b
<1>9. OneWriteEach
  <2>1. \A w \in Stored : ShownBios'[w] # ShownBios[w] => w = u
    BY <1>3
  <2>2. \A o \in Requests : Acted(o) => Sights'[o] = Sights[o] /\ Askings'[o] = Askings[o]
    BY <1>1, <1>4, <1>5
  <2> QED
    BY <1>5, <1>8, <2>1, <2>2 DEF OneWriteEach, u
<1> QED
  BY <1>3, <1>5, <1>6, <1>7, <1>9 DEF RegisterInv

LEMMA TellKeeps ==
  ASSUME RegisterInv, NEW r \in Requests, NEW status, NEW body,
         Register!Tell(r, status, body), reply'[r] = <<status, body>> => ToldItsMoment(r)'
  PROVE  RegisterInv' /\ OneWriteEach
<1>1. /\ ShownBios' = ShownBios /\ Askings' = Askings /\ Sights' = Sights
      /\ reply' = [reply EXCEPT ![r] = <<status, body>>]
  BY DEF Register!Tell
<1>2. ASSUME NEW o \in Requests
      PROVE  (Acted(o)' => SawItsMoment(o)') /\ ToldItsMoment(o)'
  <2>1. CASE o # r
    BY <1>1, <2>1, MomentStays
  <2>2. CASE o = r /\ r \in DOMAIN reply
    BY <1>1, <2>2, MomentStays
  <2>3. CASE r \notin DOMAIN reply
    BY <1>1, <2>3, MomentStays
  <2> QED
    BY <2>1, <2>2, <2>3
<1> QED
  BY <1>1, <1>2 DEF RegisterInv, OneWriteEach

(* What clients may conclude from a reply, for any number of requests,     *)
(* orphaned statements among them: a 200 shows the bio of the one moment   *)
(* its request acted, a write's its own; a 204 or 400 means that it never  *)
(* did; and every change of a bio is one write's, applied once.            *)
THEOREM RepliesShowOneMoment ==
  PatchSpec => []RegisterInv /\ [][OneWriteEach]_<<ShownBios, Askings, Sights, reply>>
<1>1. Register!Init => RegisterInv
  BY DEF Register!Init, Shown, Register!NotYet, Register!NoReply, RegisterInv, Acted, ToldItsMoment
<1>2. RegisterInv /\ [Register!Next]_(Register!registerVars) =>
        RegisterInv' /\ [OneWriteEach]_<<ShownBios, Askings, Sights, reply>>
  <2> SUFFICES ASSUME RegisterInv, [Register!Next]_(Register!registerVars)
               PROVE  RegisterInv' /\ [OneWriteEach]_<<ShownBios, Askings, Sights, reply>>
    OBVIOUS
  <2>1. CASE UNCHANGED Register!registerVars
    BY <2>1, MomentStays DEF Register!registerVars, RegisterInv
  <2>2. CASE Register!Next
    <3>1. PICK r \in Requests :
            \/ Register!Ask(r) \/ Register!Act(r) \/ Register!Show(r)
            \/ Register!NothingAsked(r) \/ Register!Refuse(r) \/ Register!Fail(r)
      BY <2>2 DEF Register!Next
    <3>2. Askings[r].op \in {"nothing", "unasked", "malformed"} => ~Acted(r)
      BY OpsApart DEF RegisterInv, SawItsMoment
    <3>3. CASE Register!Show(r)
      <4>1. PICK b \in Shown : Sights[r] = <<b>> /\ Register!Tell(r, 200, b)
        BY <3>3 DEF Register!Show, Shown
      <4>2. reply'[r] = <<200, b>> => ToldItsMoment(r)'
        BY <4>1 DEF Register!Tell, ToldItsMoment
      <4> QED
        BY <4>1, <4>2, TellKeeps
    <3>4. CASE Register!NothingAsked(r)
      <4>1. Askings[r].op = "nothing" /\ ~Acted(r) /\ Register!Tell(r, 204, "empty")
        BY <3>2, <3>4 DEF Register!NothingAsked
      <4>2. reply'[r] = <<204, "empty">> => ToldItsMoment(r)'
        BY <4>1 DEF Register!Tell, ToldItsMoment, Acted
      <4> QED
        BY <4>1, <4>2, TellKeeps
    <3>5. CASE Register!Refuse(r)
      <4>1. /\ Askings[r].op \in {"unasked", "malformed"} /\ ~Acted(r)
            /\ Register!Tell(r, 400, "error")
        BY <3>2, <3>5 DEF Register!Refuse
      <4>2. reply'[r] = <<400, "error">> => ToldItsMoment(r)'
        BY <4>1 DEF Register!Tell, ToldItsMoment, Acted
      <4> QED
        BY <4>1, <4>2, TellKeeps
    <3>6. CASE Register!Fail(r)
      <4>1. /\ Askings[r] \in Register!Reads \cup Register!Writes
            /\ Register!Tell(r, 500, "error")
        BY <3>6 DEF Register!Fail
      <4>2. reply'[r] = <<500, "error">> => ToldItsMoment(r)'
        BY <4>1 DEF Register!Tell, ToldItsMoment
      <4> QED
        BY <4>1, <4>2, TellKeeps
    <3> QED
      BY <3>1, <3>3, <3>4, <3>5, <3>6, AskKeeps, ActKeeps
  <2> QED
    BY <2>1, <2>2
<1> QED
  BY <1>1, <1>2, HandlersKeepRegister, PTL DEF BioRegisterSpec, Register!Spec
=============================================================================
