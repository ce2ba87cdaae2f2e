--------------------------- MODULE HandlerReplies ---------------------------
(***************************************************************************)
(* custom_http_handler and validate_structs: what a client is told.  The   *)
(* handlers of the first return an error, or an APIError, to a wrapper     *)
(* that answers for them; the handler of the second answers itself.  They  *)
(* share nothing between requests, so one request is modelled.  A document *)
(* is the sequence of its members, each a string or not, and may be cut    *)
(* short; what a string holds is abstracted to what validation tells       *)
(* apart.                                                                  *)
(***************************************************************************)
EXTENDS Naturals, Sequences, FiniteSetsExt

CONSTANT MaxMembers \* bound: the most members of a document

ASSUME RepliesAssumption == MaxMembers \in Nat

VARIABLES
  at,     \* "new", "handler", "returned" to the wrapper, or "done"
  route,  \* the handler the request is for
  doc,    \* the document the request carries
  read,   \* how many of its members are decoded
  fields, \* the struct they are decoded into
  err,    \* what the handler returned
  status, \* the status line, NoStatus before it is written
  body,   \* what the client can read, in order
  broken  \* whether a write has failed: no later one succeeds

replyVars == <<at, route, doc, read, fields, err, status, body, broken>>

Routes == {"index", "json", "json/error", "validate", "struct"}

NoStatus == 0
NoErrors == [f \in {} |-> ""]

(* "" is the empty string, "bad" one that fails a check other than that it *)
(* is there, "mistyped" a value that is not a string. *)
Values(f) ==
  {"", "good", "null", "mistyped"} \cup (IF f = "description" THEN {} ELSE {"bad"})
Strings == {"", "good", "bad"}

Fields(r) ==
  CASE r = "validate" -> {"email"}
    [] r = "struct" -> {"title", "description"}
    [] OTHER -> {}

Members(r) == UNION {[field : {f}, value : Values(f)] : f \in Fields(r)}

Documents(r) ==
  [members : UNION {[1 .. n -> Members(r)] : n \in 0 .. MaxMembers}, whole : BOOLEAN]

Success == [is |-> "success", errors |-> NoErrors]
Failure == [is |-> "failure", errors |-> NoErrors]
Told(errors) == [is |-> "errors", errors |-> errors]
Fragment == [is |-> "fragment", errors |-> NoErrors]

Nil == [code |-> NoStatus, message |-> Success]
PlainError == [code |-> NoStatus, message |-> Failure]
APIError(code, message) == [code |-> code, message |-> message]

RepliesInit ==
  /\ at = "new"
  /\ route \in Routes
  /\ doc \in Documents(route)
  /\ read = 0
  /\ fields = [f \in Fields(route) |-> ""]
  /\ err = Nil
  /\ status = NoStatus
  /\ body = <<>>
  /\ broken = FALSE

HandlerOf(r) == at = "new" /\ route = r

-----------------------------------------------------------------------------
(* encoding/json: a document that is cut short changes nothing; of the     *)
(* others it takes one member after the other, and passes over a null and, *)
(* to report it in the end, a member of the wrong type. *)

DecodeMember ==
  LET m == doc.members[read + 1] IN
  /\ HandlerOf("validate") \/ HandlerOf("struct")
  /\ doc.whole /\ read < Len(doc.members)
  /\ fields' = IF m.value \in Strings THEN [fields EXCEPT ![m.field] = m.value] ELSE fields
  /\ read' = read + 1
  /\ UNCHANGED <<at, route, doc, err, status, body, broken>>

DecodeReturns == doc.whole => read = Len(doc.members)

DecodeFails == ~doc.whole \/ \E i \in DOMAIN doc.members : doc.members[i].value = "mistyped"

(* The validator stops at the first tag of a field that fails. *)
FailedTag(s) == IF s = "" THEN "required" ELSE "invalid"

(* Mutant: a loop that returns at the first field. *)
FirstErrorOnly(v) ==
  LET f == CHOOSE g \in DOMAIN v : v[g] # "good"
  IN IF \A g \in DOMAIN v : v[g] = "good" THEN NoErrors ELSE [x \in {f} |-> FailedTag(v[f])]

(* The messages of ValidateStruct, and of request.Validate, by the name of *)
(* the field in the document; every language gets the English ones.        *)
Validate(v) == [f \in {g \in DOMAIN v : v[g] # "good"} |-> FailedTag(v[f])]

-----------------------------------------------------------------------------
(* http.ResponseWriter: the first status counts, and a write may fail,     *)
(* after part of it went out or before. *)

Write(code, document) ==
  /\ status' = IF status = NoStatus THEN code ELSE status
  /\ \/ ~broken /\ body' = Append(body, document) /\ UNCHANGED broken
     \/ broken' = TRUE /\ body' \in {body} \cup (IF broken THEN {} ELSE {Append(body, Fragment)})

Return(e) == at' = "returned" /\ err' = e

(* Index and JSONResponse hand on the error of their write. *)
Greet ==
  /\ HandlerOf("index") \/ HandlerOf("json")
  /\ Write(200, Success)
  /\ Return(IF broken' THEN PlainError ELSE Nil)
  /\ UNCHANGED <<route, doc, read, fields>>

(* Mutant: the handler answers and returns the error as well. *)
AnswersAndReturns ==
  /\ HandlerOf("json/error")
  /\ Write(404, Failure)
  /\ Return(APIError(404, Failure))
  /\ UNCHANGED <<route, doc, read, fields>>

JSONErrorResponse ==
  /\ HandlerOf("json/error")
  /\ Return(APIError(404, Failure))
  /\ UNCHANGED <<route, doc, read, fields, status, body, broken>>

(* The error of Decode is dropped, and so is that of the write. *)
JSONValidatePostRequest ==
  /\ HandlerOf("validate") /\ DecodeReturns
  /\ LET errMap == Validate(fields) IN
     IF errMap # NoErrors
     THEN Return(APIError(400, Told(errMap))) /\ UNCHANGED <<status, body, broken>>
     ELSE Return(Nil) /\ Write(200, Success)
  /\ UNCHANGED <<route, doc, read, fields>>

(* The wrapper tells an APIError from another error by its type. *)
MakeHttpHandler ==
  /\ at = "returned"
  /\ \/ err = Nil /\ UNCHANGED <<status, body, broken>>
     \/ err.code # NoStatus /\ Write(err.code, err.message)
     \/ err = PlainError /\ Write(500, Failure)
  /\ at' = "done"
  /\ UNCHANGED <<route, doc, read, fields, err>>

(* ValidateHandler never names a status: net/http sends 200.  The error    *)
(* that ValidateStruct returns is for what is no struct, and cannot come.  *)
ValidateHandler ==
  /\ HandlerOf("struct") /\ DecodeReturns
  /\ LET errMsgs == Validate(fields) IN
     IF DecodeFails
     THEN status' = 200 /\ UNCHANGED <<body, broken>>
     ELSE Write(200, IF errMsgs = NoErrors THEN Success ELSE Told(errMsgs))
  /\ at' = "done"
  /\ UNCHANGED <<route, doc, read, fields, err>>

RepliesNext ==
  \/ DecodeMember
  \/ Greet
  \/ JSONErrorResponse
  \/ JSONValidatePostRequest
  \/ MakeHttpHandler
  \/ ValidateHandler

RepliesSpec == RepliesInit /\ [][RepliesNext]_replyVars

-----------------------------------------------------------------------------
(* Properties. *)

(* The string a document gives last for a field, "" when it gives none.    *)
LastString(f) ==
  LET of == {i \in DOMAIN doc.members :
               doc.members[i].field = f /\ doc.members[i].value \in Strings}
  IN IF doc.whole /\ of # {} THEN doc.members[Max(of)].value ELSE ""

(* A client reads at most one document, and under the status that belongs  *)
(* to it, although a handler may have written before the error it returns; *)
(* without a failed write it reads one, but for a document ValidateHandler *)
(* could not decode (MakeHttpHandler, custom_handler.go).                  *)
ReplyIsOneDocument ==
  at = "done" =>
    /\ Len(body) <= 1
    /\ ~broken => (body = <<>> <=> route = "struct" /\ DecodeFails)
    /\ body # <<>> /\ body[1].is # "fragment" =>
         status = CASE body[1].is = "success" -> 200
                    [] body[1].is = "failure" -> 404
                    [] body[1].is = "errors" -> IF route = "validate" THEN 400 ELSE 200

(* A client that gets a document is told of success just when every        *)
(* field's last string passes, and otherwise of just the fields that do    *)
(* not, each with its reason.  A program that drops the error of Decode    *)
(* judges what was decoded before it: nothing of a document cut short,     *)
(* which is refused, and the strings around a mistyped member, which may   *)
(* pass (JSONValidatePostRequest, main.go; ValidateHandler, main.go).      *)
ValidationIsTold ==
  LET wrong == {f \in Fields(route) : LastString(f) # "good"} IN
  at = "done" /\ route \in {"validate", "struct"} /\ body # <<>> /\ body[1].is # "fragment" =>
    /\ body[1].is = "success" <=> wrong = {}
    /\ DOMAIN body[1].errors = wrong
    /\ \A f \in wrong : body[1].errors[f] = "required" <=> LastString(f) = ""
=============================================================================
