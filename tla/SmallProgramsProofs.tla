------------------------ MODULE SmallProgramsProofs -------------------------
(***************************************************************************)
(* Two programs that share nothing.  Of HandlerReplies: that a client      *)
(* reads one reply, and that it tells of the document it sent, for         *)
(* documents of any length.  Of ServerOptions: that a server is what its   *)
(* own options asked for last, for any number of calls and options.        *)
(***************************************************************************)
EXTENDS HandlerReplies, ServerOptions, TLAPS

RepliesTypeOK ==
  /\ at \in {"new", "returned", "done"}
  /\ route \in Routes
  /\ doc \in Documents(route)
  /\ read \in 0 .. Len(doc.members)
  /\ fields \in [Fields(route) -> Strings]

Gives(i, f) == doc.members[i].field = f /\ doc.members[i].value \in Strings

(* A field holds the last string that the members read so far give it.     *)
Latest(f) ==
  LET spots == {i \in 1 .. read : Gives(i, f)} IN
  \/ spots = {} /\ fields[f] = ""
  \/ \E i \in spots : fields[f] = doc.members[i].value /\ \A j \in spots : j <= i

DecodeInv ==
  /\ \A f \in Fields(route) : Latest(f)
  /\ ~doc.whole => read = 0

Errors == Validate(fields)
Verdict == IF Errors = NoErrors THEN Success ELSE Told(Errors)

Unwritten == status = NoStatus /\ body = <<>> /\ ~broken

(* The reply is out, or as much of it as a write that failed let through.  *)
Sent(code, message) ==
  \/ ~broken /\ status = code /\ body = <<message>>
  \/ broken /\ body \in {<<>>, <<Fragment>>}

Greeted ==
  /\ route \in {"index", "json"} /\ Sent(200, Success)
  /\ err = IF broken THEN PlainError ELSE Nil

Missing == route = "json/error" /\ err = APIError(404, Failure) /\ Unwritten

Validated ==
  /\ route = "validate" /\ DecodeReturns
  /\ \/ Errors # NoErrors /\ err = APIError(400, Verdict) /\ Unwritten
     \/ Errors = NoErrors /\ err = Nil /\ Sent(200, Verdict)

Answered ==
  \/ route \in {"index", "json"} /\ Sent(200, Success)
  \/ route = "json/error" /\ Sent(404, Failure)
  \/ route = "validate" /\ DecodeReturns /\ Sent(IF Errors = NoErrors THEN 200 ELSE 400, Verdict)
  \/ route = "struct" /\ DecodeReturns /\ ~DecodeFails /\ Sent(200, Verdict)
  \/ route = "struct" /\ DecodeFails /\ ~broken /\ body = <<>>

ReplyInv ==
  /\ at = "new" => Unwritten /\ err = Nil
  /\ at = "returned" => Greeted \/ Missing \/ Validated
  /\ at = "done" => Answered

RepliesInv == RepliesTypeOK /\ DecodeInv /\ ReplyInv

-----------------------------------------------------------------------------
(* Documents. *)

LEMMA DocumentFacts ==
  ASSUME RepliesTypeOK
  PROVE  /\ Len(doc.members) \in Nat /\ DOMAIN doc.members = 1 .. Len(doc.members)
         /\ \A i \in 1 .. Len(doc.members) : doc.members[i].field \in Fields(route)
         /\ doc.whole \in BOOLEAN
<1>1. doc \in [members : UNION {[1 .. n -> Members(route)] : n \in 0 .. MaxMembers},
               whole : BOOLEAN]
  BY DEF RepliesTypeOK, Documents
<1>2. PICK n \in 0 .. MaxMembers : doc.members \in [1 .. n -> Members(route)]
  BY <1>1
<1>3. n \in Nat
  BY RepliesAssumption
<1>4. doc.members \in Seq(Members(route)) /\ Len(doc.members) = n
  BY <1>2, <1>3
<1>5. \A m \in Members(route) : m.field \in Fields(route)
  BY DEF Members
<1> QED
  BY <1>1, <1>4, <1>5

(* What Decode leaves in a field is the last string given for it.          *)
LEMMA DecodedFields ==
  ASSUME RepliesTypeOK, DecodeInv, DecodeReturns, NEW f \in Fields(route)
  PROVE  fields[f] = LastString(f)
<1> DEFINE spots == {i \in 1 .. read : Gives(i, f)}
           all == {i \in DOMAIN doc.members : Gives(i, f)}
<1>1. LastString(f) = IF doc.whole /\ all # {} THEN doc.members[Max(all)].value ELSE ""
  BY DEF LastString, Gives
<1>2. Latest(f) /\ (~doc.whole => read = 0) /\ (doc.whole => read = Len(doc.members))
  BY DEF DecodeInv, DecodeReturns
<1>3. CASE ~doc.whole
  <2>1. spots = {}
    BY <1>2, <1>3
  <2> QED
    BY <1>1, <1>2, <1>3, <2>1 DEF Latest
<1>4. CASE doc.whole
  <2>1. spots = all
    BY <1>2, <1>4, DocumentFacts
  <2>2. CASE all = {}
    BY <1>1, <1>2, <2>1, <2>2 DEF Latest
  <2>3. CASE all # {}
    <3>1. PICK i \in all : fields[f] = doc.members[i].value /\ \A j \in all : j <= i
      BY <1>2, <2>1, <2>3 DEF Latest
    <3>2. all \subseteq Nat
      BY DocumentFacts
    <3>3. Max(all) = i
      BY <3>1, <3>2 DEF Max
    <3> QED
      BY <1>1, <1>4, <2>3, <3>1, <3>3
  <2> QED
    BY <2>2, <2>3
<1> QED
  BY <1>3, <1>4, DocumentFacts

LEMMA MemberKeeps ==
  ASSUME RepliesInv, DecodeMember
  PROVE  RepliesInv'
<1> DEFINE i == read + 1
           m == doc.members[i]
<1>1. /\ at = "new" /\ doc.whole /\ read < Len(doc.members)
      /\ fields' = IF m.value \in Strings THEN [fields EXCEPT ![m.field] = m.value] ELSE fields
      /\ read' = i /\ at' = at /\ route' = route /\ doc' = doc /\ err' = err
      /\ status' = status /\ body' = body /\ broken' = broken
  BY DEF DecodeMember, HandlerOf
<1>2. RepliesTypeOK /\ read \in Nat /\ i \in 1 .. Len(doc.members)
  BY <1>1, DocumentFacts DEF RepliesInv, RepliesTypeOK
<1>3. m.field \in Fields(route)
  BY <1>2, DocumentFacts
<1>4. RepliesTypeOK'
  <2>1. fields' \in [Fields(route) -> Strings]
    BY <1>1, <1>3 DEF RepliesInv, RepliesTypeOK
  <2> QED
    BY <1>1, <1>2, <2>1 DEF RepliesTypeOK
<1>5. ASSUME NEW f \in Fields(route) PROVE Latest(f)'
  <2> DEFINE spots == {k \in 1 .. read : Gives(k, f)}
  <2>1. {k \in 1 .. i : Gives(k, f)} = spots \cup (IF Gives(i, f) THEN {i} ELSE {})
    BY <1>2
  <2>2. Latest(f) /\ \A k : Gives(k, f)' <=> Gives(k, f)
    BY <1>1 DEF RepliesInv, DecodeInv, Gives
  <2>3. CASE Gives(i, f)
    <3>1. fields'[f] = m.value
      BY <1>1, <1>2, <2>3 DEF Gives, RepliesTypeOK
    <3>2. \A j \in spots \cup {i} : j <= i
      BY <1>2
    <3> QED
      BY <1>1, <2>1, <2>2, <2>3, <3>1, <3>2 DEF Latest
  <2>4. CASE ~Gives(i, f)
    <3>1. fields'[f] = fields[f]
      BY <1>1, <1>2, <2>4 DEF Gives, RepliesTypeOK
    <3>2. {k \in 1 .. read' : Gives(k, f)'} = spots
      BY <1>1, <2>1, <2>2, <2>4
    <3> QED
      BY <1>1, <2>2, <3>1, <3>2 DEF Latest
  <2> QED
    BY <2>3, <2>4
<1>6. DecodeInv'
  BY <1>1, <1>5 DEF DecodeInv
<1>7. ReplyInv'
  BY <1>1 DEF RepliesInv, ReplyInv, Unwritten
<1> QED
  BY <1>4, <1>6, <1>7 DEF RepliesInv

-----------------------------------------------------------------------------
(* Replies. *)

LEMMA MessageFacts ==
  /\ Success.is = "success" /\ Success.errors = NoErrors
  /\ Failure.is = "failure" /\ Fragment.is = "fragment"
  /\ \A e : Told(e).is = "errors" /\ Told(e).errors = e
BY DEF Success, Failure, Fragment, Told

LEMMA ErrorFacts ==
  /\ Nil.code = NoStatus /\ PlainError.code = NoStatus /\ Nil # PlainError
  /\ \A c, m : APIError(c, m).code = c /\ APIError(c, m).message = m
  /\ NoStatus = 0
BY MessageFacts DEF Nil, PlainError, APIError, NoStatus

(* The errors are of just the fields that hold no good string.             *)
LEMMA ValidateFacts ==
  ASSUME RepliesTypeOK
  PROVE  /\ DOMAIN Errors = {f \in Fields(route) : fields[f] # "good"}
         /\ \A f \in DOMAIN Errors : Errors[f] = "required" <=> fields[f] = ""
         /\ Errors = NoErrors <=> DOMAIN Errors = {}
<1>1. DOMAIN fields = Fields(route)
  BY DEF RepliesTypeOK
<1>2. DOMAIN Errors = {f \in Fields(route) : fields[f] # "good"}
  BY <1>1 DEF Errors, Validate
<1>3. \A f \in DOMAIN Errors : Errors[f] = FailedTag(fields[f])
  BY DEF Errors, Validate
<1>4. DOMAIN NoErrors = {}
  BY DEF NoErrors
<1>5. ASSUME DOMAIN Errors = {} PROVE Errors = NoErrors
  <2>1. {g \in DOMAIN fields : fields[g] # "good"} = {}
    BY <1>1, <1>2, <1>5
  <2>2. Errors = [f \in {} |-> FailedTag(fields[f])]
    BY <2>1 DEF Errors, Validate
  <2> QED
    BY <2>2 DEF NoErrors
<1> QED
  BY <1>2, <1>3, <1>4, <1>5 DEF FailedTag

LEMMA WriteSends ==
  ASSUME Unwritten, NEW code, NEW message, Write(code, message)
  PROVE  Sent(code, message)'
<1>1. status' = code /\ body = <<>> /\ ~broken
  BY DEF Write, Unwritten
<1>2. \/ ~broken' /\ body' = Append(<<>>, message)
      \/ broken' /\ body' \in {<<>>, Append(<<>>, Fragment)}
  BY <1>1 DEF Write
<1>3. \A m : Append(<<>>, m) = <<m>>
  OBVIOUS
<1> QED
  BY <1>1, <1>2, <1>3 DEF Sent

(* A write after one that failed lets nothing more through.                *)
LEMMA WriteAfterFailure ==
  ASSUME broken, body \in {<<>>, <<Fragment>>}, NEW code, NEW message, Write(code, message)
  PROVE  broken' /\ body' = body
BY DEF Write

Frozen == route' = route /\ doc' = doc /\ read' = read /\ fields' = fields

LEMMA FrozenKeeps ==
  ASSUME RepliesTypeOK, DecodeInv, Frozen, at' \in {"new", "returned", "done"}
  PROVE  /\ RepliesTypeOK' /\ DecodeInv'
         /\ Errors' = Errors /\ Verdict' = Verdict
         /\ (DecodeReturns' <=> DecodeReturns) /\ (DecodeFails' <=> DecodeFails)
<1>1. RepliesTypeOK'
  BY DEF RepliesTypeOK, Frozen
<1>2. Errors' = Errors /\ Verdict' = Verdict
  BY DEF Errors, Verdict, Frozen
<1>3. (DecodeReturns' <=> DecodeReturns) /\ (DecodeFails' <=> DecodeFails)
  BY DEF DecodeReturns, DecodeFails, Frozen
<1>4. DecodeInv'
  BY DEF DecodeInv, Latest, Gives, Frozen
<1> QED
  BY <1>1, <1>2, <1>3, <1>4

LEMMA HandlersReturn ==
  ASSUME RepliesInv, Greet \/ JSONErrorResponse \/ JSONValidatePostRequest
  PROVE  RepliesInv'
<1>1. at = "new" /\ at' = "returned" /\ Frozen /\ Unwritten
  BY DEF Greet, JSONErrorResponse, JSONValidatePostRequest, HandlerOf, Return, Frozen,
    RepliesInv, ReplyInv
<1>2. /\ RepliesTypeOK' /\ DecodeInv' /\ Errors' = Errors /\ Verdict' = Verdict
      /\ DecodeReturns' <=> DecodeReturns
  BY <1>1, FrozenKeeps DEF RepliesInv
<1>3. CASE Greet
  <2>1. /\ route \in {"index", "json"} /\ Sent(200, Success)'
        /\ err' = IF broken' THEN PlainError ELSE Nil
    BY <1>1, <1>3, WriteSends DEF Greet, HandlerOf, Return
  <2> QED
    BY <1>1, <1>2, <2>1 DEF Greeted, RepliesInv, ReplyInv, Frozen
<1>4. CASE JSONErrorResponse
  BY <1>1, <1>2, <1>4
  DEF JSONErrorResponse, HandlerOf, Return, Missing, Unwritten, RepliesInv, ReplyInv, Frozen
<1>5. CASE JSONValidatePostRequest
  <2>1. /\ route = "validate" /\ DecodeReturns
        /\ IF Errors # NoErrors
             THEN err' = APIError(400, Told(Errors)) /\ status' = status /\ body' = body
                  /\ broken' = broken
             ELSE err' = Nil /\ Write(200, Success)
    BY <1>5 DEF JSONValidatePostRequest, HandlerOf, Return, Errors
  <2>2. Validated'
    <3>1. CASE Errors # NoErrors
      <4>1. Verdict = Told(Errors)
        BY <3>1 DEF Verdict
      <4> QED
        BY <1>1, <1>2, <2>1, <3>1, <4>1 DEF Validated, Unwritten, Frozen
    <3>2. CASE Errors = NoErrors
      <4>1. Verdict = Success /\ Sent(200, Success)'
        BY <1>1, <2>1, <3>2, WriteSends DEF Verdict
      <4>2. Sent(200, Verdict)'
        BY <1>2, <4>1 DEF Sent
      <4> QED
        BY <1>1, <1>2, <2>1, <3>2, <4>2 DEF Validated, Frozen
    <3> QED
      BY <3>1, <3>2
  <2> QED
    BY <1>1, <1>2, <2>2 DEF RepliesInv, ReplyInv
<1> QED
  BY <1>3, <1>4, <1>5

LEMMA ValidateHandlerAnswers ==
  ASSUME RepliesInv, ValidateHandler
  PROVE  RepliesInv'
<1>1. /\ at = "new" /\ at' = "done" /\ Frozen /\ Unwritten /\ route = "struct" /\ DecodeReturns
      /\ IF DecodeFails THEN body' = body /\ broken' = broken ELSE Write(200, Verdict)
  BY DEF ValidateHandler, HandlerOf, Frozen, RepliesInv, ReplyInv, Verdict, Errors
<1>2. /\ RepliesTypeOK' /\ DecodeInv' /\ Verdict' = Verdict
      /\ (DecodeReturns' <=> DecodeReturns) /\ (DecodeFails' <=> DecodeFails)
  BY <1>1, FrozenKeeps DEF RepliesInv
<1>3. Answered'
  <2>1. CASE DecodeFails
    BY <1>1, <1>2, <2>1 DEF Answered, Unwritten, Frozen
  <2>2. CASE ~DecodeFails
    <3>1. Sent(200, Verdict)'
      <4> DEFINE v == Verdict
      <4> HIDE DEF v
      <4>1. Write(200, v)
        BY <1>1, <2>2 DEF v
      <4> QED
        BY <1>1, <1>2, <2>2, WriteSends DEF Sent, Write, Unwritten
    <3> QED
      BY <1>1, <1>2, <2>2, <3>1 DEF Answered, Frozen
  <2> QED
    BY <2>1, <2>2
<1> QED
  BY <1>1, <1>2, <1>3 DEF RepliesInv, ReplyInv

LEMMA WrapperAnswers ==
  ASSUME RepliesInv, MakeHttpHandler
  PROVE  RepliesInv'
<1>1. /\ at = "returned" /\ at' = "done" /\ Frozen
      /\ \/ err = Nil /\ status' = status /\ body' = body /\ broken' = broken
         \/ err.code # NoStatus /\ Write(err.code, err.message)
         \/ err = PlainError /\ Write(500, Failure)
  BY DEF MakeHttpHandler, Frozen
<1>2. /\ RepliesTypeOK' /\ DecodeInv' /\ Errors' = Errors /\ Verdict' = Verdict
      /\ DecodeReturns' <=> DecodeReturns
  BY <1>1, FrozenKeeps DEF RepliesInv
<1>3. Greeted \/ Missing \/ Validated
  BY <1>1 DEF RepliesInv, ReplyInv
<1>4. CASE Greeted
  <2>1. CASE ~broken
    <3>1. status' = status /\ body' = body /\ broken' = broken
      BY <1>1, <1>4, <2>1, ErrorFacts DEF Greeted
    <3> QED
      BY <1>1, <1>2, <1>4, <3>1 DEF Greeted, Sent, Answered, RepliesInv, ReplyInv, Frozen
  <2>2. CASE broken
    <3>1. Write(500, Failure) /\ body \in {<<>>, <<Fragment>>}
      BY <1>1, <1>4, <2>2, ErrorFacts DEF Greeted, Sent
    <3>2. broken' /\ body' = body
      BY <2>2, <3>1, WriteAfterFailure
    <3> QED
      BY <1>1, <1>2, <1>4, <3>1, <3>2 DEF Greeted, Sent, Answered, RepliesInv, ReplyInv, Frozen
  <2> QED
    BY <2>1, <2>2
<1>5. CASE Missing
  <2>1. Write(404, Failure) /\ Unwritten
    BY <1>1, <1>5, ErrorFacts DEF Missing
  <2> QED
    BY <1>1, <1>2, <1>5, <2>1, WriteSends
    DEF Missing, Answered, RepliesInv, ReplyInv, Frozen
<1>6. CASE Validated
  <2>1. CASE Errors = NoErrors
    <3>1. err = Nil /\ Sent(200, Verdict)
      BY <1>6, <2>1 DEF Validated
    <3>2. Sent(200, Verdict)'
      BY <1>1, <1>2, <3>1, ErrorFacts DEF Sent
    <3> QED
      BY <1>1, <1>2, <1>6, <2>1, <3>2 DEF Validated, Answered, RepliesInv, ReplyInv, Frozen
  <2>2. CASE Errors # NoErrors
    <3>1. err = APIError(400, Verdict) /\ Unwritten
      BY <1>6, <2>2 DEF Validated
    <3>2. Write(400, Verdict)
      BY <1>1, <3>1, ErrorFacts
    <3>3. Sent(400, Verdict)'
      BY <1>2, <3>1, <3>2, WriteSends DEF Sent
    <3> QED
      BY <1>1, <1>2, <1>6, <2>2, <3>3 DEF Validated, Answered, RepliesInv, ReplyInv, Frozen
  <2> QED
    BY <2>1, <2>2
<1> QED
  BY <1>3, <1>4, <1>5, <1>6

-----------------------------------------------------------------------------

(* Decoding keeps the last string of every field, and what is sent is what *)
(* the struct calls for, in every state.                                   *)
THEOREM RepliesInvariant == RepliesSpec => []RepliesInv
<1>1. RepliesInit => RepliesInv
  <2> SUFFICES ASSUME RepliesInit PROVE RepliesInv
    OBVIOUS
  <2>1. doc.members \in UNION {[1 .. n -> Members(route)] : n \in 0 .. MaxMembers}
    BY DEF RepliesInit, Documents
  <2>2. Len(doc.members) \in Nat
    BY <2>1, RepliesAssumption
  <2>3. fields \in [Fields(route) -> Strings]
    BY DEF RepliesInit, Strings
  <2>4. RepliesTypeOK
    <3>1. at \in {"new", "returned", "done"} /\ route \in Routes /\ doc \in Documents(route)
      BY DEF RepliesInit
    <3>2. read = 0
      BY DEF RepliesInit
    <3> QED
      BY <2>2, <2>3, <3>1, <3>2 DEF RepliesTypeOK
  <2>5. DecodeInv
    <3>1. read = 0 /\ \A f \in Fields(route) : fields[f] = ""
      BY DEF RepliesInit
    <3>2. \A i \in 1 .. read : FALSE
      <4>1. read = 0
        BY <3>1
      <4> QED
        BY <4>1
    <3>3. \A f \in Fields(route) : Latest(f)
      BY <3>1, <3>2 DEF Latest
    <3> QED
      BY <3>1, <3>3 DEF DecodeInv
  <2> QED
    BY <2>4, <2>5 DEF RepliesInit, RepliesInv, ReplyInv, Unwritten
<1>2. RepliesInv /\ [RepliesNext]_replyVars => RepliesInv'
  <2> SUFFICES ASSUME RepliesInv, [RepliesNext]_replyVars PROVE RepliesInv'
    OBVIOUS
  <2>1. CASE UNCHANGED replyVars
    <3>1. /\ at' = at /\ Frozen /\ err' = err /\ status' = status /\ body' = body
          /\ broken' = broken
      BY <2>1 DEF replyVars, Frozen
    <3>2. /\ RepliesTypeOK' /\ DecodeInv' /\ Errors' = Errors /\ Verdict' = Verdict
          /\ (DecodeReturns' <=> DecodeReturns) /\ (DecodeFails' <=> DecodeFails)
      BY <3>1, FrozenKeeps DEF RepliesInv, RepliesTypeOK
    <3> QED
      BY <3>1, <3>2 DEF RepliesInv, ReplyInv, Greeted, Missing, Validated, Answered, Sent,
        Unwritten, Frozen
  <2>2. CASE RepliesNext
    BY <2>2, MemberKeeps, HandlersReturn, WrapperAnswers, ValidateHandlerAnswers DEF RepliesNext
  <2> QED
    BY <2>1, <2>2
<1> QED
  BY <1>1, <1>2, PTL DEF RepliesSpec

LEMMA SentFacts ==
  ASSUME NEW code, NEW message, Sent(code, message)
  PROVE  /\ Len(body) <= 1
         /\ ~broken => body # <<>>
         /\ body # <<>> /\ body[1].is # "fragment" => body[1] = message /\ status = code
<1>1. \A m : Len(<<m>>) = 1 /\ <<m>> # <<>> /\ <<m>>[1] = m
  OBVIOUS
<1>2. Len(<<>>) = 0
  OBVIOUS
<1>3. CASE ~broken /\ status = code /\ body = <<message>>
  BY <1>1, <1>3
<1>4. CASE broken /\ body = <<>>
  BY <1>2, <1>4
<1>5. CASE broken /\ body = <<Fragment>>
  BY <1>1, <1>5, MessageFacts
<1> QED
  BY <1>3, <1>4, <1>5 DEF Sent

LEMMA VerdictFacts ==
  /\ Errors = NoErrors => Verdict.is = "success"
  /\ Errors # NoErrors => Verdict.is = "errors"
  /\ Verdict.errors = Errors
BY MessageFacts DEF Verdict

(* A client reads at most one document, under its own status, and none     *)
(* only when a write failed or ValidateHandler could not decode:           *)
(* ReplyIsOneDocument of MCHandlerReplies.cfg.                             *)
THEOREM OneReplyIsSent == RepliesSpec => []ReplyIsOneDocument
<1>1. RepliesInv => ReplyIsOneDocument
  <2> SUFFICES ASSUME RepliesInv, at = "done" PROVE ReplyIsOneDocument
    BY DEF ReplyIsOneDocument
  <2>1. Answered
    BY DEF RepliesInv, ReplyInv
  <2>2. CASE route = "struct" /\ DecodeFails /\ ~broken /\ body = <<>>
    BY <2>2 DEF ReplyIsOneDocument
  <2>3. CASE route \in {"index", "json"} /\ Sent(200, Success)
    BY <2>3, SentFacts, MessageFacts DEF ReplyIsOneDocument
  <2>4. CASE route = "json/error" /\ Sent(404, Failure)
    BY <2>4, SentFacts, MessageFacts DEF ReplyIsOneDocument
  <2>5. CASE route = "validate" /\ Sent(IF Errors = NoErrors THEN 200 ELSE 400, Verdict)
    BY <2>5, SentFacts, VerdictFacts DEF ReplyIsOneDocument
  <2>6. CASE route = "struct" /\ ~DecodeFails /\ Sent(200, Verdict)
    BY <2>6, SentFacts, VerdictFacts DEF ReplyIsOneDocument
  <2> QED
    BY <2>1, <2>2, <2>3, <2>4, <2>5, <2>6 DEF Answered
<1> QED
  BY <1>1, RepliesInvariant, PTL

(* What a client is told of its fields is what the last string it gave for *)
(* each calls for: ValidationIsTold of MCHandlerReplies.cfg, for documents *)
(* of any length.                                                          *)
THEOREM FieldsAreTold == RepliesSpec => []ValidationIsTold
<1>1. RepliesInv => ValidationIsTold
  <2> DEFINE wrong == {f \in Fields(route) : LastString(f) # "good"}
  <2> SUFFICES ASSUME RepliesInv, at = "done", route \in {"validate", "struct"},
                      body # <<>>, body[1].is # "fragment"
               PROVE  /\ body[1].is = "success" <=> wrong = {}
                      /\ DOMAIN body[1].errors = wrong
                      /\ \A f \in wrong :
                           body[1].errors[f] = "required" <=> LastString(f) = ""
    BY DEF ValidationIsTold
  <2>1. DecodeReturns /\ body[1] = Verdict
    BY SentFacts DEF RepliesInv, ReplyInv, Answered
  <2>2. RepliesTypeOK /\ \A f \in Fields(route) : fields[f] = LastString(f)
    BY <2>1, DecodedFields DEF RepliesInv
  <2>3. wrong = DOMAIN Errors
    BY <2>2, ValidateFacts
  <2>4. \A f \in wrong : Errors[f] = "required" <=> LastString(f) = ""
    BY <2>2, <2>3, ValidateFacts
  <2>5. Verdict.is = "success" <=> wrong = {}
    BY <2>2, <2>3, ValidateFacts, VerdictFacts
  <2> HIDE DEF wrong
  <2> QED
    BY <2>1, <2>3, <2>4, <2>5, VerdictFacts
<1> QED
  BY <1>1, RepliesInvariant, PTL
-----------------------------------------------------------------------------
(* ServerOptions. *)

SettingNames == {"port", "serverName"} \cup Timeouts

(* v is the value the last of a call's options for a field named, or the   *)
(* default when none was for it.                                           *)
LastNamed(b, field, v) ==
  LET of == {i \in 1 .. Len(given[b]) : given[b][i].field = field} IN
  \/ of = {} /\ v = Defaults[field]
  \/ \E i \in of : v = given[b][i].value /\ \A j \in of : j <= i

OptionsTypeOK ==
  /\ phase \in [Builds -> {"idle", "building", "built", "refused"}]
  /\ given \in [Builds -> Seq(Option)]
  /\ options = [b \in Builds |-> options[b]]
  /\ server = [b \in Builds |-> server[b]]

(* A call that is being served holds a copy on which its own options alone *)
(* have worked; the defaults it is a copy of never change.                 *)
CopyIsOwn(b) ==
  /\ phase[b] = "idle" => given[b] = <<>>
  /\ phase[b] = "building" =>
       /\ options[b] = [f \in SettingNames |-> options[b][f]]
       /\ \A f \in SettingNames : LastNamed(b, f, options[b][f])

ServerIsAsked(b) ==
  phase[b] = "built" =>
    /\ \A f \in SettingNames \ {"writeTimeout"} : LastNamed(b, f, server[b][f])
    /\ LastNamed(b, "readTimeout", server[b].writeTimeout)

OptionsInv ==
  /\ OptionsTypeOK
  /\ defaultServerOpts = Defaults
  /\ \A b \in Builds : CopyIsOwn(b) /\ ServerIsAsked(b)

(* One more option takes the place of those for its field, and of no other.*)
LEMMA AppendNames ==
  ASSUME NEW b \in Builds, NEW opt \in Option, OptionsTypeOK,
         given' = [given EXCEPT ![b] = Append(@, opt)]
  PROVE  /\ given' \in [Builds -> Seq(Option)]
         /\ \A f : f # opt.field =>
              \A v : LastNamed(b, f, v) => LastNamed(b, f, v)'
         /\ LastNamed(b, opt.field, opt.value)'
         /\ \A c \in Builds \ {b} : given'[c] = given[c]
<1> DEFINE n == Len(given[b])
<1>1. given[b] \in Seq(Option) /\ n \in Nat
  BY DEF OptionsTypeOK
<1>2. given'[b] = Append(given[b], opt)
  BY DEF OptionsTypeOK
<1>3. /\ Len(given'[b]) = n + 1 /\ given'[b][n + 1] = opt
      /\ \A i \in 1 .. n : given'[b][i] = given[b][i]
  BY <1>1, <1>2
<1>4. given' \in [Builds -> Seq(Option)] /\ \A c \in Builds \ {b} : given'[c] = given[c]
  BY <1>1 DEF OptionsTypeOK
<1>5. ASSUME NEW f, f # opt.field, NEW v, LastNamed(b, f, v)
      PROVE  LastNamed(b, f, v)'
  <2> DEFINE of == {i \in 1 .. n : given[b][i].field = f}
             later == {i \in 1 .. n + 1 : given'[b][i].field = f}
  <2>1. later = of
    BY <1>1, <1>3, <1>5
  <2>2. \/ of = {} /\ v = Defaults[f]
        \/ \E i \in of : v = given[b][i].value /\ \A j \in of : j <= i
    BY <1>5 DEF LastNamed
  <2>3. \/ later = {} /\ v = Defaults[f]
        \/ \E i \in later : v = given'[b][i].value /\ \A j \in later : j <= i
    BY <1>3, <2>1, <2>2
  <2> QED
    BY <1>3, <2>3 DEF LastNamed, Defaults
<1>6. LastNamed(b, opt.field, opt.value)'
  <2> DEFINE later == {i \in 1 .. n + 1 : given'[b][i].field = opt.field}
  <2>1. n + 1 \in later /\ \A j \in later : j <= n + 1
    BY <1>1, <1>3
  <2> QED
    BY <1>3, <2>1 DEF LastNamed
<1> QED
  BY <1>4, <1>5, <1>6

(* A call that does not step keeps what it has. *)
LEMMA OthersKeep ==
  ASSUME NEW c \in Builds, CopyIsOwn(c), ServerIsAsked(c),
         phase'[c] = phase[c], given'[c] = given[c],
         options'[c] = options[c], server'[c] = server[c]
  PROVE  CopyIsOwn(c)' /\ ServerIsAsked(c)'
BY DEF CopyIsOwn, ServerIsAsked, LastNamed, SettingNames, Timeouts, Defaults

LEMMA OptionsStart == OptionsInit => OptionsInv
BY DEF OptionsInit, OptionsInv, OptionsTypeOK, CopyIsOwn, ServerIsAsked

LEMMA BeginKeeps ==
  ASSUME OptionsInv, NEW b \in Builds, Begin(b)
  PROVE  OptionsInv'
<1>1. OptionsTypeOK' /\ defaultServerOpts' = Defaults
  BY DEF Begin, OptionsInv, OptionsTypeOK
<1>2. \A c \in Builds \ {b} : CopyIsOwn(c)' /\ ServerIsAsked(c)'
  BY OthersKeep DEF Begin, OptionsInv, OptionsTypeOK
<1>3. given'[b] = <<>> /\ options'[b] = Defaults /\ phase'[b] = "building"
  BY DEF Begin, OptionsInv, OptionsTypeOK, CopyIsOwn
<1>4. CopyIsOwn(b)' /\ ServerIsAsked(b)'
  BY <1>3 DEF CopyIsOwn, ServerIsAsked, LastNamed, Defaults, SettingNames, Timeouts
<1> QED
  BY <1>1, <1>2, <1>4 DEF OptionsInv

LEMMA ApplyKeeps ==
  ASSUME OptionsInv, NEW b \in Builds, NEW opt \in Option, Apply(b, opt)
  PROVE  OptionsInv'
<1>1. OptionsTypeOK /\ given' = [given EXCEPT ![b] = Append(@, opt)]
  BY DEF OptionsInv, Apply
<1>2. OptionsTypeOK' /\ defaultServerOpts' = Defaults
  BY <1>1, AppendNames DEF Apply, OptionsInv, OptionsTypeOK
<1>3. \A c \in Builds \ {b} : CopyIsOwn(c)' /\ ServerIsAsked(c)'
  BY <1>1, AppendNames, OthersKeep DEF Apply, OptionsInv, OptionsTypeOK
<1>4. phase[b] = "building" /\ phase'[b] = "building" /\ CopyIsOwn(b)
  BY DEF Apply, OptionsInv
<1>5. opt.field \in SettingNames
  BY DEF Option, SettingNames
<1>6. options'[b] = [options[b] EXCEPT ![opt.field] = opt.value]
  BY DEF Apply, OptionsInv, OptionsTypeOK
<1>7. options'[b] = [f \in SettingNames |-> IF f = opt.field THEN opt.value ELSE options[b][f]]
  BY <1>4, <1>5, <1>6 DEF CopyIsOwn
<1>8. ASSUME NEW f \in SettingNames
      PROVE  LastNamed(b, f, options[b][f])'
  <2>1. CASE f = opt.field
    <3>1. LastNamed(b, opt.field, opt.value)' /\ options'[b][f] = opt.value
      BY <1>1, <1>7, <2>1, AppendNames
    <3> QED
      BY <2>1, <3>1 DEF LastNamed
  <2>2. CASE f # opt.field
    <3>1. LastNamed(b, f, options[b][f])
      BY <1>4 DEF CopyIsOwn
    <3>2. options'[b][f] = options[b][f]
      BY <1>7, <2>2
    <3>3. PICK v : v = options[b][f]
      OBVIOUS
    <3>4. LastNamed(b, f, v)'
      BY <1>1, <2>2, <3>1, <3>3, AppendNames
    <3> QED
      BY <3>2, <3>3, <3>4 DEF LastNamed
  <2> QED
    BY <2>1, <2>2
<1>9. CopyIsOwn(b)' /\ ServerIsAsked(b)'
  <2>1. options'[b] = [f \in SettingNames |-> options'[b][f]]
    BY <1>7
  <2> QED
    BY <1>4, <1>8, <2>1 DEF CopyIsOwn, ServerIsAsked, SettingNames, Timeouts
<1> QED
  BY <1>2, <1>3, <1>9 DEF OptionsInv

LEMMA RefuseKeeps ==
  ASSUME OptionsInv, NEW b \in Builds, NEW opt \in Option, Refuse(b, opt)
  PROVE  OptionsInv'
<1>1. OptionsTypeOK' /\ defaultServerOpts' = Defaults
  BY DEF Refuse, OptionsInv, OptionsTypeOK
<1>2. \A c \in Builds \ {b} : CopyIsOwn(c)' /\ ServerIsAsked(c)'
  BY OthersKeep DEF Refuse, OptionsInv, OptionsTypeOK
<1>3. CopyIsOwn(b)' /\ ServerIsAsked(b)'
  BY DEF Refuse, OptionsInv, OptionsTypeOK, CopyIsOwn, ServerIsAsked
<1> QED
  BY <1>1, <1>2, <1>3 DEF OptionsInv

LEMMA FinishKeeps ==
  ASSUME OptionsInv, NEW b \in Builds, Finish(b)
  PROVE  OptionsInv'
<1>1. OptionsTypeOK' /\ defaultServerOpts' = Defaults
  BY DEF Finish, OptionsInv, OptionsTypeOK
<1>2. \A c \in Builds \ {b} : CopyIsOwn(c)' /\ ServerIsAsked(c)'
  BY OthersKeep DEF Finish, OptionsInv, OptionsTypeOK
<1>3. \A f \in SettingNames : LastNamed(b, f, options[b][f])
  BY DEF Finish, OptionsInv, CopyIsOwn
<1>4. /\ server'[b] = [port |-> options[b].port, readTimeout |-> options[b].readTimeout,
                       writeTimeout |-> options[b].readTimeout,
                       serverName |-> options[b].serverName]
      /\ phase'[b] = "built" /\ given' = given
  BY DEF Finish, OptionsInv, OptionsTypeOK
<1>5. /\ \A f \in SettingNames \ {"writeTimeout"} : LastNamed(b, f, server'[b][f])
      /\ LastNamed(b, "readTimeout", server'[b].writeTimeout)
  BY <1>3, <1>4 DEF SettingNames, Timeouts
<1>6. CopyIsOwn(b)' /\ ServerIsAsked(b)'
  <2>1. CopyIsOwn(b)'
    BY <1>4 DEF CopyIsOwn
  <2>2. \A f \in SettingNames \ {"writeTimeout"} : LastNamed(b, f, server[b][f])'
    BY <1>4, <1>5 DEF LastNamed
  <2>3. LastNamed(b, "readTimeout", server[b].writeTimeout)'
    BY <1>4, <1>5 DEF LastNamed
  <2> QED
    BY <2>1, <2>2, <2>3 DEF ServerIsAsked, SettingNames, Timeouts
<1> QED
  BY <1>1, <1>2, <1>6 DEF OptionsInv

(* Calls of NewServer work each on a copy of the defaults, which none      *)
(* changes (NewServer, main.go).                                           *)
THEOREM OptionsInvariant == OptionsSpec => []OptionsInv
<1>1. ASSUME OptionsInv, [OptionsNext]_optionVars
      PROVE  OptionsInv'
  <2>1. CASE UNCHANGED optionVars
    BY <1>1, <2>1 DEF optionVars, OptionsInv, OptionsTypeOK, CopyIsOwn, ServerIsAsked, LastNamed
  <2>2. ASSUME NEW b \in Builds, Begin(b)
        PROVE  OptionsInv'
    BY <1>1, <2>2, BeginKeeps
  <2>3. ASSUME NEW b \in Builds, Finish(b)
        PROVE  OptionsInv'
    BY <1>1, <2>3, FinishKeeps
  <2>4. ASSUME NEW b \in Builds, NEW opt \in Option, Apply(b, opt)
        PROVE  OptionsInv'
    BY <1>1, <2>4, ApplyKeeps
  <2>5. ASSUME NEW b \in Builds, NEW opt \in Option, Refuse(b, opt)
        PROVE  OptionsInv'
    BY <1>1, <2>5, RefuseKeeps
  <2> QED
    BY <1>1, <2>1, <2>2, <2>3, <2>4, <2>5 DEF OptionsNext
<1> QED
  BY OptionsStart, <1>1, PTL DEF OptionsSpec

(* The last option named is the one at the greatest of its indices.        *)
LEMMA LastIsAsked ==
  ASSUME OptionsTypeOK, NEW b \in Builds, NEW f, NEW v, LastNamed(b, f, v)
  PROVE  v = Asked(b, f)
<1> DEFINE of == {i \in 1 .. Len(given[b]) : given[b][i].field = f}
<1>1. given[b] \in Seq(Option) /\ DOMAIN given[b] = 1 .. Len(given[b]) /\ Len(given[b]) \in Nat
  BY DEF OptionsTypeOK
<1>2. Asked(b, f) = IF of = {} THEN Defaults[f] ELSE given[b][Max(of)].value
  BY <1>1 DEF Asked
<1>3. CASE of = {}
  BY <1>2, <1>3 DEF LastNamed
<1>4. CASE of # {}
  <2>1. PICK i \in of : v = given[b][i].value /\ \A j \in of : j <= i
    BY <1>4 DEF LastNamed
  <2>2. of \subseteq Nat
    BY <1>1
  <2>3. Max(of) = i
    <3>1. i \in of /\ \A j \in of : i >= j
      BY <2>1, <2>2
    <3>2. \A k \in of : (\A j \in of : k >= j) => k = i
      BY <2>2, <3>1
    <3> QED
      BY <3>1, <3>2 DEF Max
  <2> QED
    BY <1>2, <1>4, <2>1, <2>3
<1> QED
  BY <1>3, <1>4

(* A server has the port, the read timeout and the name that the last such *)
(* option of its own call asked for, or the default, whatever other calls  *)
(* did before it or beside it; and its write timeout is always what was    *)
(* asked for the read timeout, as a server of the defaults shows.            *)
THEOREM ServersAreAsAsked ==
  OptionsSpec =>
    /\ []LastOptionWins
    /\ [](\A b \in Builds : phase[b] = "built" =>
            server[b].writeTimeout = Asked(b, "readTimeout"))
<1>1. OptionsInv => LastOptionWins
  BY LastIsAsked
  DEF OptionsInv, LastOptionWins, ServerIsAsked, SettingNames, Timeouts
<1>2. OptionsInv => \A b \in Builds : phase[b] = "built" =>
                      server[b].writeTimeout = Asked(b, "readTimeout")
  BY LastIsAsked DEF OptionsInv, ServerIsAsked
<1> QED
  BY <1>1, <1>2, OptionsInvariant, PTL
=============================================================================
