------------------------- MODULE CanonicalLogProofs -------------------------
(***************************************************************************)
(* What the canonical line and the records of a request tell, proved for   *)
(* any number of requests, whatever usernames they ask for.                *)
(***************************************************************************)
EXTENDS CanonicalLog, TLAPS, FiniteSetTheorems

(* The queries a request may run, and what may be logged of one.           *)
Outcomes == QueryErrors \cup {NoError, UniqueViolation}

Traceable ==
  {Query(insertArgs(r), e) : r \in Requests, e \in Outcomes}
    \cup {Query(countArgs(r), e) : r \in Requests, e \in Outcomes}

Loggable ==
  {Decoded(r) : r \in Requests}
    \cup {Record("creating user", [username |-> Username[r]]) : r \in Requests}
    \cup {Record("created user", [username |-> Username[r]]) : r \in Requests}
    \cup {QueryRecord(q) : q \in Traceable}
    \cup {WriteFailed, Record("create user failed", Empty)}

(* The records that are not of a query. *)
Asides == {x \in Loggable : x.msg # "postgres/query"}

LogTypeOK ==
  /\ at \in [Requests -> {"new", "insert", "count", "respond", "error", "log", "finished"}]
  /\ DOMAIN bag = Requests
  /\ statusCode \in [Requests -> Nat] /\ wire \in [Requests -> Nat]
  /\ wroteHeader \in [Requests -> BOOLEAN]
  /\ rows \subseteq Requests
  /\ ran \in [Requests -> Seq(Traceable)]
  /\ log \in [Requests -> Seq(Loggable)]
  /\ DOMAIN line = Requests

(* The status recorded is the status sent, and only the response that      *)
(* broke off after its header reaches the error path with one.             *)
HeaderInv(r) ==
  /\ wroteHeader[r] => wire[r] = statusCode[r]
  /\ ~wroteHeader[r] => wire[r] = NoStatus
  /\ at[r] \in {"new", "insert", "count", "respond"} => ~wroteHeader[r]
  /\ at[r] = "error" /\ wroteHeader[r] => wire[r] = 201
  /\ at[r] \in {"log", "finished"} => wroteHeader[r]

Outcome(r) == Field(bag[r], "service.outcome", "")
Rows(r) == Field(bag[r], "db.rows_affected", 0)
Errors(r) == Field(bag[r], "db.error_count", 0)

(* What the bag tells of the outcome at each place of the handler: a user  *)
(* that exists is told of, by a created outcome or by a failed one and a   *)
(* row or an error.                                                        *)
OutcomeInv(r) ==
  /\ at[r] \in {"new", "insert"} => Outcome(r) = "" /\ r \notin rows
  /\ at[r] = "count" => Outcome(r) = "" /\ r \in rows /\ Rows(r) + Errors(r) >= 1
  /\ at[r] = "respond" => Outcome(r) = "created"
  /\ at[r] = "error" => (Outcome(r) = "created" <=> wroteHeader[r])
  /\ at[r] \in {"log", "finished"} => (Outcome(r) = "created" <=> wire[r] = 201)
  /\ Outcome(r) = "created" => r \in rows
  /\ at[r] \in {"error", "log", "finished"} /\ r \in rows /\ Outcome(r) # "created" =>
       Outcome(r) = "failed" /\ Rows(r) + Errors(r) >= 1

(* The one line there is shows the bag.                                    *)
LineInv(r) ==
  /\ at[r] # "finished" => line[r] = <<>>
  /\ at[r] = "finished" => /\ line[r] = <<Attrs(bag[r])>>
                           /\ "http.status" \in DOMAIN bag[r]
                           /\ bag[r]["http.status"] = wire[r]

(* What may hold the password: the command, and no other field.            *)
SecretInv(r) ==
  /\ DOMAIN bag[r] \cap {"args", "error", "request"} = {}
  /\ Field(bag[r], "service.command", Credentials(r)) = Credentials(r)

(* A query record's number among those of its request.                     *)
Ordinal(r, j) == Cardinality({k \in QueryRecords(r) : k <= j})

(* Queries are counted and listed as they were run and recorded.           *)
CountsInv(r) ==
  /\ Field(bag[r], "db.query_count", 0) = Len(ran[r])
  /\ IsFiniteSet(Failures(ran[r])) /\ Errors(r) = Cardinality(Failures(ran[r]))
  /\ IsFiniteSet(RowsAffected(ran[r])) /\ Rows(r) = Cardinality(RowsAffected(ran[r]))
  /\ Field(bag[r], "db.queries", <<>>) = [i \in 1 .. Len(ran[r]) |-> dbLogAttrs(ran[r][i])]
  /\ Cardinality(QueryRecords(r)) = Len(ran[r])
  /\ \A j \in QueryRecords(r) :
       /\ Ordinal(r, j) \in 1 .. Len(ran[r])
       /\ log[r][j].attrs = dbLogAttrs(ran[r][Ordinal(r, j)])

RequestInv(r) ==
  HeaderInv(r) /\ OutcomeInv(r) /\ LineInv(r) /\ SecretInv(r) /\ CountsInv(r)

LogInv == LogTypeOK /\ \A r \in Requests : RequestInv(r)

-----------------------------------------------------------------------------
(* The bag's operations. *)

LEMMA PutDomain ==
  ASSUME NEW b, NEW k, NEW v
  PROVE  DOMAIN Put(b, k, v) = DOMAIN b \cup {k}
BY DEF Put

LEMMA PutAt ==
  ASSUME NEW b, NEW k, NEW v, NEW x \in DOMAIN b \cup {k}
  PROVE  Put(b, k, v)[x] = IF x = k THEN v ELSE b[x]
BY DEF Put

LEMMA PutField ==
  ASSUME NEW b, NEW k, NEW v, NEW x, NEW zero
  PROVE  Field(Put(b, k, v), x, zero) = IF x = k THEN v ELSE Field(b, x, zero)
<1>1. CASE x \in DOMAIN b \cup {k}
  <2>1. x \in DOMAIN Put(b, k, v)
    BY <1>1, PutDomain
  <2>2. Put(b, k, v)[x] = IF x = k THEN v ELSE b[x]
    BY <1>1, PutAt
  <2> QED
    BY <1>1, <2>1, <2>2 DEF Field
<1>2. CASE x \notin DOMAIN b \cup {k}
  <2>1. x \notin DOMAIN Put(b, k, v)
    BY <1>2, PutDomain
  <2> QED
    BY <1>2, <2>1 DEF Field
<1> QED
  BY <1>1, <1>2

LEMMA AddField ==
  ASSUME NEW b, NEW k, NEW n, NEW x, NEW zero
  PROVE  Field(Add(b, k, n), x, zero) = IF x = k THEN Field(b, k, 0) + n ELSE Field(b, x, zero)
<1>1. Add(b, k, n) = Put(b, k, Field(b, k, 0) + n)
  BY DEF Add, Field
<1> QED
  BY <1>1, PutField

LEMMA AddDomain ==
  ASSUME NEW b, NEW k, NEW n
  PROVE  DOMAIN Add(b, k, n) = DOMAIN b \cup {k}
BY PutDomain DEF Add

LEMMA GroupField ==
  ASSUME NEW b, NEW k, NEW g, NEW x, NEW zero
  PROVE  Field(AppendGroup(b, k, g), x, zero)
           = IF x = k THEN Append(Field(b, k, <<>>), g) ELSE Field(b, x, zero)
<1> DEFINE v == Append(Field(b, k, <<>>), g)
<1>1. AppendGroup(b, k, g) = Put(b, k, v)
  BY DEF AppendGroup, Field
<1> HIDE DEF v
<1>2. Field(Put(b, k, v), x, zero) = IF x = k THEN v ELSE Field(b, x, zero)
  BY PutField
<1> QED
  BY <1>1, <1>2 DEF v

LEMMA GroupDomain ==
  ASSUME NEW b, NEW k, NEW g
  PROVE  DOMAIN AppendGroup(b, k, g) = DOMAIN b \cup {k}
BY PutDomain DEF AppendGroup

QueryKeys == {"db.queries", "db.query_count", "db.rows_affected", "db.error_count"}

(* What TraceQueryEnd does to a bag, all its operations together.          *)
LEMMA TraceFields ==
  ASSUME NEW b, NEW q, Field(b, "db.rows_affected", 0) \in Nat,
         Field(b, "db.error_count", 0) \in Nat, q.affected \in Nat
  PROVE  LET t == TraceQueryEnd(b, q) IN
         /\ DOMAIN t \subseteq DOMAIN b \cup QueryKeys
         /\ \A x, zero : x \notin QueryKeys => Field(t, x, zero) = Field(b, x, zero)
         /\ Field(t, "db.queries", <<>>) = Append(Field(b, "db.queries", <<>>), dbLogAttrs(q))
         /\ Field(t, "db.query_count", 0) = Field(b, "db.query_count", 0) + 1
         /\ Field(t, "db.rows_affected", 0) = Field(b, "db.rows_affected", 0) + q.affected
         /\ Field(t, "db.error_count", 0)
              = Field(b, "db.error_count", 0) + (IF q.error # NoError THEN 1 ELSE 0)
<1> DEFINE b1 == AppendGroup(b, "db.queries", dbLogAttrs(q))
           b2 == Add(b1, "db.query_count", 1)
           b3 == IF q.affected > 0 THEN Add(b2, "db.rows_affected", q.affected) ELSE b2
           t == TraceQueryEnd(b, q)
<1>1. \A x, zero : Field(b1, x, zero)
         = IF x = "db.queries" THEN Append(Field(b, "db.queries", <<>>), dbLogAttrs(q))
           ELSE Field(b, x, zero)
  BY GroupField
<1>2. \A x, zero : Field(b2, x, zero)
         = IF x = "db.query_count" THEN Field(b1, "db.query_count", 0) + 1
           ELSE Field(b1, x, zero)
  <2> HIDE DEF b1
  <2> QED
    BY AddField
<1>3. DOMAIN b2 = DOMAIN b \cup {"db.queries", "db.query_count"}
  <2>1. DOMAIN b1 = DOMAIN b \cup {"db.queries"}
    BY GroupDomain
  <2>2. DOMAIN b2 = DOMAIN b1 \cup {"db.query_count"}
    <3> HIDE DEF b1
    <3> QED
      BY AddDomain
  <2> QED
    BY <2>1, <2>2
<1>4. t = IF q.error # NoError THEN Add(b3, "db.error_count", 1) ELSE b3
  BY DEF TraceQueryEnd
<1> HIDE DEF b1, b2
<1>5. /\ DOMAIN b3 \subseteq DOMAIN b2 \cup {"db.rows_affected"}
      /\ \A x, zero : x # "db.rows_affected" => Field(b3, x, zero) = Field(b2, x, zero)
      /\ Field(b3, "db.rows_affected", 0) = Field(b, "db.rows_affected", 0) + q.affected
  <2>1. Field(b2, "db.rows_affected", 0) = Field(b, "db.rows_affected", 0)
    BY <1>1, <1>2
  <2>2. CASE q.affected > 0
    <3>1. b3 = Add(b2, "db.rows_affected", q.affected)
      BY <2>2
    <3>2. \A x, zero : Field(Add(b2, "db.rows_affected", q.affected), x, zero)
            = IF x = "db.rows_affected" THEN Field(b2, "db.rows_affected", 0) + q.affected
              ELSE Field(b2, x, zero)
      BY AddField
    <3>3. DOMAIN Add(b2, "db.rows_affected", q.affected) = DOMAIN b2 \cup {"db.rows_affected"}
      BY AddDomain
    <3> HIDE DEF b3
    <3> QED
      BY <2>1, <3>1, <3>2, <3>3
  <2>3. CASE ~(q.affected > 0)
    <3>1. b3 = b2 /\ q.affected = 0
      BY <2>3
    <3> HIDE DEF b3
    <3> QED
      BY <2>1, <3>1
  <2> QED
    BY <2>2, <2>3
<1> HIDE DEF b3, t
<1>6. /\ DOMAIN t \subseteq DOMAIN b3 \cup {"db.error_count"}
      /\ \A x, zero : x # "db.error_count" => Field(t, x, zero) = Field(b3, x, zero)
      /\ Field(t, "db.error_count", 0)
           = Field(b, "db.error_count", 0) + (IF q.error # NoError THEN 1 ELSE 0)
  <2>1. Field(b3, "db.error_count", 0) = Field(b, "db.error_count", 0)
    BY <1>1, <1>2, <1>5
  <2>2. CASE q.error # NoError
    <3>1. t = Add(b3, "db.error_count", 1)
      BY <1>4, <2>2
    <3>2. \A x, zero : Field(Add(b3, "db.error_count", 1), x, zero)
            = IF x = "db.error_count" THEN Field(b3, "db.error_count", 0) + 1
              ELSE Field(b3, x, zero)
      BY AddField
    <3>3. DOMAIN Add(b3, "db.error_count", 1) = DOMAIN b3 \cup {"db.error_count"}
      BY AddDomain
    <3> QED
      BY <2>1, <2>2, <3>1, <3>2, <3>3
  <2>3. CASE q.error = NoError
    <3>1. t = b3
      BY <1>4, <2>3
    <3> QED
      BY <2>1, <2>3, <3>1
  <2> QED
    BY <2>2, <2>3
<1>7. DOMAIN t \subseteq DOMAIN b \cup QueryKeys
  BY <1>3, <1>5, <1>6 DEF QueryKeys
<1>8. \A x, zero : x \notin QueryKeys => Field(t, x, zero) = Field(b, x, zero)
  BY <1>1, <1>2, <1>5, <1>6 DEF QueryKeys
<1>9. /\ Field(t, "db.queries", <<>>) = Append(Field(b, "db.queries", <<>>), dbLogAttrs(q))
      /\ Field(t, "db.query_count", 0) = Field(b, "db.query_count", 0) + 1
  BY <1>1, <1>2, <1>5, <1>6
<1>10. Field(t, "db.rows_affected", 0) = Field(b, "db.rows_affected", 0) + q.affected
  BY <1>5, <1>6
<1> QED
  BY <1>6, <1>7, <1>8, <1>9, <1>10 DEF t

(* What the service puts in the bag, in two operations.                    *)
LEMMA PutTwiceField ==
  ASSUME NEW b, NEW k, NEW v, NEW l, NEW w, NEW x, NEW zero
  PROVE  Field(Put(Put(b, k, v), l, w), x, zero)
           = IF x = l THEN w ELSE IF x = k THEN v ELSE Field(b, x, zero)
<1> DEFINE b1 == Put(b, k, v)
<1>1. Field(b1, x, zero) = IF x = k THEN v ELSE Field(b, x, zero)
  BY PutField
<1> HIDE DEF b1
<1>2. Field(Put(b1, l, w), x, zero) = IF x = l THEN w ELSE Field(b1, x, zero)
  BY PutField
<1> QED
  BY <1>1, <1>2 DEF b1

-----------------------------------------------------------------------------
(* Queries and what is logged of them. *)

LEMMA QueryTypes ==
  ASSUME NEW q \in Traceable
  PROVE  /\ q.error \in Outcomes /\ q.affected \in {0, 1}
         /\ \E r \in Requests : q.args \in {insertArgs(r), countArgs(r)}
BY DEF Traceable, Query

LEMMA DBLogFields ==
  ASSUME NEW q \in Traceable
  PROVE  LET a == dbLogAttrs(q) IN
         /\ DOMAIN a \subseteq {"args", "error", "rows"} /\ "args" \in DOMAIN a
         /\ a["args"] = redactNamedArgs(q.args)
         /\ "error" \in DOMAIN a <=> q.error # NoError
         /\ q.error # NoError => a["error"] = pgErrorValue(q)
<1> DEFINE b == Put(Empty, "args", redactNamedArgs(q.args))
           b1 == IF q.error # NoError THEN Put(b, "error", pgErrorValue(q)) ELSE b
           a == dbLogAttrs(q)
<1>1. DOMAIN b = {"args"} /\ b["args"] = redactNamedArgs(q.args)
  <2>1. DOMAIN Empty = {}
    BY DEF Empty
  <2>2. DOMAIN b = DOMAIN Empty \cup {"args"}
    BY PutDomain
  <2>3. b["args"] = redactNamedArgs(q.args)
    BY PutAt
  <2> HIDE DEF b
  <2> QED
    BY <2>1, <2>2, <2>3
<1>2. a = IF q.affected > 0 THEN Put(b1, "rows", q.affected) ELSE b1
  BY DEF dbLogAttrs
<1> HIDE DEF b
<1>3. /\ DOMAIN b1 \subseteq {"args", "error"} /\ "args" \in DOMAIN b1
      /\ b1["args"] = redactNamedArgs(q.args)
      /\ "error" \in DOMAIN b1 <=> q.error # NoError
      /\ q.error # NoError => b1["error"] = pgErrorValue(q)
  <2>1. CASE q.error # NoError
    <3>1. b1 = Put(b, "error", pgErrorValue(q))
      BY <2>1
    <3>2. DOMAIN Put(b, "error", pgErrorValue(q)) = DOMAIN b \cup {"error"}
      BY PutDomain
    <3> HIDE DEF b1
    <3>3. b1["args"] = b["args"] /\ b1["error"] = pgErrorValue(q)
      BY <1>1, <3>1, PutAt
    <3> QED
      BY <1>1, <2>1, <3>1, <3>2, <3>3
  <2>2. CASE q.error = NoError
    <3>1. b1 = b
      BY <2>2
    <3> HIDE DEF b1
    <3> QED
      BY <1>1, <2>2, <3>1
  <2> QED
    BY <2>1, <2>2
<1> HIDE DEF b1, a
<1>4. CASE q.affected > 0
  <2>1. a = Put(b1, "rows", q.affected)
    BY <1>2, <1>4
  <2>2. DOMAIN a = DOMAIN b1 \cup {"rows"}
    BY <2>1, PutDomain
  <2>3. \A x \in DOMAIN b1 : x # "rows" => a[x] = b1[x]
    BY <2>1, PutAt
  <2> QED
    BY <1>3, <2>2, <2>3 DEF a
<1>5. CASE ~(q.affected > 0)
  <2>1. a = b1
    BY <1>2, <1>5
  <2> QED
    BY <1>3, <2>1 DEF a
<1> QED
  BY <1>4, <1>5

(* Of an error a query's entry tells its code just when it is a unique     *)
(* violation.                                                              *)
LEMMA ErrorCode ==
  ASSUME NEW q \in Traceable, q.error # NoError
  PROVE  Field(pgErrorValue(q), "code", "") = UniqueViolation <=> q.error = UniqueViolation
<1>1. CASE q.error = UniqueViolation
  <2>1. pgErrorValue(q) = [code |-> q.error, detail |-> q.args.username]
    BY <1>1, Zenon DEF pgErrorValue, UniqueViolation
  <2> QED
    BY <1>1, <2>1 DEF Field
<1>2. CASE q.error = "timeout"
  <2>1. pgErrorValue(q) = [type |-> q.error]
    BY <1>2, Zenon DEF pgErrorValue, UniqueViolation
  <2>2. Field([type |-> q.error], "code", "") = ""
    BY DEF Field
  <2> QED
    BY <1>2, <2>1, <2>2 DEF UniqueViolation
<1>3. CASE q.error = "lost"
  <2>1. pgErrorValue(q) = Empty
    BY <1>3, Zenon DEF pgErrorValue, UniqueViolation
  <2>2. Field(Empty, "code", "") = ""
    BY DEF Field, Empty
  <2> QED
    BY <1>3, <2>1, <2>2 DEF UniqueViolation
<1> QED
  BY <1>1, <1>2, <1>3, QueryTypes DEF Outcomes, QueryErrors

(* The password is redacted, and nothing else the records show is it.      *)
PasswordIsApart ==
  "password" \in RedactKeys /\ Password \notin Requests \cup {Username[r] : r \in Requests}

LEMMA ArgsAreSafe ==
  ASSUME PasswordIsApart, NEW q \in Traceable
  PROVE  Password \notin Range(redactNamedArgs(q.args))
<1>1. PICK r \in Requests : q.args \in {insertArgs(r), countArgs(r)}
  BY QueryTypes
<1>2. /\ DOMAIN q.args \subseteq {"id", "username", "password"}
      /\ \A k \in DOMAIN q.args : k # "password" => q.args[k] \in {r, Username[r]}
  BY <1>1 DEF insertArgs, countArgs
<1>3. \A k \in DOMAIN q.args : redactNamedArgs(q.args)[k] # Password
  BY <1>2 DEF redactNamedArgs, PasswordIsApart, Redacted, Password
<1>4. DOMAIN redactNamedArgs(q.args) = DOMAIN q.args
  BY DEF redactNamedArgs
<1> QED
  BY <1>3, <1>4 DEF Range

(* What the log tells of an error: a code, a type, or the username that is *)
(* taken.                                                                  *)
LEMMA ErrorsAreSafe ==
  ASSUME PasswordIsApart, NEW q \in Traceable, q.error # NoError
  PROVE  Password \notin Range(pgErrorValue(q))
<1>1. PICK r \in Requests : q.args \in {insertArgs(r), countArgs(r)}
  BY QueryTypes
<1>2. q.args.username = Username[r] /\ Username[r] # Password
  BY <1>1 DEF insertArgs, countArgs, PasswordIsApart
<1>3. CASE q.error = UniqueViolation
  <2>1. pgErrorValue(q) = [code |-> q.error, detail |-> q.args.username]
    BY <1>3, Zenon DEF pgErrorValue, UniqueViolation
  <2>2. q.error # Password
    BY <1>3 DEF UniqueViolation, Password
  <2> QED
    BY <1>2, <2>1, <2>2 DEF Range
<1>4. CASE q.error = "timeout"
  <2>1. pgErrorValue(q) = [type |-> q.error]
    BY <1>4, Zenon DEF pgErrorValue, UniqueViolation
  <2>2. q.error # Password
    BY <1>4 DEF Password
  <2> QED
    BY <2>1, <2>2 DEF Range
<1>5. CASE q.error = "lost"
  <2>1. pgErrorValue(q) = Empty
    BY <1>5, Zenon DEF pgErrorValue, UniqueViolation
  <2> QED
    BY <2>1 DEF Range, Empty
<1> QED
  BY <1>3, <1>4, <1>5, QueryTypes DEF Outcomes, QueryErrors

(* A query's attributes, of a record or in a line's list.                  *)
LEMMA QueriesAreSafe ==
  ASSUME PasswordIsApart, NEW q \in Traceable
  PROVE  ~InClear(dbLogAttrs(q)) /\ "db.queries" \notin DOMAIN dbLogAttrs(q)
<1> DEFINE a == dbLogAttrs(q)
<1>1. DOMAIN a \subseteq {"args", "error", "rows"}
  BY DBLogFields
<1>2. Password \notin Range(a["args"])
  BY DBLogFields, ArgsAreSafe
<1>3. "error" \in DOMAIN a => Password \notin Range(a["error"])
  BY DBLogFields, ErrorsAreSafe
<1> HIDE DEF a
<1> QED
  BY <1>1, <1>2, <1>3 DEF InClear, a

LEMMA CommandIsSafe ==
  ASSUME PasswordIsApart, NEW r \in Requests
  PROVE  Password \notin Range(LogValue(Credentials(r)))
BY DEF PasswordIsApart, LogValue, Credentials, Range, Redacted, Password

LEMMA RecordFields ==
  ASSUME NEW msg, NEW attrs
  PROVE  Record(msg, attrs).msg = msg /\ Record(msg, attrs).attrs = attrs
BY DEF Record

LEMMA RecordsAreSafe ==
  ASSUME PasswordIsApart, NEW x \in Loggable
  PROVE  ~ShowsPassword(x.attrs)
<1>1. CASE \E r \in Requests : x = Decoded(r)
  <2>1. PICK r \in Requests : x = Decoded(r)
    BY <1>1
  <2>2. x.attrs = [request |-> LogValue(Credentials(r))]
    BY <2>1 DEF Decoded, Record
  <2>3. DOMAIN x.attrs = {"request"} /\ Password \notin Range(x.attrs["request"])
    BY <2>2, CommandIsSafe
  <2> QED
    BY <2>3 DEF ShowsPassword, InClear, Field
<1>2. CASE \E r \in Requests : \/ x = Record("creating user", [username |-> Username[r]])
                               \/ x = Record("created user", [username |-> Username[r]])
  <2>1. PICK r \in Requests : \/ x = Record("creating user", [username |-> Username[r]])
                              \/ x = Record("created user", [username |-> Username[r]])
    BY <1>2
  <2> DEFINE shown == [username |-> Username[r]]
  <2>2. x.attrs = shown
    <3>1. x = Record("creating user", shown) \/ x = Record("created user", shown)
      BY <2>1
    <3> HIDE DEF shown
    <3> QED
      BY <3>1, RecordFields, ZenonT(60)
  <2>3. DOMAIN x.attrs = {"username"}
    BY <2>2
  <2> QED
    BY <2>3 DEF ShowsPassword, InClear, Field
<1>3. CASE \E q \in Traceable : x = QueryRecord(q)
  <2>1. PICK q \in Traceable : x.attrs = dbLogAttrs(q)
    BY <1>3 DEF QueryRecord, Record
  <2> QED
    BY <2>1, QueriesAreSafe DEF ShowsPassword, Field
<1>4. CASE x \in {WriteFailed, Record("create user failed", Empty)}
  <2>0. x.attrs = Empty
    BY <1>4, RecordFields, ZenonT(60) DEF WriteFailed
  <2>1. DOMAIN x.attrs = {}
    BY <2>0 DEF Empty
  <2> QED
    BY <2>1 DEF ShowsPassword, InClear, Field
<1> QED
  BY <1>1, <1>2, <1>3, <1>4 DEF Loggable

-----------------------------------------------------------------------------
(* The log grows at its end. *)

LEMMA QueryRecordsFinite ==
  ASSUME LogTypeOK, NEW r \in Requests
  PROVE  IsFiniteSet(QueryRecords(r)) /\ QueryRecords(r) \subseteq 1 .. Len(log[r])
<1>1. log[r] \in Seq(Loggable)
  BY DEF LogTypeOK
<1>2. QueryRecords(r) \subseteq 1 .. Len(log[r])
  BY <1>1 DEF QueryRecords
<1>3. IsFiniteSet(1 .. Len(log[r]))
  BY <1>1, FS_Interval
<1> QED
  BY <1>2, <1>3, FS_Subset

LEMMA OrdinalStays ==
  ASSUME NEW r \in Requests, NEW j \in QueryRecords(r), QueryRecords(r)' = QueryRecords(r)
  PROVE  Ordinal(r, j)' = Ordinal(r, j)
BY DEF Ordinal

LEMMA QuietLog ==
  ASSUME LogTypeOK, NEW r \in Requests, NEW recs \in Seq(Loggable),
         log'[r] = log[r] \o recs,
         \A i \in 1 .. Len(recs) : recs[i].msg # "postgres/query"
  PROVE  /\ QueryRecords(r)' = QueryRecords(r)
         /\ \A j \in QueryRecords(r) : log'[r][j] = log[r][j]
<1>1. log[r] \in Seq(Loggable)
  BY DEF LogTypeOK
<1>2. /\ DOMAIN log'[r] = 1 .. (Len(log[r]) + Len(recs))
      /\ \A j \in 1 .. Len(log[r]) : log'[r][j] = log[r][j]
      /\ \A j \in DOMAIN log'[r] :
           j \notin 1 .. Len(log[r]) =>
             j - Len(log[r]) \in 1 .. Len(recs) /\ log'[r][j] = recs[j - Len(log[r])]
  BY <1>1
<1>3. DOMAIN log[r] = 1 .. Len(log[r]) /\ DOMAIN log[r] \subseteq DOMAIN log'[r]
  BY <1>1, <1>2
<1> QED
  BY <1>2, <1>3 DEF QueryRecords

LEMMA QueryLog ==
  ASSUME LogTypeOK, NEW r \in Requests, NEW q \in Traceable, NEW recs \in Seq(Loggable),
         log'[r] = log[r] \o (<<QueryRecord(q)>> \o recs),
         \A i \in 1 .. Len(recs) : recs[i].msg # "postgres/query"
  PROVE  LET n == Len(log[r]) + 1 IN
         /\ QueryRecords(r)' = QueryRecords(r) \cup {n}
         /\ log'[r][n].attrs = dbLogAttrs(q)
         /\ \A j \in QueryRecords(r) : j < n /\ log'[r][j] = log[r][j]
<1> DEFINE n == Len(log[r]) + 1
           rec == QueryRecord(q)
<1>1. log[r] \in Seq(Loggable) /\ rec \in Loggable
  BY DEF LogTypeOK, Loggable
<1>2. rec.msg = "postgres/query" /\ rec.attrs = dbLogAttrs(q)
  BY RecordFields DEF QueryRecord
<1> HIDE DEF rec
<1>3. /\ Len(log[r]) \in Nat /\ DOMAIN log[r] = 1 .. Len(log[r])
      /\ DOMAIN log[r] \subseteq DOMAIN log'[r] /\ n \in DOMAIN log'[r]
      /\ \A j \in DOMAIN log[r] : log'[r][j] = log[r][j]
      /\ log'[r][n] = rec
      /\ \A j \in DOMAIN log'[r] : j \notin DOMAIN log[r] /\ j # n =>
           \E i \in 1 .. Len(recs) : log'[r][j] = recs[i]
  <2> DEFINE s == log[r]
             u == log'[r]
             v == <<rec>> \o recs
  <2>1. s \in Seq(Loggable) /\ rec \in Loggable /\ recs \in Seq(Loggable) /\ u = s \o v
    BY <1>1 DEF rec
  <2> HIDE DEF s, u
  <2>2. v \in Seq(Loggable) /\ Len(v) = Len(recs) + 1 /\ v[1] = rec /\ Len(recs) \in Nat
    BY <2>1
  <2>3. \A i \in 1 .. Len(v) : i # 1 => i - 1 \in 1 .. Len(recs) /\ v[i] = recs[i - 1]
    BY <2>1
  <2> HIDE DEF v
  <2>4. Len(s) \in Nat /\ DOMAIN s = 1 .. Len(s)
    BY <2>1
  <2>5. DOMAIN u = 1 .. (Len(s) + Len(v))
    <3>1. Len(u) = Len(s) + Len(v) /\ DOMAIN u = 1 .. Len(u)
      BY <2>1, <2>2
    <3> QED
      BY <3>1
  <2>6. \A j \in 1 .. Len(s) : u[j] = s[j]
    BY <2>1, <2>2
  <2>7. ASSUME NEW i \in 1 .. Len(v) PROVE u[Len(s) + i] = v[i]
    BY <2>1, <2>2
  <2>8. DOMAIN s \subseteq DOMAIN u /\ Len(s) + 1 \in DOMAIN u
    BY <2>2, <2>4, <2>5
  <2>9. u[Len(s) + 1] = rec
    BY <2>2, <2>7
  <2>10. ASSUME NEW j \in DOMAIN u, j \notin DOMAIN s, j # Len(s) + 1
         PROVE  \E i \in 1 .. Len(recs) : u[j] = recs[i]
    <3>1. PICK i \in 1 .. Len(v) : i # 1 /\ j = Len(s) + i
      <4>1. j - Len(s) \in 1 .. Len(v) /\ j - Len(s) # 1 /\ j = Len(s) + (j - Len(s))
        BY <2>2, <2>4, <2>5, <2>10
      <4> QED
        BY <4>1
    <3> QED
      BY <2>3, <2>7, <3>1
  <2> QED
    BY <2>4, <2>6, <2>8, <2>9, <2>10 DEF s, u
<1>4. n \notin DOMAIN log[r] /\ \A j \in DOMAIN log[r] : j < n
  BY <1>3
<1> HIDE DEF n
<1>5. QueryRecords(r)' = QueryRecords(r) \cup {n}
  BY <1>2, <1>3, <1>4 DEF QueryRecords
<1> QED
  BY <1>2, <1>3, <1>4, <1>5 DEF QueryRecords, n

(* A step of a request at which no query ends keeps what is counted.       *)
LEMMA CountsKept ==
  ASSUME LogTypeOK, NEW r \in Requests, CountsInv(r), ran'[r] = ran[r],
         NEW recs \in Seq(Loggable), log'[r] = log[r] \o recs,
         \A i \in 1 .. Len(recs) : recs[i].msg # "postgres/query",
         \A zero : \A k \in QueryKeys : Field(bag'[r], k, zero) = Field(bag[r], k, zero)
  PROVE  CountsInv(r)'
<1>1. /\ QueryRecords(r)' = QueryRecords(r)
      /\ \A j \in QueryRecords(r) : log'[r][j] = log[r][j]
  BY QuietLog
<1>2. /\ Field(bag'[r], "db.query_count", 0) = Field(bag[r], "db.query_count", 0)
      /\ Field(bag'[r], "db.queries", <<>>) = Field(bag[r], "db.queries", <<>>)
      /\ Errors(r)' = Errors(r) /\ Rows(r)' = Rows(r)
  BY DEF QueryKeys, Errors, Rows
<1>3. \A j \in QueryRecords(r) : Ordinal(r, j)' = Ordinal(r, j)
  BY <1>1, OrdinalStays
<1>4. /\ Field(bag'[r], "db.query_count", 0) = Len(ran'[r])
      /\ IsFiniteSet(Failures(ran'[r])) /\ Errors(r)' = Cardinality(Failures(ran'[r]))
      /\ IsFiniteSet(RowsAffected(ran'[r])) /\ Rows(r)' = Cardinality(RowsAffected(ran'[r]))
      /\ Field(bag'[r], "db.queries", <<>>)
           = [i \in 1 .. Len(ran'[r]) |-> dbLogAttrs(ran'[r][i])]
  BY <1>2 DEF CountsInv
<1>5. Cardinality(QueryRecords(r)') = Len(ran'[r])
  BY <1>1 DEF CountsInv
<1>6. \A j \in QueryRecords(r)' :
        /\ Ordinal(r, j)' \in 1 .. Len(ran'[r])
        /\ log'[r][j].attrs = dbLogAttrs(ran'[r][Ordinal(r, j)'])
  <2> SUFFICES ASSUME NEW j \in QueryRecords(r)'
               PROVE  /\ Ordinal(r, j)' \in 1 .. Len(ran'[r])
                      /\ log'[r][j].attrs = dbLogAttrs(ran'[r][Ordinal(r, j)'])
    OBVIOUS
  <2>1. j \in QueryRecords(r)
    BY <1>1
  <2>2. Ordinal(r, j) \in 1 .. Len(ran[r]) /\ log[r][j].attrs = dbLogAttrs(ran[r][Ordinal(r, j)])
    BY <2>1 DEF CountsInv
  <2>3. Ordinal(r, j)' = Ordinal(r, j) /\ log'[r][j] = log[r][j]
    BY <1>1, <1>3, <2>1
  <2> QED
    BY <2>2, <2>3
<1> QED
  BY <1>4, <1>5, <1>6 DEF CountsInv

(* The entries listed for queries, one more of them.                       *)
LEMMA ListedOneMore ==
  ASSUME NEW s \in Seq(Traceable), NEW q \in Traceable, NEW u, u = Append(s, q)
  PROVE  Append([i \in 1 .. Len(s) |-> dbLogAttrs(s[i])], dbLogAttrs(q))
           = [i \in 1 .. Len(u) |-> dbLogAttrs(u[i])]
<1> DEFINE Entries == {dbLogAttrs(p) : p \in Traceable}
           l == [i \in 1 .. Len(s) |-> dbLogAttrs(s[i])]
           x == dbLogAttrs(q)
           m == [i \in 1 .. Len(u) |-> dbLogAttrs(u[i])]
<1>1. /\ Len(s) \in Nat /\ Len(u) = Len(s) + 1 /\ u[Len(s) + 1] = q
      /\ \A i \in 1 .. Len(s) : u[i] = s[i] /\ s[i] \in Traceable
  OBVIOUS
<1>2. l \in Seq(Entries) /\ Len(l) = Len(s)
  <2>1. \A i \in 1 .. Len(s) : dbLogAttrs(s[i]) \in Entries
    BY <1>1
  <2> HIDE DEF Entries
  <2> QED
    BY <1>1, <2>1
<1>3. x \in Entries
  OBVIOUS
<1>4. \A i \in 1 .. Len(s) : l[i] = dbLogAttrs(s[i])
  OBVIOUS
<1>5. DOMAIN m = 1 .. (Len(s) + 1) /\ \A i \in 1 .. (Len(s) + 1) : m[i] = dbLogAttrs(u[i])
  BY <1>1
<1>6. m = [i \in 1 .. (Len(s) + 1) |-> m[i]]
  BY <1>1
<1> HIDE DEF Entries, l, x
<1>7. Append(l, x) = [i \in 1 .. (Len(s) + 1) |-> IF i = Len(s) + 1 THEN x ELSE l[i]]
  <2> DEFINE a == Append(l, x)
  <2>1. a \in Seq(Entries) /\ Len(a) = Len(s) + 1
    BY <1>1, <1>2, <1>3
  <2>2. a[Len(s) + 1] = x /\ \A i \in 1 .. Len(s) : a[i] = l[i]
    BY <1>1, <1>2, <1>3
  <2> HIDE DEF a
  <2>3. a = [i \in 1 .. Len(a) |-> a[i]]
    BY <2>1
  <2>4. ASSUME NEW i \in 1 .. Len(a)
        PROVE  a[i] = IF i = Len(s) + 1 THEN x ELSE l[i]
    <3>1. i = Len(s) + 1 \/ i \in 1 .. Len(s)
      BY <1>1, <2>1
    <3> QED
      BY <1>1, <2>2, <3>1
  <2> QED
    BY <2>1, <2>3, <2>4 DEF a
<1>8. m[Len(s) + 1] = x
  BY <1>1, <1>5 DEF x
<1>9. \A i \in 1 .. (Len(s) + 1) : m[i] = IF i = Len(s) + 1 THEN x ELSE l[i]
  <2> SUFFICES ASSUME NEW i \in 1 .. (Len(s) + 1)
               PROVE  m[i] = IF i = Len(s) + 1 THEN x ELSE l[i]
    OBVIOUS
  <2> HIDE DEF m
  <2>1. CASE i = Len(s) + 1
    BY <1>8, <2>1
  <2>2. CASE i # Len(s) + 1
    <3>1. i \in 1 .. Len(s)
      BY <1>1, <2>2
    <3> QED
      BY <1>1, <1>4, <1>5, <2>2, <3>1
  <2> QED
    BY <2>1, <2>2
<1> HIDE DEF m
<1> QED
  BY <1>6, <1>7, <1>9 DEF l, x, m

LEMMA FailuresOneMore ==
  ASSUME NEW s \in Seq(Traceable), NEW q \in Traceable, NEW u, u = Append(s, q),
         IsFiniteSet(Failures(s))
  PROVE  /\ IsFiniteSet(Failures(u))
         /\ Cardinality(Failures(u))
              = Cardinality(Failures(s)) + (IF q.error # NoError THEN 1 ELSE 0)
<1>1. /\ Len(s) \in Nat /\ DOMAIN s = 1 .. Len(s) /\ DOMAIN u = 1 .. (Len(s) + 1)
      /\ u[Len(s) + 1] = q /\ \A i \in 1 .. Len(s) : u[i] = s[i]
  OBVIOUS
<1>2. Cardinality(Failures(s)) \in Nat
  BY FS_CardinalityType
<1>3. Len(s) + 1 \notin Failures(s)
  BY <1>1 DEF Failures
<1>4. CASE q.error # NoError
  <2>1. Failures(u) = Failures(s) \cup {Len(s) + 1}
    BY <1>1, <1>4 DEF Failures
  <2> QED
    BY <1>2, <1>3, <1>4, <2>1, FS_AddElement
<1>5. CASE q.error = NoError
  <2>1. Failures(u) = Failures(s)
    BY <1>1, <1>5 DEF Failures
  <2> QED
    BY <1>2, <1>5, <2>1
<1> QED
  BY <1>4, <1>5

LEMMA RowsOneMore ==
  ASSUME NEW s \in Seq(Traceable), NEW q \in Traceable, NEW u, u = Append(s, q),
         IsFiniteSet(RowsAffected(s))
  PROVE  /\ IsFiniteSet(RowsAffected(u))
         /\ Cardinality(RowsAffected(u)) = Cardinality(RowsAffected(s)) + q.affected
<1>1. /\ Len(s) \in Nat /\ DOMAIN s = 1 .. Len(s) /\ DOMAIN u = 1 .. (Len(s) + 1)
      /\ u[Len(s) + 1] = q /\ \A i \in 1 .. Len(s) : u[i] = s[i]
  OBVIOUS
<1> DEFINE n == Len(s) + 1
           new == {n} \X (1 .. q.affected)
<1>2. RowsAffected(u) = RowsAffected(s) \cup new
  <2>1. RowsAffected(s) = UNION {{j} \X (1 .. s[j].affected) : j \in 1 .. Len(s)}
    BY <1>1 DEF RowsAffected
  <2>2. RowsAffected(u) = UNION {{j} \X (1 .. u[j].affected) : j \in 1 .. n}
    BY <1>1 DEF RowsAffected
  <2>3. 1 .. n = (1 .. Len(s)) \cup {n}
    BY <1>1
  <2>4. \A j \in 1 .. Len(s) : {j} \X (1 .. u[j].affected) = {j} \X (1 .. s[j].affected)
    BY <1>1
  <2>5. {n} \X (1 .. u[n].affected) = new
    BY <1>1
  <2> HIDE DEF n, new
  <2> QED
    BY <2>1, <2>2, <2>3, <2>4, <2>5
<1>3. Cardinality(RowsAffected(s)) \in Nat
  BY FS_CardinalityType
<1>4. CASE q.affected = 1
  <2>1. new = {<<n, 1>>}
    <3>1. 1 .. 1 = {1}
      OBVIOUS
    <3> QED
      BY <1>4, <3>1
  <2>2. <<n, 1>> \notin RowsAffected(s)
    BY <1>1 DEF RowsAffected
  <2> DEFINE e == <<n, 1>>
  <2>3. RowsAffected(u) = RowsAffected(s) \cup {e} /\ e \notin RowsAffected(s)
    BY <1>2, <2>1, <2>2
  <2> HIDE DEF e
  <2> QED
    BY <1>3, <1>4, <2>3, FS_AddElement
<1>5. CASE q.affected = 0
  <2>1. new = {}
    <3>1. 1 .. 0 = {}
      OBVIOUS
    <3> QED
      BY <1>5, <3>1
  <2> HIDE DEF new
  <2>2. RowsAffected(u) = RowsAffected(s)
    BY <1>2, <2>1
  <2> QED
    BY <1>3, <1>5, <2>2
<1> QED
  BY <1>4, <1>5, QueryTypes

(* A step at which a query ends counts it, once everywhere.                *)
LEMMA CountsGrow ==
  ASSUME LogTypeOK, NEW r \in Requests, CountsInv(r), NEW q \in Traceable,
         ran'[r] = Append(ran[r], q), NEW recs \in Seq(Loggable),
         log'[r] = log[r] \o (<<QueryRecord(q)>> \o recs),
         \A i \in 1 .. Len(recs) : recs[i].msg # "postgres/query",
         \A zero : \A k \in QueryKeys : Field(bag'[r], k, zero) = Field(Traced(r, q), k, zero)
  PROVE  CountsInv(r)'
<1> DEFINE s == ran[r]
           u == ran'[r]
           n == Len(log[r]) + 1
<1>1. s \in Seq(Traceable)
  BY DEF LogTypeOK
<1>2. /\ Len(s) \in Nat /\ Len(u) = Len(s) + 1 /\ u[Len(s) + 1] = q
      /\ \A i \in 1 .. Len(s) : u[i] = s[i]
  BY <1>1
<1>3. Rows(r) \in Nat /\ Errors(r) \in Nat /\ q.affected \in Nat
  <2>1. /\ IsFiniteSet(Failures(ran[r])) /\ Errors(r) = Cardinality(Failures(ran[r]))
        /\ IsFiniteSet(RowsAffected(ran[r])) /\ Rows(r) = Cardinality(RowsAffected(ran[r]))
    BY DEF CountsInv
  <2>2. Cardinality(Failures(ran[r])) \in Nat /\ Cardinality(RowsAffected(ran[r])) \in Nat
    BY <2>1, FS_CardinalityType
  <2>3. q.affected \in Nat
    BY QueryTypes
  <2> QED
    BY <2>1, <2>2, <2>3
<1>4. /\ Field(bag'[r], "db.queries", <<>>)
           = Append(Field(bag[r], "db.queries", <<>>), dbLogAttrs(q))
      /\ Field(bag'[r], "db.query_count", 0) = Field(bag[r], "db.query_count", 0) + 1
      /\ Rows(r)' = Rows(r) + q.affected
      /\ Errors(r)' = Errors(r) + (IF q.error # NoError THEN 1 ELSE 0)
  <2>1. \A k \in QueryKeys : \A zero : Field(bag'[r], k, zero) = Field(Traced(r, q), k, zero)
    OBVIOUS
  <2>2. /\ Field(bag'[r], "db.queries", <<>>) = Field(Traced(r, q), "db.queries", <<>>)
        /\ Field(bag'[r], "db.query_count", 0) = Field(Traced(r, q), "db.query_count", 0)
        /\ Rows(r)' = Field(Traced(r, q), "db.rows_affected", 0)
        /\ Errors(r)' = Field(Traced(r, q), "db.error_count", 0)
    BY <2>1 DEF QueryKeys, Rows, Errors
  <2>3. LET t == Traced(r, q) IN
        /\ Field(t, "db.queries", <<>>)
             = Append(Field(bag[r], "db.queries", <<>>), dbLogAttrs(q))
        /\ Field(t, "db.query_count", 0) = Field(bag[r], "db.query_count", 0) + 1
        /\ Field(t, "db.rows_affected", 0) = Rows(r) + q.affected
        /\ Field(t, "db.error_count", 0) = Errors(r) + (IF q.error # NoError THEN 1 ELSE 0)
    BY <1>3, TraceFields DEF Traced, Rows, Errors
  <2> QED
    BY <2>2, <2>3, Zenon
<1>5. IsFiniteSet(Failures(u)) /\ Errors(r)' = Cardinality(Failures(u))
  <2>1. /\ u = Append(s, q) /\ IsFiniteSet(Failures(s))
        /\ Errors(r) = Cardinality(Failures(s))
    BY DEF CountsInv
  <2> HIDE DEF s, u
  <2>2. /\ IsFiniteSet(Failures(u))
        /\ Cardinality(Failures(u))
             = Cardinality(Failures(s)) + (IF q.error # NoError THEN 1 ELSE 0)
    BY <1>1, <2>1, FailuresOneMore
  <2> QED
    BY <1>4, <2>1, <2>2, Zenon
<1>6. IsFiniteSet(RowsAffected(u)) /\ Rows(r)' = Cardinality(RowsAffected(u))
  <2>1. /\ u = Append(s, q) /\ IsFiniteSet(RowsAffected(s))
        /\ Rows(r) = Cardinality(RowsAffected(s))
    BY DEF CountsInv
  <2> HIDE DEF s, u
  <2>2. /\ IsFiniteSet(RowsAffected(u))
        /\ Cardinality(RowsAffected(u)) = Cardinality(RowsAffected(s)) + q.affected
    BY <1>1, <2>1, RowsOneMore
  <2> QED
    BY <1>4, <2>1, <2>2, Zenon
<1>7. Field(bag'[r], "db.queries", <<>>) = [i \in 1 .. Len(u) |-> dbLogAttrs(u[i])]
  <2>1. u = Append(s, q)
    OBVIOUS
  <2>2. Field(bag[r], "db.queries", <<>>) = [i \in 1 .. Len(s) |-> dbLogAttrs(s[i])]
    BY DEF CountsInv
  <2> DEFINE l == [i \in 1 .. Len(s) |-> dbLogAttrs(s[i])]
             m == [i \in 1 .. Len(u) |-> dbLogAttrs(u[i])]
  <2> HIDE DEF s, u
  <2>3. Append(l, dbLogAttrs(q)) = m
    BY <1>1, <2>1, ListedOneMore
  <2>4. Field(bag[r], "db.queries", <<>>) = l
    BY <2>2
  <2> HIDE DEF l, m
  <2>5. Field(bag'[r], "db.queries", <<>>) = m
    BY <1>4, <2>3, <2>4
  <2> QED
    BY <2>5 DEF m
<1>8. /\ QueryRecords(r)' = QueryRecords(r) \cup {n}
      /\ log'[r][n].attrs = dbLogAttrs(q)
      /\ \A j \in QueryRecords(r) : j < n /\ log'[r][j] = log[r][j]
  BY QueryLog
<1>9. /\ IsFiniteSet(QueryRecords(r)) /\ QueryRecords(r) \subseteq 1 .. Len(log[r])
      /\ log[r] \in Seq(Loggable)
  BY QueryRecordsFinite DEF LogTypeOK
<1>10. n \in Int /\ \A j \in QueryRecords(r) : j \in Int /\ ~(n <= j)
  BY <1>9
<1> HIDE DEF n
<1>11. Cardinality(QueryRecords(r)') = Len(s) + 1
  <2>1. n \notin QueryRecords(r)
    BY <1>10
  <2>2. Cardinality(QueryRecords(r)) = Len(s)
    BY DEF CountsInv, s
  <2> QED
    BY <1>2, <1>8, <1>9, <2>1, <2>2, FS_AddElement
<1>12. \A j \in QueryRecords(r) : Ordinal(r, j)' = Ordinal(r, j)
  BY <1>8, <1>10 DEF Ordinal
<1>13. {k \in QueryRecords(r)' : k <= n} = QueryRecords(r)'
  BY <1>8, <1>10
<1> HIDE DEF s, u
<1>14. ASSUME NEW j \in QueryRecords(r)'
       PROVE  Ordinal(r, j)' \in 1 .. Len(u) /\ log'[r][j].attrs = dbLogAttrs(u[Ordinal(r, j)'])
  <2> DEFINE o == Ordinal(r, j)'
  <2>1. CASE j = n
    <3>1. o = Cardinality({k \in QueryRecords(r)' : k <= j})
      BY DEF Ordinal
    <3>2. o = Len(s) + 1
      BY <1>11, <1>13, <2>1, <3>1
    <3> HIDE DEF o
    <3>3. o \in 1 .. Len(u) /\ u[o] = q
      BY <1>2, <3>2
    <3>4. log'[r][j].attrs = dbLogAttrs(q)
      BY <1>8, <2>1
    <3> QED
      BY <3>3, <3>4 DEF o
  <2>2. CASE j \in QueryRecords(r)
    <3> DEFINE i == Ordinal(r, j)
    <3>1. i \in 1 .. Len(s) /\ log[r][j].attrs = dbLogAttrs(s[i])
      BY <2>2 DEF CountsInv, s
    <3>2. o = i /\ log'[r][j] = log[r][j]
      BY <1>8, <1>12, <2>2
    <3> HIDE DEF o, i
    <3>3. o \in 1 .. Len(u) /\ u[o] = s[i]
      BY <1>2, <3>1, <3>2
    <3> QED
      BY <3>1, <3>2, <3>3 DEF o
  <2> QED
    BY <1>8, <2>1, <2>2
<1>15. Cardinality(QueryRecords(r)') = Len(u)
  BY <1>2, <1>11
<1>16. Field(bag'[r], "db.query_count", 0) = Len(u)
  BY <1>1, <1>2, <1>4 DEF CountsInv, s
<1> QED
  BY <1>5, <1>6, <1>7, <1>14, <1>15, <1>16 DEF CountsInv, u

-----------------------------------------------------------------------------
(* A step is of one request. *)

SameAt(o) ==
  /\ at'[o] = at[o] /\ bag'[o] = bag[o] /\ line'[o] = line[o]
  /\ statusCode'[o] = statusCode[o] /\ wroteHeader'[o] = wroteHeader[o]
  /\ wire'[o] = wire[o] /\ ran'[o] = ran[o] /\ log'[o] = log[o]
  /\ o \in rows' <=> o \in rows

OnlyAt(r) == \A o \in Requests \ {r} : SameAt(o)

LEMMA OthersKept ==
  ASSUME NEW o \in Requests, SameAt(o), RequestInv(o)
  PROVE  RequestInv(o)'
<1>1. Outcome(o)' = Outcome(o) /\ Rows(o)' = Rows(o) /\ Errors(o)' = Errors(o)
  BY DEF SameAt, Outcome, Rows, Errors
<1>2. HeaderInv(o)' /\ OutcomeInv(o)' /\ LineInv(o)' /\ SecretInv(o)'
  <2>1. HeaderInv(o)'
    BY DEF SameAt, RequestInv, HeaderInv
  <2>2. OutcomeInv(o)'
    <3>1. OutcomeInv(o)
      BY DEF RequestInv
    <3>2. at'[o] = at[o] /\ wroteHeader'[o] = wroteHeader[o] /\ wire'[o] = wire[o]
          /\ (o \in rows' <=> o \in rows)
      BY DEF SameAt
    <3> QED
      BY <1>1, <3>1, <3>2, ZenonT(60) DEF OutcomeInv
  <2>3. LineInv(o)' /\ SecretInv(o)'
    BY DEF SameAt, RequestInv, LineInv, SecretInv
  <2> QED
    BY <2>1, <2>2, <2>3
<1>3. QueryRecords(o)' = QueryRecords(o)
  BY DEF SameAt, QueryRecords
<1>4. \A j \in QueryRecords(o) : Ordinal(o, j)' = Ordinal(o, j)
  BY <1>3, OrdinalStays
<1>5. CountsInv(o)'
  BY <1>1, <1>3, <1>4 DEF SameAt, RequestInv, CountsInv
<1> QED
  BY <1>2, <1>5 DEF RequestInv

LEMMA StatusWritten ==
  ASSUME LogTypeOK, NEW r \in Requests, HeaderInv(r), NEW code \in Nat, WriteHeader(r, code)
  PROVE  /\ statusCode' \in [Requests -> Nat] /\ wire' \in [Requests -> Nat]
         /\ wroteHeader' \in [Requests -> BOOLEAN]
         /\ wroteHeader'[r] /\ wire'[r] = statusCode'[r]
         /\ wire'[r] = IF wroteHeader[r] THEN wire[r] ELSE code
         /\ \A o \in Requests \ {r} : /\ statusCode'[o] = statusCode[o]
                                      /\ wroteHeader'[o] = wroteHeader[o]
                                      /\ wire'[o] = wire[o]
<1>1. /\ statusCode \in [Requests -> Nat] /\ wire \in [Requests -> Nat]
      /\ wroteHeader \in [Requests -> BOOLEAN]
  BY DEF LogTypeOK
<1>2. /\ wroteHeader[r] => wire[r] = statusCode[r]
      /\ ~wroteHeader[r] => wire[r] = NoStatus
  BY DEF HeaderInv
<1>3. CASE wroteHeader[r]
  <2>1. statusCode' = statusCode /\ wroteHeader' = wroteHeader /\ wire' = wire
    BY <1>3 DEF WriteHeader
  <2> QED
    BY <1>1, <1>2, <1>3, <2>1
<1>4. CASE ~wroteHeader[r]
  <2>1. /\ statusCode' = [statusCode EXCEPT ![r] = code]
        /\ wroteHeader' = [wroteHeader EXCEPT ![r] = TRUE]
        /\ wire' = [wire EXCEPT ![r] = code]
    BY <1>2, <1>4 DEF WriteHeader
  <2> QED
    BY <1>1, <1>4, <2>1
<1> QED
  BY <1>3, <1>4

LEMMA Logged ==
  ASSUME LogTypeOK, NEW r \in Requests, NEW recs \in Seq(Loggable), Log(r, recs)
  PROVE  /\ log' \in [Requests -> Seq(Loggable)] /\ log'[r] = log[r] \o recs
         /\ \A o \in Requests \ {r} : log'[o] = log[o]
<1>1. log \in [Requests -> Seq(Loggable)] /\ log[r] \o recs \in Seq(Loggable)
  BY DEF LogTypeOK
<1> QED
  BY <1>1 DEF Log

LEMMA AsidesAreQuiet ==
  ASSUME NEW recs \in Seq(Asides)
  PROVE  recs \in Seq(Loggable) /\ \A i \in 1 .. Len(recs) : recs[i].msg # "postgres/query"
BY DEF Asides

LEMMA AsideRecords ==
  ASSUME NEW r \in Requests
  PROVE  /\ Decoded(r) \in Asides /\ WriteFailed \in Asides
         /\ Record("creating user", [username |-> Username[r]]) \in Asides
         /\ Record("created user", [username |-> Username[r]]) \in Asides
         /\ Record("create user failed", Empty) \in Asides
<1> DEFINE named == Record("creating user", [username |-> Username[r]])
           done  == Record("created user", [username |-> Username[r]])
           failed == Record("create user failed", Empty)
<1>1. /\ Decoded(r).msg # "postgres/query" /\ WriteFailed.msg # "postgres/query"
      /\ named.msg # "postgres/query" /\ done.msg # "postgres/query"
      /\ failed.msg # "postgres/query"
  BY DEF Decoded, WriteFailed, Record
<1>2. /\ Decoded(r) \in Loggable /\ WriteFailed \in Loggable
      /\ named \in Loggable /\ done \in Loggable /\ failed \in Loggable
  BY DEF Loggable
<1> HIDE DEF named, done, failed
<1>3. /\ Decoded(r) \in Asides /\ WriteFailed \in Asides
      /\ named \in Asides /\ done \in Asides /\ failed \in Asides
  BY <1>1, <1>2 DEF Asides
<1> QED
  BY <1>3 DEF named, done, failed

LEMMA TailsAreAsides ==
  ASSUME NEW rec \in Asides, NEW tail \in {<<>>, <<WriteFailed>>}, WriteFailed \in Asides
  PROVE  <<rec>> \o tail \in Seq(Asides)
<1>1. tail \in Seq(Asides) /\ <<rec>> \in Seq(Asides)
  <2> DEFINE w == WriteFailed
  <2>1. w \in Asides /\ tail \in {<<>>, <<w>>}
    OBVIOUS
  <2> HIDE DEF w
  <2>2. <<>> \in Seq(Asides) /\ <<w>> \in Seq(Asides) /\ <<rec>> \in Seq(Asides)
    BY <2>1
  <2> QED
    BY <2>1, <2>2
<1> QED
  BY <1>1

LEMMA TwoAsides ==
  ASSUME NEW x \in Asides, NEW y \in Asides
  PROVE  <<x, y>> \in Seq(Asides)
OBVIOUS

LEMMA NothingLogged ==
  ASSUME LogTypeOK, NEW r \in Requests, UNCHANGED log
  PROVE  \E recs \in Seq(Asides) : log'[r] = log[r] \o recs
<1>1. log[r] \in Seq(Loggable) /\ log'[r] = log[r] /\ <<>> \in Seq(Asides)
  BY DEF LogTypeOK
<1>2. log[r] \o <<>> = log[r]
  BY <1>1
<1> QED
  BY <1>1, <1>2

(* Steps at which no query ends, with bag fields that are not of queries.  *)
LEMMA QuietCounts ==
  ASSUME LogTypeOK, NEW r \in Requests, CountsInv(r), ran' = ran,
         \E recs \in Seq(Asides) : log'[r] = log[r] \o recs,
         \A zero : \A k \in QueryKeys : Field(bag'[r], k, zero) = Field(bag[r], k, zero)
  PROVE  CountsInv(r)'
<1>1. PICK recs \in Seq(Asides) : log'[r] = log[r] \o recs
  OBVIOUS
<1>2. recs \in Seq(Loggable) /\ \A i \in 1 .. Len(recs) : recs[i].msg # "postgres/query"
  BY AsidesAreQuiet
<1> QED
  BY <1>1, <1>2, CountsKept

LEMMA Queried ==
  ASSUME LogTypeOK, NEW r \in Requests, CountsInv(r), NEW q \in Traceable, NEW b,
         NEW recs \in Seq(Asides), QueryEnds(r, q, b, recs),
         \A zero : \A k \in QueryKeys : Field(b, k, zero) = Field(Traced(r, q), k, zero)
  PROVE  /\ ran' \in [Requests -> Seq(Traceable)] /\ log' \in [Requests -> Seq(Loggable)]
         /\ DOMAIN bag' = Requests /\ bag'[r] = b
         /\ \A o \in Requests \ {r} : ran'[o] = ran[o] /\ log'[o] = log[o] /\ bag'[o] = bag[o]
         /\ CountsInv(r)'
<1> DEFINE rec == QueryRecord(q)
<1>1. rec \in Loggable
  BY DEF Loggable
<1>2. recs \in Seq(Loggable) /\ \A i \in 1 .. Len(recs) : recs[i].msg # "postgres/query"
  BY AsidesAreQuiet
<1>3. ran \in [Requests -> Seq(Traceable)] /\ ran' = [ran EXCEPT ![r] = Append(@, q)]
  BY DEF LogTypeOK, QueryEnds
<1>4. /\ ran' \in [Requests -> Seq(Traceable)] /\ ran'[r] = Append(ran[r], q)
      /\ \A o \in Requests \ {r} : ran'[o] = ran[o]
  BY <1>3
<1>5. DOMAIN bag' = Requests /\ bag'[r] = b /\ \A o \in Requests \ {r} : bag'[o] = bag[o]
  BY DEF LogTypeOK, QueryEnds, SetBag
<1> DEFINE all == <<rec>> \o recs
<1>6. Log(r, all)
  BY DEF QueryEnds
<1> HIDE DEF rec
<1>7. all \in Seq(Loggable)
  BY <1>1, <1>2
<1> HIDE DEF all
<1>8. /\ log' \in [Requests -> Seq(Loggable)] /\ log'[r] = log[r] \o all
      /\ \A o \in Requests \ {r} : log'[o] = log[o]
  BY <1>6, <1>7, Logged
<1>9. log'[r] = log[r] \o (<<QueryRecord(q)>> \o recs)
  BY <1>8 DEF all, rec
<1>10. CountsInv(r)'
  BY <1>2, <1>4, <1>5, <1>9, CountsGrow
<1> QED
  BY <1>4, <1>5, <1>8, <1>10

-----------------------------------------------------------------------------
(* The steps, one lemma for each. *)

Kept(r) == LogTypeOK' /\ OnlyAt(r) /\ RequestInv(r)'

LEMMA MuxAnswers ==
  ASSUME LogTypeOK, NEW r \in Requests, RequestInv(r), NoRoute(r)
  PROVE  Kept(r)
<1>0. /\ at[r] = "new" /\ WriteHeader(r, 404) /\ Goto(r, "log")
      /\ bag' = bag /\ rows' = rows /\ ran' = ran /\ log' = log /\ line' = line
  BY DEF NoRoute
<1>1. /\ statusCode' \in [Requests -> Nat] /\ wire' \in [Requests -> Nat]
      /\ wroteHeader' \in [Requests -> BOOLEAN]
      /\ wroteHeader'[r] /\ wire'[r] = statusCode'[r]
      /\ wire'[r] = IF wroteHeader[r] THEN wire[r] ELSE 404
      /\ \A o \in Requests \ {r} : /\ statusCode'[o] = statusCode[o]
                                   /\ wroteHeader'[o] = wroteHeader[o]
                                   /\ wire'[o] = wire[o]
  BY <1>0, StatusWritten DEF RequestInv
<1>2. at[r] = "new" /\ at'[r] = "log" /\ \A o \in Requests \ {r} : at'[o] = at[o]
  BY <1>0 DEF LogTypeOK, Goto
<1>3. wire'[r] # 201
  BY <1>0, <1>1, <1>2 DEF RequestInv, HeaderInv
<1>4. LogTypeOK'
  BY <1>0, <1>1 DEF LogTypeOK, Goto
<1>5. OnlyAt(r)
  BY <1>0, <1>1, <1>2 DEF OnlyAt, SameAt
<1>6. HeaderInv(r)'
  BY <1>0, <1>1, <1>2 DEF HeaderInv
<1>7. Outcome(r) = "" /\ Outcome(r)' = "" /\ r \notin rows /\ r \notin rows'
  BY <1>0, <1>2 DEF RequestInv, OutcomeInv, Outcome
<1>8. OutcomeInv(r)'
  BY <1>0, <1>2, <1>3, <1>7 DEF OutcomeInv
<1>9. LineInv(r)' /\ SecretInv(r)'
  BY <1>0, <1>2 DEF RequestInv, LineInv, SecretInv
<1>10. CountsInv(r)'
  <2>1. \E recs \in Seq(Asides) : log'[r] = log[r] \o recs
    BY <1>0, NothingLogged
  <2>2. CountsInv(r)
    BY DEF RequestInv
  <2> QED
    BY <1>0, <2>1, <2>2, QuietCounts, Zenon
<1> QED
  BY <1>4, <1>5, <1>6, <1>8, <1>9, <1>10 DEF Kept, RequestInv

LEMMA RequestIsRefused ==
  ASSUME LogTypeOK, NEW r \in Requests, RequestInv(r), Refuse(r)
  PROVE  Kept(r)
<1>0. /\ at[r] = "new" /\ WriteHeader(r, 400) /\ Goto(r, "log")
      /\ bag' = bag /\ rows' = rows /\ ran' = ran /\ line' = line
  BY DEF Refuse
<1>1. /\ statusCode' \in [Requests -> Nat] /\ wire' \in [Requests -> Nat]
      /\ wroteHeader' \in [Requests -> BOOLEAN]
      /\ wroteHeader'[r] /\ wire'[r] = statusCode'[r]
      /\ wire'[r] = IF wroteHeader[r] THEN wire[r] ELSE 400
      /\ \A o \in Requests \ {r} : /\ statusCode'[o] = statusCode[o]
                                   /\ wroteHeader'[o] = wroteHeader[o]
                                   /\ wire'[o] = wire[o]
  BY <1>0, StatusWritten DEF RequestInv
<1>2. at[r] = "new" /\ at'[r] = "log" /\ \A o \in Requests \ {r} : at'[o] = at[o]
  BY <1>0 DEF LogTypeOK, Goto
<1>3. wire'[r] # 201
  BY <1>0, <1>1, <1>2 DEF RequestInv, HeaderInv
<1>4. PICK recs \in Seq(Asides) : Log(r, recs)
  <2>1. PICK tail \in {<<>>, <<WriteFailed>>} : Log(r, <<Decoded(r)>> \o tail)
    BY DEF Refuse
  <2> QED
    BY <2>1, AsideRecords, TailsAreAsides
<1>5. /\ log' \in [Requests -> Seq(Loggable)] /\ log'[r] = log[r] \o recs
      /\ \A o \in Requests \ {r} : log'[o] = log[o]
  <2>1. recs \in Seq(Loggable)
    BY AsidesAreQuiet
  <2> QED
    BY <1>4, <2>1, Logged
<1>6. LogTypeOK'
  BY <1>0, <1>1, <1>5 DEF LogTypeOK, Goto
<1>7. OnlyAt(r)
  BY <1>0, <1>1, <1>2, <1>5 DEF OnlyAt, SameAt
<1>8. HeaderInv(r)'
  BY <1>0, <1>1, <1>2 DEF HeaderInv
<1>9. Outcome(r) = "" /\ Outcome(r)' = "" /\ r \notin rows /\ r \notin rows'
  BY <1>0, <1>2 DEF RequestInv, OutcomeInv, Outcome
<1>10. OutcomeInv(r)'
  BY <1>0, <1>2, <1>3, <1>9 DEF OutcomeInv
<1>11. LineInv(r)' /\ SecretInv(r)'
  BY <1>0, <1>2 DEF RequestInv, LineInv, SecretInv
<1>12. CountsInv(r)'
  <2>1. CountsInv(r)
    BY DEF RequestInv
  <2> QED
    BY <1>0, <1>5, <2>1, QuietCounts, Zenon
<1> QED
  BY <1>6, <1>7, <1>8, <1>10, <1>11, <1>12 DEF Kept, RequestInv

LEMMA DocumentIsBroken ==
  ASSUME LogTypeOK, NEW r \in Requests, RequestInv(r), DecodeFails(r)
  PROVE  Kept(r)
<1>0. /\ at[r] = "new" /\ Goto(r, "error") /\ bag' = bag /\ statusCode' = statusCode
      /\ wroteHeader' = wroteHeader /\ wire' = wire /\ rows' = rows /\ ran' = ran
      /\ log' = log /\ line' = line
  BY DEF DecodeFails
<1>1. at[r] = "new" /\ at'[r] = "error" /\ \A o \in Requests \ {r} : at'[o] = at[o]
  BY <1>0 DEF LogTypeOK, Goto
<1>2. LogTypeOK'
  BY <1>0 DEF LogTypeOK, Goto
<1>3. OnlyAt(r)
  BY <1>0, <1>1 DEF OnlyAt, SameAt
<1>4. HeaderInv(r)' /\ ~wroteHeader[r]
  BY <1>0, <1>1 DEF RequestInv, HeaderInv
<1>5. Outcome(r) = "" /\ Outcome(r)' = "" /\ r \notin rows /\ r \notin rows'
  BY <1>0, <1>1 DEF RequestInv, OutcomeInv, Outcome
<1>6. OutcomeInv(r)'
  BY <1>0, <1>1, <1>4, <1>5 DEF OutcomeInv
<1>7. LineInv(r)' /\ SecretInv(r)'
  BY <1>0, <1>1 DEF RequestInv, LineInv, SecretInv
<1>8. CountsInv(r)'
  <2>1. \E recs \in Seq(Asides) : log'[r] = log[r] \o recs
    BY <1>0, NothingLogged
  <2>2. CountsInv(r)
    BY DEF RequestInv
  <2> QED
    BY <1>0, <2>1, <2>2, QuietCounts, Zenon
<1> QED
  BY <1>2, <1>3, <1>4, <1>6, <1>7, <1>8 DEF Kept, RequestInv

LEMMA ServiceBegins ==
  ASSUME LogTypeOK, NEW r \in Requests, RequestInv(r), CreateUser(r)
  PROVE  Kept(r)
<1> DEFINE b == Put(Put(bag[r], "service.operation", "create_user"),
                    "service.command", Credentials(r))
<1>0. /\ at[r] = "new" /\ Goto(r, "insert") /\ SetBag(r, b) /\ statusCode' = statusCode
      /\ wroteHeader' = wroteHeader /\ wire' = wire /\ rows' = rows /\ ran' = ran
      /\ line' = line
  BY DEF CreateUser
<1>1. at[r] = "new" /\ at'[r] = "insert" /\ \A o \in Requests \ {r} : at'[o] = at[o]
  BY <1>0 DEF LogTypeOK, Goto
<1>2. DOMAIN bag' = Requests /\ bag'[r] = b /\ \A o \in Requests \ {r} : bag'[o] = bag[o]
  <2> HIDE DEF b
  <2> QED
    BY <1>0 DEF LogTypeOK, SetBag
<1>3. /\ DOMAIN b = DOMAIN bag[r] \cup {"service.operation", "service.command"}
      /\ \A x, zero : Field(b, x, zero)
           = IF x = "service.command" THEN Credentials(r)
             ELSE IF x = "service.operation" THEN "create_user" ELSE Field(bag[r], x, zero)
  <2>1. DOMAIN b = DOMAIN bag[r] \cup {"service.operation", "service.command"}
    <3> DEFINE b1 == Put(bag[r], "service.operation", "create_user")
    <3>1. DOMAIN b1 = DOMAIN bag[r] \cup {"service.operation"}
      BY PutDomain
    <3> HIDE DEF b1
    <3>2. DOMAIN Put(b1, "service.command", Credentials(r)) = DOMAIN b1 \cup {"service.command"}
      BY PutDomain
    <3>3. DOMAIN Put(b1, "service.command", Credentials(r))
            = DOMAIN bag[r] \cup {"service.operation", "service.command"}
      BY <3>1, <3>2
    <3> QED
      BY <3>3 DEF b1
  <2>2. \A x, zero : Field(b, x, zero)
          = IF x = "service.command" THEN Credentials(r)
            ELSE IF x = "service.operation" THEN "create_user" ELSE Field(bag[r], x, zero)
    BY PutTwiceField
  <2> HIDE DEF b
  <2> QED
    BY <2>1, <2>2
<1>4. PICK recs \in Seq(Asides) : Log(r, recs)
  BY AsideRecords, TwoAsides DEF CreateUser
<1>5. /\ log' \in [Requests -> Seq(Loggable)] /\ log'[r] = log[r] \o recs
      /\ \A o \in Requests \ {r} : log'[o] = log[o]
  <2>1. recs \in Seq(Loggable)
    BY AsidesAreQuiet
  <2> QED
    BY <1>4, <2>1, Logged
<1> HIDE DEF b
<1>6. LogTypeOK'
  BY <1>0, <1>2, <1>5 DEF LogTypeOK, Goto
<1>7. OnlyAt(r)
  BY <1>0, <1>1, <1>2, <1>5 DEF OnlyAt, SameAt
<1>8. HeaderInv(r)'
  BY <1>0, <1>1 DEF RequestInv, HeaderInv
<1>9. Outcome(r)' = "" /\ r \notin rows'
  <2>1. Outcome(r) = "" /\ r \notin rows
    BY <1>1 DEF RequestInv, OutcomeInv
  <2>2. Field(b, "service.outcome", "") = Field(bag[r], "service.outcome", "")
    BY <1>3
  <2> QED
    BY <1>0, <1>2, <2>1, <2>2 DEF Outcome
<1>10. OutcomeInv(r)'
  BY <1>0, <1>1, <1>9 DEF OutcomeInv
<1>11. LineInv(r)'
  BY <1>0, <1>1 DEF RequestInv, LineInv
<1>12. SecretInv(r)'
  BY <1>0, <1>2, <1>3 DEF RequestInv, SecretInv
<1>13. CountsInv(r)'
  <2>1. CountsInv(r)
    BY DEF RequestInv
  <2>2. \A zero : \A k \in QueryKeys : Field(bag'[r], k, zero) = Field(bag[r], k, zero)
    BY <1>2, <1>3 DEF QueryKeys
  <2> QED
    BY <1>0, <1>5, <2>1, <2>2, QuietCounts, Zenon
<1> QED
  BY <1>6, <1>7, <1>8, <1>10, <1>11, <1>12, <1>13 DEF Kept, RequestInv

LEMMA FailedFields ==
  ASSUME NEW b
  PROVE  /\ DOMAIN ServiceFailed(b) = DOMAIN b \cup {"service.outcome", "service.error"}
         /\ \A x, zero : x \notin {"service.outcome", "service.error"} =>
              Field(ServiceFailed(b), x, zero) = Field(b, x, zero)
         /\ Field(ServiceFailed(b), "service.outcome", "") = "failed"
<1> DEFINE b1 == Put(b, "service.outcome", "failed")
<1>1. DOMAIN b1 = DOMAIN b \cup {"service.outcome"}
  BY PutDomain
<1>2. ServiceFailed(b) = Put(b1, "service.error", "err")
  BY DEF ServiceFailed
<1>3. \A x, zero : Field(ServiceFailed(b), x, zero)
         = IF x = "service.error" THEN "err"
           ELSE IF x = "service.outcome" THEN "failed" ELSE Field(b, x, zero)
  BY PutTwiceField DEF ServiceFailed
<1> HIDE DEF b1
<1>4. DOMAIN Put(b1, "service.error", "err") = DOMAIN b1 \cup {"service.error"}
  BY PutDomain
<1> QED
  BY <1>1, <1>2, <1>3, <1>4

LEMMA CreatedFields ==
  ASSUME NEW b
  PROVE  /\ DOMAIN ServiceCreated(b) = DOMAIN b \cup {"service.outcome", "service.user_id"}
         /\ \A x, zero : x \notin {"service.outcome", "service.user_id"} =>
              Field(ServiceCreated(b), x, zero) = Field(b, x, zero)
         /\ Field(ServiceCreated(b), "service.outcome", "") = "created"
<1> DEFINE b1 == Put(b, "service.outcome", "created")
<1>1. DOMAIN b1 = DOMAIN b \cup {"service.outcome"}
  BY PutDomain
<1>2. ServiceCreated(b) = Put(b1, "service.user_id", "id")
  BY DEF ServiceCreated
<1>3. \A x, zero : Field(ServiceCreated(b), x, zero)
         = IF x = "service.user_id" THEN "id"
           ELSE IF x = "service.outcome" THEN "created" ELSE Field(b, x, zero)
  BY PutTwiceField DEF ServiceCreated
<1> HIDE DEF b1
<1>4. DOMAIN Put(b1, "service.user_id", "id") = DOMAIN b1 \cup {"service.user_id"}
  BY PutDomain
<1> QED
  BY <1>1, <1>2, <1>3, <1>4

(* The bag as the tracer leaves it. *)
LEMMA TracedFields ==
  ASSUME NEW r \in Requests, CountsInv(r), NEW q \in Traceable
  PROVE  /\ DOMAIN Traced(r, q) \subseteq DOMAIN bag[r] \cup QueryKeys
         /\ \A x, zero : x \notin QueryKeys => Field(Traced(r, q), x, zero) = Field(bag[r], x, zero)
         /\ Rows(r) \in Nat /\ Errors(r) \in Nat
         /\ Field(Traced(r, q), "db.rows_affected", 0) = Rows(r) + q.affected
         /\ Field(Traced(r, q), "db.error_count", 0)
              = Errors(r) + (IF q.error # NoError THEN 1 ELSE 0)
<1>1. Rows(r) \in Nat /\ Errors(r) \in Nat /\ q.affected \in Nat
  BY QueryTypes, FS_CardinalityType DEF CountsInv
<1> QED
  BY <1>1, TraceFields DEF Traced, Rows, Errors

LEMMA SecretKept ==
  ASSUME NEW r, SecretInv(r), NEW new, DOMAIN bag'[r] \subseteq DOMAIN bag[r] \cup new,
         "args" \notin new, "error" \notin new, "request" \notin new,
         \A zero : Field(bag'[r], "service.command", zero)
                     = Field(bag[r], "service.command", zero)
  PROVE  SecretInv(r)'
<1>1. DOMAIN bag'[r] \cap {"args", "error", "request"} = {}
  BY DEF SecretInv
<1>2. Field(bag'[r], "service.command", Credentials(r)) = Credentials(r)
  BY DEF SecretInv
<1> QED
  BY <1>1, <1>2 DEF SecretInv

(* A query has failed, and with it the service.                            *)
LEMMA ServiceFails ==
  ASSUME LogTypeOK, NEW r \in Requests, RequestInv(r), at[r] \in {"insert", "count"},
         NEW q \in Traceable, q.error # NoError,
         QueryEnds(r, q, ServiceFailed(Traced(r, q)), <<>>),
         Goto(r, "error"), rows' = rows \/ rows' = rows \cup {r}
  PROVE  Kept(r)
<1> DEFINE b == ServiceFailed(Traced(r, q))
<1>0. /\ CountsInv(r) /\ statusCode' = statusCode /\ wroteHeader' = wroteHeader
      /\ wire' = wire /\ line' = line
  BY DEF RequestInv, QueryEnds
<1>1. at'[r] = "error" /\ \A o \in Requests \ {r} : at'[o] = at[o]
  BY DEF LogTypeOK, Goto
<1>2. /\ DOMAIN Traced(r, q) \subseteq DOMAIN bag[r] \cup QueryKeys
      /\ \A x, zero : x \notin QueryKeys => Field(Traced(r, q), x, zero) = Field(bag[r], x, zero)
      /\ Rows(r) \in Nat /\ Errors(r) \in Nat
      /\ Field(Traced(r, q), "db.rows_affected", 0) = Rows(r) + q.affected
      /\ Field(Traced(r, q), "db.error_count", 0)
           = Errors(r) + (IF q.error # NoError THEN 1 ELSE 0)
  BY <1>0, TracedFields
<1>3. /\ DOMAIN b = DOMAIN Traced(r, q) \cup {"service.outcome", "service.error"}
      /\ \A x, zero : x \notin {"service.outcome", "service.error"} =>
           Field(b, x, zero) = Field(Traced(r, q), x, zero)
      /\ Field(b, "service.outcome", "") = "failed"
  BY FailedFields
<1> HIDE DEF b
<1>4. \A zero : \A k \in QueryKeys : Field(b, k, zero) = Field(Traced(r, q), k, zero)
  BY <1>3 DEF QueryKeys
<1>5. /\ ran' \in [Requests -> Seq(Traceable)] /\ log' \in [Requests -> Seq(Loggable)]
      /\ DOMAIN bag' = Requests /\ bag'[r] = b
      /\ \A o \in Requests \ {r} : ran'[o] = ran[o] /\ log'[o] = log[o] /\ bag'[o] = bag[o]
      /\ CountsInv(r)'
  <2> DEFINE none == <<>>
  <2>1. QueryEnds(r, q, b, none) /\ none \in Seq(Asides)
    BY DEF b
  <2> HIDE DEF none
  <2> QED
    BY <1>0, <1>4, <2>1, Queried
<1>6. LogTypeOK'
  BY <1>0, <1>5 DEF LogTypeOK, Goto
<1>7. OnlyAt(r)
  BY <1>0, <1>1, <1>5 DEF OnlyAt, SameAt
<1>8. HeaderInv(r)' /\ ~wroteHeader'[r]
  BY <1>0, <1>1 DEF RequestInv, HeaderInv
<1>9. Outcome(r)' = "failed"
  BY <1>3, <1>5 DEF Outcome
<1>10. Rows(r)' + Errors(r)' >= 1
  <2>1. Errors(r)' = Errors(r) + 1
    <3>1. Field(b, "db.error_count", 0) = Field(Traced(r, q), "db.error_count", 0)
      BY <1>3
    <3> DEFINE n == Errors(r)
    <3>2. Field(Traced(r, q), "db.error_count", 0) = n + 1
      BY <1>2
    <3>3. Errors(r)' = Field(b, "db.error_count", 0)
      BY <1>5 DEF Errors
    <3> QED
      BY <3>1, <3>2, <3>3, Zenon
  <2>2. Rows(r)' \in Nat
    BY <1>5, FS_CardinalityType DEF CountsInv
  <2> QED
    BY <1>2, <2>1, <2>2
<1>11. OutcomeInv(r)'
  BY <1>1, <1>8, <1>9, <1>10 DEF OutcomeInv
<1>12. LineInv(r)'
  BY <1>0, <1>1 DEF RequestInv, LineInv
<1>13. SecretInv(r)'
  <2>1. SecretInv(r)
    BY DEF RequestInv
  <2>2. DOMAIN b \subseteq DOMAIN bag[r] \cup QueryKeys \cup {"service.outcome", "service.error"}
    BY <1>2, <1>3
  <2>3. ASSUME NEW zero
        PROVE  Field(b, "service.command", zero) = Field(bag[r], "service.command", zero)
    <3>1. Field(b, "service.command", zero) = Field(Traced(r, q), "service.command", zero)
      BY <1>3
    <3>2. "service.command" \notin QueryKeys
      BY DEF QueryKeys
    <3> QED
      BY <1>2, <3>1, <3>2
  <2> DEFINE new == QueryKeys \cup {"service.outcome", "service.error"}
  <2>4. "args" \notin new /\ "error" \notin new /\ "request" \notin new /\
          DOMAIN b \subseteq DOMAIN bag[r] \cup new
    BY <2>2 DEF QueryKeys
  <2> HIDE DEF new
  <2> QED
    BY <1>5, <2>1, <2>3, <2>4, SecretKept
<1> QED
  BY <1>5, <1>6, <1>7, <1>8, <1>11, <1>12, <1>13 DEF Kept, RequestInv

LEMMA InsertHasFailed ==
  ASSUME LogTypeOK, NEW r \in Requests, RequestInv(r), InsertFails(r)
  PROVE  Kept(r)
<1>1. PICK e \in QueryErrors \cup {UniqueViolation} :
        /\ QueryEnds(r, Query(insertArgs(r), e),
                     ServiceFailed(Traced(r, Query(insertArgs(r), e))), <<>>)
        /\ rows' = rows \/ rows' = rows \cup {r}
  BY DEF InsertFails
<1> DEFINE q == Query(insertArgs(r), e)
<1>2. q \in Traceable /\ q.error = e
  BY DEF Traceable, Outcomes, Query
<1>3. e # NoError
  BY DEF QueryErrors, UniqueViolation, NoError
<1>4. at[r] = "insert" /\ Goto(r, "error")
  BY DEF InsertFails
<1>5. QueryEnds(r, q, ServiceFailed(Traced(r, q)), <<>>)
  BY <1>1
<1> HIDE DEF q
<1> QED
  BY <1>1, <1>2, <1>3, <1>4, <1>5, ServiceFails

LEMMA CountHasFailed ==
  ASSUME LogTypeOK, NEW r \in Requests, RequestInv(r), CountFails(r)
  PROVE  Kept(r)
<1>1. PICK e \in QueryErrors :
        QueryEnds(r, Query(countArgs(r), e),
                  ServiceFailed(Traced(r, Query(countArgs(r), e))), <<>>)
  BY DEF CountFails
<1> DEFINE q == Query(countArgs(r), e)
<1>2. q \in Traceable /\ q.error = e
  BY DEF Traceable, Outcomes, Query
<1>3. e # NoError
  BY DEF QueryErrors, NoError
<1>4. at[r] = "count" /\ Goto(r, "error") /\ rows' = rows
  BY DEF CountFails
<1>5. QueryEnds(r, q, ServiceFailed(Traced(r, q)), <<>>)
  BY <1>1
<1> HIDE DEF q
<1> QED
  BY <1>1, <1>2, <1>3, <1>4, <1>5, ServiceFails

LEMMA PoolIsExhausted ==
  ASSUME LogTypeOK, NEW r \in Requests, RequestInv(r), NoConnection(r)
  PROVE  Kept(r)
<1> DEFINE b == ServiceFailed(bag[r])
<1>0. /\ at[r] \in {"insert", "count"} /\ Goto(r, "error") /\ SetBag(r, b)
      /\ statusCode' = statusCode /\ wroteHeader' = wroteHeader /\ wire' = wire
      /\ rows' = rows /\ ran' = ran /\ log' = log /\ line' = line
  BY DEF NoConnection
<1>1. at'[r] = "error" /\ \A o \in Requests \ {r} : at'[o] = at[o]
  BY <1>0 DEF LogTypeOK, Goto
<1>2. /\ DOMAIN b = DOMAIN bag[r] \cup {"service.outcome", "service.error"}
      /\ \A x, zero : x \notin {"service.outcome", "service.error"} =>
           Field(b, x, zero) = Field(bag[r], x, zero)
      /\ Field(b, "service.outcome", "") = "failed"
  BY FailedFields
<1> HIDE DEF b
<1>3. DOMAIN bag' = Requests /\ bag'[r] = b /\ \A o \in Requests \ {r} : bag'[o] = bag[o]
  BY <1>0 DEF LogTypeOK, SetBag
<1>4. LogTypeOK'
  BY <1>0, <1>3 DEF LogTypeOK, Goto
<1>5. OnlyAt(r)
  BY <1>0, <1>1, <1>3 DEF OnlyAt, SameAt
<1>6. HeaderInv(r)' /\ ~wroteHeader'[r]
  BY <1>0, <1>1 DEF RequestInv, HeaderInv
<1>7. Outcome(r)' = "failed"
  BY <1>2, <1>3 DEF Outcome
<1>8. Rows(r)' = Rows(r) /\ Errors(r)' = Errors(r)
  BY <1>2, <1>3 DEF Rows, Errors
<1>9. r \in rows' => Rows(r)' + Errors(r)' >= 1
  BY <1>0, <1>8 DEF RequestInv, OutcomeInv
<1>10. OutcomeInv(r)'
  BY <1>1, <1>6, <1>7, <1>9 DEF OutcomeInv
<1>11. LineInv(r)'
  BY <1>0, <1>1 DEF RequestInv, LineInv
<1>12. SecretInv(r)'
  BY <1>2, <1>3, SecretKept DEF RequestInv
<1>13. CountsInv(r)'
  <2>1. \E recs \in Seq(Asides) : log'[r] = log[r] \o recs
    BY <1>0, NothingLogged
  <2>2. CountsInv(r)
    BY DEF RequestInv
  <2>3. \A zero : \A k \in QueryKeys : Field(bag'[r], k, zero) = Field(bag[r], k, zero)
    BY <1>2, <1>3 DEF QueryKeys
  <2> QED
    BY <1>0, <2>1, <2>2, <2>3, QuietCounts, Zenon
<1> QED
  BY <1>4, <1>5, <1>6, <1>10, <1>11, <1>12, <1>13 DEF Kept, RequestInv

LEMMA UserIsInserted ==
  ASSUME LogTypeOK, NEW r \in Requests, RequestInv(r), InsertSucceeds(r)
  PROVE  Kept(r)
<1> DEFINE q == Query(insertArgs(r), NoError)
           b == Traced(r, q)
           none == <<>>
<1>0. /\ at[r] = "insert" /\ Goto(r, "count") /\ rows' = rows \cup {r}
      /\ QueryEnds(r, q, b, none) /\ CountsInv(r)
  BY DEF InsertSucceeds, RequestInv
<1>1. q \in Traceable /\ q.error = NoError /\ q.affected = 1 /\ none \in Seq(Asides)
  BY DEF Traceable, Outcomes, Query
<1> HIDE DEF q, none
<1>2. /\ DOMAIN b \subseteq DOMAIN bag[r] \cup QueryKeys
      /\ \A x, zero : x \notin QueryKeys => Field(b, x, zero) = Field(bag[r], x, zero)
      /\ Rows(r) \in Nat /\ Errors(r) \in Nat
      /\ Field(b, "db.rows_affected", 0) = Rows(r) + q.affected
  BY <1>0, <1>1, TracedFields
<1>3. \A zero : \A k \in QueryKeys : Field(b, k, zero) = Field(Traced(r, q), k, zero)
  OBVIOUS
<1> HIDE DEF b
<1>4. /\ statusCode' = statusCode /\ wroteHeader' = wroteHeader
      /\ wire' = wire /\ line' = line
  BY <1>0 DEF QueryEnds
<1>5. at'[r] = "count" /\ \A o \in Requests \ {r} : at'[o] = at[o]
  BY <1>0 DEF LogTypeOK, Goto
<1>6. /\ ran' \in [Requests -> Seq(Traceable)] /\ log' \in [Requests -> Seq(Loggable)]
      /\ DOMAIN bag' = Requests /\ bag'[r] = b
      /\ \A o \in Requests \ {r} : ran'[o] = ran[o] /\ log'[o] = log[o] /\ bag'[o] = bag[o]
      /\ CountsInv(r)'
  BY <1>0, <1>1, <1>3, Queried
<1>7. LogTypeOK'
  BY <1>0, <1>4, <1>6 DEF LogTypeOK, Goto
<1>8. OnlyAt(r)
  BY <1>0, <1>4, <1>5, <1>6 DEF OnlyAt, SameAt
<1>9. HeaderInv(r)'
  BY <1>0, <1>4, <1>5 DEF RequestInv, HeaderInv
<1>10. Outcome(r)' = ""
  <2>1. Outcome(r) = ""
    BY <1>0 DEF RequestInv, OutcomeInv
  <2>2. "service.outcome" \notin QueryKeys
    BY DEF QueryKeys
  <2> QED
    BY <1>2, <1>6, <2>1, <2>2 DEF Outcome
<1>11. Rows(r)' + Errors(r)' >= 1
  <2>1. Rows(r)' = Field(b, "db.rows_affected", 0)
    BY <1>6 DEF Rows
  <2>2. Rows(r)' >= 1
    BY <1>1, <1>2, <2>1
  <2>3. Errors(r)' \in Nat /\ Rows(r)' \in Nat
    BY <1>6, FS_CardinalityType DEF CountsInv
  <2> QED
    BY <2>2, <2>3
<1>12. OutcomeInv(r)'
  BY <1>0, <1>5, <1>10, <1>11 DEF OutcomeInv
<1>13. LineInv(r)'
  BY <1>0, <1>4, <1>5 DEF RequestInv, LineInv
<1>14. SecretInv(r)'
  <2>1. /\ "args" \notin QueryKeys /\ "error" \notin QueryKeys
        /\ "request" \notin QueryKeys /\ "service.command" \notin QueryKeys
    BY DEF QueryKeys
  <2> QED
    BY <1>2, <1>6, <2>1, SecretKept DEF RequestInv
<1> QED
  BY <1>6, <1>7, <1>8, <1>9, <1>12, <1>13, <1>14 DEF Kept, RequestInv

LEMMA UsersAreCounted ==
  ASSUME LogTypeOK, NEW r \in Requests, RequestInv(r), CountSucceeds(r)
  PROVE  Kept(r)
<1> DEFINE q == Query(countArgs(r), NoError)
           b == ServiceCreated(Traced(r, q))
           done == Record("created user", [username |-> Username[r]])
           recs == <<done>>
<1>0. /\ at[r] = "count" /\ Goto(r, "respond") /\ rows' = rows
      /\ QueryEnds(r, q, b, recs) /\ CountsInv(r)
  BY DEF CountSucceeds, RequestInv
<1>1. q \in Traceable
  BY DEF Traceable, Outcomes, Query
<1>2. recs \in Seq(Asides)
  <2>1. done \in Asides
    BY AsideRecords
  <2> HIDE DEF done
  <2> QED
    BY <2>1
<1> HIDE DEF q, recs
<1>3. /\ DOMAIN Traced(r, q) \subseteq DOMAIN bag[r] \cup QueryKeys
      /\ \A x, zero : x \notin QueryKeys => Field(Traced(r, q), x, zero) = Field(bag[r], x, zero)
  BY <1>0, <1>1, TracedFields
<1>4. /\ DOMAIN b = DOMAIN Traced(r, q) \cup {"service.outcome", "service.user_id"}
      /\ \A x, zero : x \notin {"service.outcome", "service.user_id"} =>
           Field(b, x, zero) = Field(Traced(r, q), x, zero)
      /\ Field(b, "service.outcome", "") = "created"
  BY CreatedFields
<1> HIDE DEF b
<1>5. \A zero : \A k \in QueryKeys : Field(b, k, zero) = Field(Traced(r, q), k, zero)
  BY <1>4 DEF QueryKeys
<1>6. /\ statusCode' = statusCode /\ wroteHeader' = wroteHeader
      /\ wire' = wire /\ line' = line
  BY <1>0 DEF QueryEnds
<1>7. at'[r] = "respond" /\ \A o \in Requests \ {r} : at'[o] = at[o]
  BY <1>0 DEF LogTypeOK, Goto
<1>8. /\ ran' \in [Requests -> Seq(Traceable)] /\ log' \in [Requests -> Seq(Loggable)]
      /\ DOMAIN bag' = Requests /\ bag'[r] = b
      /\ \A o \in Requests \ {r} : ran'[o] = ran[o] /\ log'[o] = log[o] /\ bag'[o] = bag[o]
      /\ CountsInv(r)'
  BY <1>0, <1>1, <1>2, <1>5, Queried
<1>9. LogTypeOK'
  BY <1>0, <1>6, <1>8 DEF LogTypeOK, Goto
<1>10. OnlyAt(r)
  BY <1>0, <1>6, <1>7, <1>8 DEF OnlyAt, SameAt
<1>11. HeaderInv(r)'
  BY <1>0, <1>6, <1>7 DEF RequestInv, HeaderInv
<1>12. Outcome(r)' = "created"
  BY <1>4, <1>8 DEF Outcome
<1>13. r \in rows'
  BY <1>0 DEF RequestInv, OutcomeInv
<1>14. OutcomeInv(r)'
  BY <1>7, <1>12, <1>13 DEF OutcomeInv
<1>15. LineInv(r)'
  BY <1>0, <1>6, <1>7 DEF RequestInv, LineInv
<1>16. SecretInv(r)'
  <2> DEFINE new == QueryKeys \cup {"service.outcome", "service.user_id"}
  <2>1. "args" \notin new /\ "error" \notin new /\ "request" \notin new /\
          DOMAIN b \subseteq DOMAIN bag[r] \cup new
    BY <1>3, <1>4 DEF QueryKeys
  <2>2. ASSUME NEW zero
        PROVE  Field(b, "service.command", zero) = Field(bag[r], "service.command", zero)
    <3>1. Field(b, "service.command", zero) = Field(Traced(r, q), "service.command", zero)
      BY <1>4
    <3>2. "service.command" \notin QueryKeys
      BY DEF QueryKeys
    <3> QED
      BY <1>3, <3>1, <3>2
  <2> HIDE DEF new
  <2> QED
    BY <1>8, <2>1, <2>2, SecretKept DEF RequestInv
<1> QED
  BY <1>8, <1>9, <1>10, <1>11, <1>14, <1>15, <1>16 DEF Kept, RequestInv

(* The response goes out, or breaks off behind its header.                 *)
LEMMA CreatedIsAnswered ==
  ASSUME LogTypeOK, NEW r \in Requests, RequestInv(r), Respond(r)
  PROVE  Kept(r)
<1>0. /\ at[r] = "respond" /\ WriteHeader(r, 201) /\ (Goto(r, "log") \/ Goto(r, "error"))
      /\ bag' = bag /\ rows' = rows /\ ran' = ran /\ log' = log /\ line' = line
  BY DEF Respond
<1>1. /\ statusCode' \in [Requests -> Nat] /\ wire' \in [Requests -> Nat]
      /\ wroteHeader' \in [Requests -> BOOLEAN]
      /\ wroteHeader'[r] /\ wire'[r] = statusCode'[r]
      /\ wire'[r] = IF wroteHeader[r] THEN wire[r] ELSE 201
      /\ \A o \in Requests \ {r} : /\ statusCode'[o] = statusCode[o]
                                   /\ wroteHeader'[o] = wroteHeader[o]
                                   /\ wire'[o] = wire[o]
  BY <1>0, StatusWritten DEF RequestInv
<1>2. at'[r] \in {"log", "error"} /\ \A o \in Requests \ {r} : at'[o] = at[o]
  BY <1>0 DEF LogTypeOK, Goto
<1>3. wire'[r] = 201
  BY <1>0, <1>1 DEF RequestInv, HeaderInv
<1>4. LogTypeOK'
  <2>1. at' = [at EXCEPT ![r] = "log"] \/ at' = [at EXCEPT ![r] = "error"]
    BY <1>0 DEF Goto
  <2>2. at' \in [Requests -> {"new", "insert", "count", "respond", "error", "log", "finished"}]
    BY <2>1 DEF LogTypeOK
  <2> QED
    BY <1>0, <1>1, <2>2 DEF LogTypeOK
<1>5. OnlyAt(r)
  BY <1>0, <1>1, <1>2 DEF OnlyAt, SameAt
<1>6. HeaderInv(r)'
  BY <1>1, <1>2, <1>3 DEF HeaderInv
<1>7. Outcome(r)' = "created" /\ r \in rows'
  BY <1>0 DEF RequestInv, OutcomeInv, Outcome
<1>8. OutcomeInv(r)'
  BY <1>1, <1>2, <1>3, <1>7 DEF OutcomeInv
<1>9. LineInv(r)' /\ SecretInv(r)'
  BY <1>0, <1>2 DEF RequestInv, LineInv, SecretInv
<1>10. CountsInv(r)'
  <2>1. \E recs \in Seq(Asides) : log'[r] = log[r] \o recs
    BY <1>0, NothingLogged
  <2>2. CountsInv(r)
    BY DEF RequestInv
  <2> QED
    BY <1>0, <2>1, <2>2, QuietCounts, Zenon
<1> QED
  BY <1>4, <1>5, <1>6, <1>8, <1>9, <1>10 DEF Kept, RequestInv

LEMMA ErrorIsAnswered ==
  ASSUME LogTypeOK, NEW r \in Requests, RequestInv(r), WriteError(r)
  PROVE  Kept(r)
<1>0. /\ at[r] = "error" /\ WriteHeader(r, 500) /\ Goto(r, "log")
      /\ bag' = bag /\ rows' = rows /\ ran' = ran /\ line' = line
  BY DEF WriteError
<1>1. /\ statusCode' \in [Requests -> Nat] /\ wire' \in [Requests -> Nat]
      /\ wroteHeader' \in [Requests -> BOOLEAN]
      /\ wroteHeader'[r] /\ wire'[r] = statusCode'[r]
      /\ wire'[r] = IF wroteHeader[r] THEN wire[r] ELSE 500
      /\ \A o \in Requests \ {r} : /\ statusCode'[o] = statusCode[o]
                                   /\ wroteHeader'[o] = wroteHeader[o]
                                   /\ wire'[o] = wire[o]
  BY <1>0, StatusWritten DEF RequestInv
<1>2. at'[r] = "log" /\ \A o \in Requests \ {r} : at'[o] = at[o]
  BY <1>0 DEF LogTypeOK, Goto
<1>3. wire'[r] = 201 <=> wroteHeader[r]
  BY <1>0, <1>1 DEF RequestInv, HeaderInv
<1>4. PICK recs \in Seq(Asides) : Log(r, recs)
  <2> DEFINE failed == Record("create user failed", Empty)
  <2>1. PICK tail \in {<<>>, <<WriteFailed>>} : Log(r, <<failed>> \o tail)
    BY DEF WriteError
  <2>2. failed \in Asides /\ WriteFailed \in Asides
    BY AsideRecords
  <2> HIDE DEF failed
  <2> QED
    BY <2>1, <2>2, TailsAreAsides
<1>5. /\ log' \in [Requests -> Seq(Loggable)] /\ log'[r] = log[r] \o recs
      /\ \A o \in Requests \ {r} : log'[o] = log[o]
  <2>1. recs \in Seq(Loggable)
    BY AsidesAreQuiet
  <2> QED
    BY <1>4, <2>1, Logged
<1>6. LogTypeOK'
  BY <1>0, <1>1, <1>5 DEF LogTypeOK, Goto
<1>7. OnlyAt(r)
  BY <1>0, <1>1, <1>2, <1>5 DEF OnlyAt, SameAt
<1>8. HeaderInv(r)'
  BY <1>1, <1>2 DEF HeaderInv
<1>9. /\ Outcome(r)' = Outcome(r) /\ Rows(r)' = Rows(r) /\ Errors(r)' = Errors(r)
      /\ Outcome(r) = "created" <=> wroteHeader[r]
  BY <1>0 DEF RequestInv, OutcomeInv, Outcome, Rows, Errors
<1>10. OutcomeInv(r)'
  BY <1>0, <1>2, <1>3, <1>9 DEF RequestInv, OutcomeInv
<1>11. LineInv(r)' /\ SecretInv(r)'
  BY <1>0, <1>2 DEF RequestInv, LineInv, SecretInv
<1>12. CountsInv(r)'
  <2>1. CountsInv(r)
    BY DEF RequestInv
  <2> QED
    BY <1>0, <1>5, <2>1, QuietCounts, Zenon
<1> QED
  BY <1>6, <1>7, <1>8, <1>10, <1>11, <1>12 DEF Kept, RequestInv

LEMMA LineIsEmitted ==
  ASSUME LogTypeOK, NEW r \in Requests, RequestInv(r), Emit(r)
  PROVE  Kept(r)
<1> DEFINE b == Put(bag[r], "http.status", statusCode[r])
           shown == Attrs(b)
<1>0. /\ at[r] = "log" /\ Goto(r, "finished") /\ SetBag(r, b)
      /\ line' = [line EXCEPT ![r] = Append(@, shown)]
      /\ statusCode' = statusCode /\ wroteHeader' = wroteHeader /\ wire' = wire
      /\ rows' = rows /\ ran' = ran /\ log' = log
  BY DEF Emit
<1>1. at'[r] = "finished" /\ \A o \in Requests \ {r} : at'[o] = at[o]
  BY <1>0 DEF LogTypeOK, Goto
<1>2. DOMAIN b = DOMAIN bag[r] \cup {"http.status"} /\ b["http.status"] = statusCode[r]
  <2>1. DOMAIN b = DOMAIN bag[r] \cup {"http.status"}
    BY PutDomain
  <2>2. b["http.status"] = statusCode[r]
    BY PutAt
  <2> QED
    BY <2>1, <2>2
<1>3. \A x, zero : x # "http.status" => Field(b, x, zero) = Field(bag[r], x, zero)
  BY PutField
<1> HIDE DEF b
<1>4. DOMAIN bag' = Requests /\ bag'[r] = b /\ \A o \in Requests \ {r} : bag'[o] = bag[o]
  BY <1>0 DEF LogTypeOK, SetBag
<1>5. /\ DOMAIN line' = Requests /\ line'[r] = <<shown>>
      /\ \A o \in Requests \ {r} : line'[o] = line[o]
  <2>1. line[r] = <<>>
    BY <1>0 DEF RequestInv, LineInv
  <2> HIDE DEF shown
  <2>2. Append(<<>>, shown) = <<shown>>
    OBVIOUS
  <2> QED
    BY <1>0, <2>1, <2>2 DEF LogTypeOK
<1>6. LogTypeOK'
  BY <1>0, <1>4, <1>5 DEF LogTypeOK, Goto
<1>7. OnlyAt(r)
  BY <1>0, <1>1, <1>4, <1>5 DEF OnlyAt, SameAt
<1>8. HeaderInv(r)'
  BY <1>0, <1>1 DEF RequestInv, HeaderInv
<1>9. Outcome(r)' = Outcome(r) /\ Rows(r)' = Rows(r) /\ Errors(r)' = Errors(r)
  BY <1>3, <1>4 DEF Outcome, Rows, Errors
<1>10. OutcomeInv(r)'
  BY <1>0, <1>1, <1>9 DEF RequestInv, OutcomeInv
<1>11. LineInv(r)'
  <2>1. wire'[r] = statusCode[r]
    BY <1>0 DEF RequestInv, HeaderInv
  <2>2. line'[r] = <<Attrs(bag[r])>>'
    BY <1>4, <1>5
  <2> QED
    BY <1>1, <1>2, <1>4, <2>1, <2>2 DEF LineInv
<1>12. SecretInv(r)'
  BY <1>2, <1>3, <1>4, SecretKept DEF RequestInv
<1>13. CountsInv(r)'
  <2>1. \E recs \in Seq(Asides) : log'[r] = log[r] \o recs
    BY <1>0, NothingLogged
  <2>2. CountsInv(r)
    BY DEF RequestInv
  <2>3. \A zero : \A k \in QueryKeys : Field(bag'[r], k, zero) = Field(bag[r], k, zero)
    BY <1>3, <1>4 DEF QueryKeys
  <2> QED
    BY <1>0, <2>1, <2>2, <2>3, QuietCounts, Zenon
<1> QED
  BY <1>6, <1>7, <1>8, <1>10, <1>11, <1>12, <1>13 DEF Kept, RequestInv

-----------------------------------------------------------------------------
(* The inductive invariant, and what follows from it. *)

(* At every place of the handler the bag, the writer, the table, the line  *)
(* and the records agree about the request (RequestInv).                   *)
THEOREM LogInvariant == LogSpec => []LogInv
<1>1. LogInit => LogInv
  <2> SUFFICES ASSUME LogInit PROVE LogInv
    OBVIOUS
  <2>1. LogTypeOK
    BY DEF LogInit, LogTypeOK, NoStatus
  <2>2. ASSUME NEW r \in Requests PROVE RequestInv(r)
    <3>1. /\ at[r] = "new" /\ bag[r] = Empty /\ ~wroteHeader[r] /\ wire[r] = NoStatus
          /\ r \notin rows /\ ran[r] = <<>> /\ log[r] = <<>> /\ line[r] = <<>>
      BY DEF LogInit
    <3>2. \A x, zero : Field(bag[r], x, zero) = zero
      BY <3>1 DEF Field, Empty
    <3>3. HeaderInv(r) /\ OutcomeInv(r) /\ LineInv(r)
      <4>1. Outcome(r) = ""
        BY <3>2 DEF Outcome
      <4> QED
        BY <3>1, <4>1 DEF HeaderInv, OutcomeInv, LineInv
    <3>4. SecretInv(r)
      BY <3>1, <3>2 DEF SecretInv, Empty
    <3>5. Failures(ran[r]) = {} /\ RowsAffected(ran[r]) = {} /\ QueryRecords(r) = {}
      BY <3>1 DEF Failures, RowsAffected, QueryRecords
    <3>6. IsFiniteSet({}) /\ Cardinality({}) = 0 /\ Len(ran[r]) = 0
      BY <3>1, FS_EmptySet
    <3>7. [i \in 1 .. Len(ran[r]) |-> dbLogAttrs(ran[r][i])] = <<>>
      BY <3>6
    <3>8. CountsInv(r)
      BY <3>2, <3>5, <3>6, <3>7 DEF CountsInv, Errors, Rows
    <3> QED
      BY <3>3, <3>4, <3>8 DEF RequestInv
  <2> QED
    BY <2>1, <2>2 DEF LogInv
<1>2. LogInv /\ [LogNext]_logVars => LogInv'
  <2> SUFFICES ASSUME LogInv, [LogNext]_logVars PROVE LogInv'
    OBVIOUS
  <2>0. LogTypeOK /\ \A r \in Requests : RequestInv(r)
    BY DEF LogInv
  <2>1. ASSUME NEW r \in Requests, Receive(r) PROVE Kept(r)
    BY <2>0, <2>1, MuxAnswers, RequestIsRefused, DocumentIsBroken, ServiceBegins DEF Receive
  <2>2. ASSUME NEW r \in Requests, Handle(r) PROVE Kept(r)
    BY <2>0, <2>2, PoolIsExhausted, UserIsInserted, InsertHasFailed, UsersAreCounted,
       CountHasFailed, CreatedIsAnswered, ErrorIsAnswered, LineIsEmitted DEF Handle
  <2>3. ASSUME NEW r \in Requests, Kept(r) PROVE LogInv'
    <3>1. LogTypeOK' /\ OnlyAt(r) /\ RequestInv(r)'
      BY <2>3 DEF Kept
    <3>2. ASSUME NEW o \in Requests PROVE RequestInv(o)'
      <4>1. CASE o = r
        BY <3>1, <4>1
      <4>2. CASE o # r
        BY <2>0, <3>1, <4>2, OthersKept DEF OnlyAt
      <4> QED
        BY <4>1, <4>2
    <3> QED
      BY <3>1, <3>2 DEF LogInv
  <2>4. CASE LogNext
    BY <2>1, <2>2, <2>3, <2>4 DEF LogNext
  <2>5. CASE UNCHANGED logVars
    <3>1. LogTypeOK'
      BY <2>0, <2>5 DEF LogTypeOK, logVars
    <3>2. ASSUME NEW o \in Requests PROVE RequestInv(o)'
      <4>1. SameAt(o)
        BY <2>5 DEF logVars, SameAt
      <4> QED
        BY <2>0, <4>1, OthersKept
    <3> QED
      BY <3>1, <3>2 DEF LogInv
  <2> QED
    BY <2>4, <2>5
<1> QED
  BY <1>1, <1>2, PTL DEF LogSpec

(* Attrs resolves the command and shows every other field as it is.        *)
LEMMA AttrsShow ==
  ASSUME NEW b, NEW k, NEW zero, k # "service.command"
  PROVE  /\ DOMAIN Attrs(b) = DOMAIN b
         /\ Field(Attrs(b), k, zero) = Field(b, k, zero)
         /\ k \in DOMAIN b => Attrs(b)[k] = b[k]
BY DEF Attrs, Field

LEMMA OneLine ==
  ASSUME LogInv, NEW r \in Requests, NEW i \in 1 .. Len(line[r])
  PROVE  /\ at[r] = "finished" /\ line[r][i] = Attrs(bag[r])
         /\ "http.status" \in DOMAIN bag[r] /\ bag[r]["http.status"] = wire[r]
<1>1. LineInv(r)
  BY DEF LogInv, RequestInv
<1>2. line[r] # <<>>
  <2>1. Len(<<>>) = 0 /\ 1 .. 0 = {}
    OBVIOUS
  <2> QED
    BY <2>1
<1>3. at[r] = "finished"
  BY <1>1, <1>2 DEF LineInv
<1>4. line[r] = <<Attrs(bag[r])>>
  BY <1>1, <1>3 DEF LineInv
<1>5. line[r][i] = Attrs(bag[r])
  <2> DEFINE shown == Attrs(bag[r])
  <2>1. line[r] = <<shown>>
    BY <1>4
  <2> HIDE DEF shown
  <2>2. i = 1
    BY <2>1
  <2> QED
    BY <2>1, <2>2 DEF shown
<1> QED
  BY <1>1, <1>3, <1>5 DEF LineInv

(* A line tells how its request ended (middleware.go, handler.go).         *)
THEOREM LinesTellOutcomes == LogSpec => []LineTellsOutcome
<1>1. LogInv => LineTellsOutcome
  <2> SUFFICES ASSUME LogInv, NEW r \in Requests, NEW i \in 1 .. Len(line[r])
               PROVE  LET b == line[r][i]
                          outcome == Field(b, "service.outcome", "")
                      IN /\ b["http.status"] = wire[r]
                         /\ wire[r] = 201 <=> outcome = "created"
                         /\ wire[r] = 201 => r \in rows
                         /\ r \in rows /\ wire[r] # 201 =>
                              /\ outcome = "failed"
                              /\ Field(b, "db.rows_affected", 0)
                                   + Field(b, "db.error_count", 0) >= 1
    BY DEF LineTellsOutcome
  <2>1. /\ at[r] = "finished" /\ line[r][i] = Attrs(bag[r])
        /\ "http.status" \in DOMAIN bag[r] /\ bag[r]["http.status"] = wire[r]
    BY OneLine
  <2>2. Attrs(bag[r])["http.status"] = wire[r]
    BY <2>1, AttrsShow
  <2>3. /\ Field(Attrs(bag[r]), "service.outcome", "") = Outcome(r)
        /\ Field(Attrs(bag[r]), "db.rows_affected", 0) = Rows(r)
        /\ Field(Attrs(bag[r]), "db.error_count", 0) = Errors(r)
    BY AttrsShow, ZenonT(60) DEF Outcome, Rows, Errors
  <2>4. OutcomeInv(r)
    BY DEF LogInv, RequestInv
  <2> QED
    BY <2>1, <2>2, <2>3, <2>4, ZenonT(60) DEF OutcomeInv
<1> QED
  BY <1>1, LogInvariant, PTL

(* A line counts and lists the queries its request ran, and so do the      *)
(* records of both tracers (both TraceQueryEnd, tracer.go).                *)
THEOREM LinesCountQueries == LogSpec => []LineCountsQueries
<1>1. LogInv => LineCountsQueries
  <2> SUFFICES ASSUME LogInv, NEW r \in Requests, NEW i \in 1 .. Len(line[r])
               PROVE  LET b == line[r][i]
                          listed == Field(b, "db.queries", <<>>)
                      IN /\ Field(b, "db.query_count", 0) = Len(ran[r])
                         /\ Field(b, "db.error_count", 0) = Cardinality(Failures(ran[r]))
                         /\ Field(b, "db.rows_affected", 0) = Cardinality(RowsAffected(ran[r]))
                         /\ Len(listed) = Len(ran[r])
                         /\ \A j \in 1 .. Len(listed) :
                              LET e == Field(listed[j], "error", Empty) IN
                              /\ "error" \in DOMAIN listed[j] <=> ran[r][j].error # NoError
                              /\ Field(e, "code", "") = UniqueViolation
                                   <=> ran[r][j].error = UniqueViolation
                         /\ Cardinality(QueryRecords(r)) = Len(listed)
                         /\ \A j \in QueryRecords(r) :
                              log[r][j].attrs
                                = listed[Cardinality({k \in QueryRecords(r) : k <= j})]
    BY DEF LineCountsQueries
  <2>1. line[r][i] = Attrs(bag[r])
    BY OneLine
  <2>2. CountsInv(r) /\ ran[r] \in Seq(Traceable)
    BY DEF LogInv, RequestInv, LogTypeOK
  <2> DEFINE b == line[r][i]
             s == ran[r]
             listed == Field(b, "db.queries", <<>>)
  <2>3. /\ listed = Field(bag[r], "db.queries", <<>>)
        /\ Field(b, "db.query_count", 0) = Field(bag[r], "db.query_count", 0)
        /\ Field(b, "db.error_count", 0) = Errors(r)
        /\ Field(b, "db.rows_affected", 0) = Rows(r)
    BY <2>1, AttrsShow DEF Errors, Rows
  <2>4. listed = [j \in 1 .. Len(s) |-> dbLogAttrs(s[j])]
    BY <2>2, <2>3 DEF CountsInv
  <2>5. Len(s) \in Nat /\ \A j \in 1 .. Len(s) : s[j] \in Traceable
    BY <2>2
  <2> HIDE DEF listed, s
  <2>6. Len(listed) = Len(s) /\ \A j \in 1 .. Len(s) : listed[j] = dbLogAttrs(s[j])
    BY <2>4, <2>5
  <2>7. ASSUME NEW j \in 1 .. Len(listed)
        PROVE  LET e == Field(listed[j], "error", Empty) IN
               /\ "error" \in DOMAIN listed[j] <=> s[j].error # NoError
               /\ Field(e, "code", "") = UniqueViolation <=> s[j].error = UniqueViolation
    <3> DEFINE q == s[j]
               e == Field(dbLogAttrs(q), "error", Empty)
    <3>1. q \in Traceable /\ listed[j] = dbLogAttrs(q) /\ q.error \in Outcomes
      BY <2>5, <2>6, QueryTypes
    <3> HIDE DEF q
    <3>2. /\ "error" \in DOMAIN dbLogAttrs(q) <=> q.error # NoError
          /\ q.error # NoError => dbLogAttrs(q)["error"] = pgErrorValue(q)
      BY <3>1, DBLogFields
    <3>3. Field(e, "code", "") = UniqueViolation <=> q.error = UniqueViolation
      <4>1. CASE q.error # NoError
        <5>1. e = pgErrorValue(q)
          BY <3>2, <4>1 DEF Field
        <5> QED
          BY <3>1, <4>1, <5>1, ErrorCode
      <4>2. CASE q.error = NoError
        <5>1. e = Empty
          BY <3>2, <4>2 DEF Field
        <5> HIDE DEF e
        <5>2. Field(e, "code", "") = ""
          BY <5>1 DEF Field, Empty
        <5> QED
          BY <4>2, <5>2 DEF NoError, UniqueViolation
      <4> QED
        BY <4>1, <4>2
    <3> HIDE DEF e
    <3> QED
      BY <3>1, <3>2, <3>3, Zenon DEF e, q
  <2>8. ASSUME NEW j \in QueryRecords(r)
        PROVE  log[r][j].attrs = listed[Cardinality({k \in QueryRecords(r) : k <= j})]
    BY <2>2, <2>6 DEF CountsInv, Ordinal, s
  <2>9. /\ Field(b, "db.query_count", 0) = Len(s)
        /\ Field(b, "db.error_count", 0) = Cardinality(Failures(s))
        /\ Field(b, "db.rows_affected", 0) = Cardinality(RowsAffected(s))
        /\ Cardinality(QueryRecords(r)) = Len(s)
    BY <2>2, <2>3 DEF CountsInv, s
  <2> HIDE DEF b
  <2> QED
    BY <2>6, <2>7, <2>8, <2>9, Zenon DEF listed, s, b
<1> QED
  BY <1>1, LogInvariant, PTL

(* No record and no line shows the password, when the tracer redacts it    *)
(* by its key and no identifier or username is the password (LogValue,     *)
(* redactNamedArgs).                                                       *)
THEOREM PasswordStaysOut ==
  ASSUME PasswordIsApart
  PROVE  LogSpec => []NoPasswordLogged
<1>1. LogInv => NoPasswordLogged
  <2> SUFFICES ASSUME LogInv, NEW r \in Requests
               PROVE  /\ \A i \in 1 .. Len(line[r]) : ~ShowsPassword(line[r][i])
                      /\ \A i \in 1 .. Len(log[r]) : ~ShowsPassword(log[r][i].attrs)
    BY DEF NoPasswordLogged
  <2>1. SecretInv(r) /\ CountsInv(r) /\ ran[r] \in Seq(Traceable) /\ log[r] \in Seq(Loggable)
    BY DEF LogInv, RequestInv, LogTypeOK
  <2>2. ASSUME NEW i \in 1 .. Len(log[r]) PROVE ~ShowsPassword(log[r][i].attrs)
    <3>1. log[r][i] \in Loggable
      BY <2>1
    <3> QED
      BY <3>1, RecordsAreSafe
  <2>3. ASSUME NEW i \in 1 .. Len(line[r]) PROVE ~ShowsPassword(line[r][i])
    <3> DEFINE b == Attrs(bag[r])
               s == ran[r]
               listed == Field(b, "db.queries", <<>>)
    <3>1. line[r][i] = b
      BY OneLine
    <3>2. DOMAIN b = DOMAIN bag[r]
      BY DEF Attrs
    <3>3. ASSUME "service.command" \in DOMAIN b
          PROVE  Password \notin Range(b["service.command"])
      <4>1. bag[r]["service.command"] = Credentials(r)
        BY <2>1, <3>2, <3>3 DEF SecretInv, Field
      <4>2. b["service.command"] = LogValue(Credentials(r))
        BY <3>2, <3>3, <4>1 DEF Attrs
      <4> QED
        BY <4>2, CommandIsSafe
    <3>4. DOMAIN b \cap {"args", "error", "request"} = {}
      BY <2>1, <3>2 DEF SecretInv
    <3>5. listed = [j \in 1 .. Len(s) |-> dbLogAttrs(s[j])]
      BY <2>1, AttrsShow DEF CountsInv
    <3>6. \A j \in 1 .. Len(s) : s[j] \in Traceable
      BY <2>1
    <3> HIDE DEF b, s
    <3>7. ASSUME NEW j \in DOMAIN listed
          PROVE  ~InClear(b["db.queries"][j])
      <4>1. j \in 1 .. Len(s) /\ listed[j] = dbLogAttrs(s[j])
        BY <3>5
      <4>2. "db.queries" \in DOMAIN b
        <5>1. <<>> # listed
          BY <3>5, <4>1
        <5> QED
          BY <5>1 DEF Field
      <4>3. b["db.queries"] = listed
        BY <4>2 DEF Field
      <4> DEFINE q == s[j]
      <4>4. q \in Traceable
        BY <3>6, <4>1
      <4> HIDE DEF q
      <4>5. ~InClear(dbLogAttrs(q))
        BY <4>4, QueriesAreSafe
      <4> HIDE DEF listed
      <4>6. b["db.queries"][j] = dbLogAttrs(q)
        BY <4>1, <4>3 DEF q
      <4> QED
        BY <4>5, <4>6
    <3> HIDE DEF listed
    <3>8. ~ShowsPassword(b)
      BY <3>3, <3>4, <3>7 DEF ShowsPassword, InClear, listed
    <3> QED
      BY <3>1, <3>8
  <2> QED
    BY <2>2, <2>3
<1> QED
  BY <1>1, LogInvariant, PTL
-----------------------------------------------------------------------------
(* One line, after finitely many steps. *)

StepsOf(p) ==
  CASE p = "new" -> 6 [] p = "insert" -> 5 [] p = "count" -> 4 [] p = "respond" -> 3
    [] p = "error" -> 2 [] p = "log" -> 1 [] OTHER -> 0

LEMMA StepsFacts ==
  /\ StepsOf("new") = 6 /\ StepsOf("insert") = 5 /\ StepsOf("count") = 4
  /\ StepsOf("respond") = 3 /\ StepsOf("error") = 2 /\ StepsOf("log") = 1
  /\ StepsOf("finished") = 0
BY DEF StepsOf

(* A step of one request takes it forward; the others stay where they are. *)
RequestAdvances(r) ==
  /\ StepsOf(at'[r]) < StepsOf(at[r])
  /\ \A q \in Requests \ {r} : at'[q] = at[q]

LEMMA GotoAdvances ==
  ASSUME LogTypeOK, NEW r \in Requests, NEW p, Goto(r, p), StepsOf(p) < StepsOf(at[r])
  PROVE  RequestAdvances(r)
BY DEF Goto, LogTypeOK, RequestAdvances

LEMMA ReceiveAdvances ==
  ASSUME LogTypeOK, NEW r \in Requests, Receive(r)
  PROVE  RequestAdvances(r)
<1>1. at[r] = "new" /\ (Goto(r, "log") \/ Goto(r, "error") \/ Goto(r, "insert"))
  BY DEF Receive, NoRoute, Refuse, DecodeFails, CreateUser
<1> QED
  BY <1>1, StepsFacts, GotoAdvances

LEMMA HandleAdvances ==
  ASSUME LogTypeOK, NEW r \in Requests, Handle(r)
  PROVE  RequestAdvances(r)
<1>1. CASE NoConnection(r) \/ CountFails(r) \/ InsertFails(r)
  <2>1. at[r] \in {"insert", "count"} /\ Goto(r, "error")
    BY <1>1 DEF NoConnection, CountFails, InsertFails
  <2> QED
    BY <2>1, StepsFacts, GotoAdvances
<1>2. CASE InsertSucceeds(r)
  <2>1. at[r] = "insert" /\ Goto(r, "count")
    BY <1>2 DEF InsertSucceeds
  <2> QED
    BY <2>1, StepsFacts, GotoAdvances
<1>3. CASE CountSucceeds(r)
  <2>1. at[r] = "count" /\ Goto(r, "respond")
    BY <1>3 DEF CountSucceeds
  <2> QED
    BY <2>1, StepsFacts, GotoAdvances
<1>4. CASE Respond(r)
  <2>1. at[r] = "respond" /\ (Goto(r, "log") \/ Goto(r, "error"))
    BY <1>4 DEF Respond
  <2> QED
    BY <2>1, StepsFacts, GotoAdvances
<1>5. CASE WriteError(r)
  <2>1. at[r] = "error" /\ Goto(r, "log")
    BY <1>5 DEF WriteError
  <2> QED
    BY <2>1, StepsFacts, GotoAdvances
<1>6. CASE Emit(r)
  <2>1. at[r] = "log" /\ Goto(r, "finished")
    BY <1>6 DEF Emit
  <2> QED
    BY <2>1, StepsFacts, GotoAdvances
<1> QED
  BY <1>1, <1>2, <1>3, <1>4, <1>5, <1>6 DEF Handle

(* A request has one line when it is finished and none before, and every   *)
(* step brings one request closer to that by the measure StepsOf: no       *)
(* error path logs twice or returns to where it has been, however many     *)
(* requests run beside it (middleware.go, handler.go).                     *)
THEOREM OneLineEach ==
  LogSpec =>
    /\ [](\A r \in Requests : Len(line[r]) = IF at[r] = "finished" THEN 1 ELSE 0)
    /\ [][\E r \in Requests : RequestAdvances(r)]_logVars
<1>1. LogInv => \A r \in Requests : Len(line[r]) = IF at[r] = "finished" THEN 1 ELSE 0
  <2> SUFFICES ASSUME LogInv, NEW r \in Requests
               PROVE  Len(line[r]) = IF at[r] = "finished" THEN 1 ELSE 0
    OBVIOUS
  <2>1. /\ at[r] # "finished" => line[r] = <<>>
        /\ at[r] = "finished" => line[r] = <<Attrs(bag[r])>>
    BY DEF LogInv, RequestInv, LineInv
  <2> QED
    BY <2>1
<1>2. ASSUME LogInv, [LogNext]_logVars
      PROVE  [\E r \in Requests : RequestAdvances(r)]_logVars
  BY <1>2, ReceiveAdvances, HandleAdvances DEF LogInv, LogNext
<1> QED
  BY <1>1, <1>2, LogInvariant, PTL DEF LogSpec
=============================================================================
