---------------------------- MODULE CanonicalLog ----------------------------
(***************************************************************************)
(* logging/: POST /users with its log records and one canonical line per   *)
(* request.  The middleware puts a Bag in the request's context, the       *)
(* service decorator and the query tracer fill it, and the middleware      *)
(* emits it at the end; handler, service and the other tracer log as they  *)
(* go.  Requests run concurrently and share the table; one is sequential.  *)
(***************************************************************************)
EXTENDS Integers, FiniteSets, SequencesExt

CONSTANTS
  Requests,  \* requests, each with a bag of its own
  Username,  \* the username in each request's body
  RedactKeys \* Opts.RedactKeys of the tracer

ASSUME LogAssumption == RedactKeys \subseteq STRING

VARIABLES
  at,          \* where each request's handler is
  bag,         \* Bag.fields: a function on the keys that are set
  statusCode,  \* statusResponseWriter.statusCode
  wroteHeader, \* statusResponseWriter.wroteHeader
  wire,        \* the status line the client was sent, NoStatus before it
  rows,        \* table users: the requests whose user it has
  ran,         \* history: the queries each request has ended, in order
  log,         \* the records logged on each request's way
  line         \* the canonical lines emitted, a sequence per request

logVars == <<at, bag, statusCode, wroteHeader, wire, rows, ran, log, line>>

NoStatus == 0
Redacted == "[REDACTED]"
Empty == [k \in {} |-> 0]

LogInit ==
  /\ at = [r \in Requests |-> "new"]
  /\ bag = [r \in Requests |-> Empty]
  /\ statusCode = [r \in Requests |-> 200]
  /\ wroteHeader = [r \in Requests |-> FALSE]
  /\ wire = [r \in Requests |-> NoStatus]
  /\ rows = {}
  /\ ran = [r \in Requests |-> <<>>]
  /\ log = [r \in Requests |-> <<>>]
  /\ line = [r \in Requests |-> <<>>]

-----------------------------------------------------------------------------
(* canonicallog.Bag. A value of another type than the operation's counts   *)
(* as its zero value. *)

Put(b, k, v) == [x \in DOMAIN b \cup {k} |-> IF x = k THEN v ELSE b[x]]

Add(b, k, delta) == Put(b, k, (IF k \in DOMAIN b THEN b[k] ELSE 0) + delta)

AppendGroup(b, k, g) == Put(b, k, Append(IF k \in DOMAIN b THEN b[k] ELSE <<>>, g))

-----------------------------------------------------------------------------
(* What a record shows: LogValue is resolved when the record is written.   *)

Password == "secret"

(* Both the request and the service's command are this pair. *)
Credentials(r) == [username |-> Username[r], password |-> Password]

LogValue(c) == [c EXCEPT !.password = Redacted]

(* Bag.Attrs: every field, a LogValuer among them by its LogValue. *)
Attrs(b) ==
  [k \in DOMAIN b |-> IF k = "service.command" THEN LogValue(b[k]) ELSE b[k]]

Record(msg, attrs) == [msg |-> msg, attrs |-> attrs]

Log(r, records) == log' = [log EXCEPT ![r] = @ \o records]

-----------------------------------------------------------------------------
(* The query tracers, which multitracer calls one after the other. *)

NoError == "nil"
UniqueViolation == "23505"
QueryErrors == {"timeout", "lost"}

(* Mutant: the arguments go to the log as they are. *)
KeepArgs(args) == args

redactNamedArgs(args) ==
  [k \in DOMAIN args |-> IF k \in RedactKeys THEN Redacted ELSE args[k]]

insertArgs(r) == [id |-> r, username |-> Username[r], password |-> Password]
countArgs(r) == [username |-> Username[r]]

(* What errors.As and errors.Is can tell of a query's error.  The detail   *)
(* is PostgreSQL's: of a violated index it shows the key, here a username. *)
(* The message, the severity, the table, the constraint and the hint hold  *)
(* no value of the request, and are left out.                              *)
pgErrorValue(q) ==
  CASE q.error = UniqueViolation -> [code |-> q.error, detail |-> q.args.username]
    [] q.error = "timeout" -> [type |-> q.error]
    [] OTHER -> Empty

(* The attributes of a DBLog: no error, no row count when there is none. *)
dbLogAttrs(q) ==
  LET b == Put(Empty, "args", redactNamedArgs(q.args))
      b1 == IF q.error # NoError THEN Put(b, "error", pgErrorValue(q)) ELSE b
  IN IF q.affected > 0 THEN Put(b1, "rows", q.affected) ELSE b1

(* LoggingQueryTracer.TraceQueryEnd. *)
QueryRecord(q) == Record("postgres/query", dbLogAttrs(q))

(* Mutant: the early return on success comes before the counters. *)
TraceErrorsOnly(b, q) ==
  LET b1 == AppendGroup(b, "db.queries", dbLogAttrs(q))
  IN IF q.error # NoError
     THEN Add(Add(b1, "db.query_count", 1), "db.error_count", 1)
     ELSE b1

(* Every locked operation of CanonicalQueryTracer.TraceQueryEnd, in their  *)
(* order.                                                                  *)
TraceQueryEnd(b, q) ==
  LET b1 == AppendGroup(b, "db.queries", dbLogAttrs(q))
      b2 == Add(b1, "db.query_count", 1)
      b3 == IF q.affected > 0 THEN Add(b2, "db.rows_affected", q.affected) ELSE b2
  IN IF q.error # NoError THEN Add(b3, "db.error_count", 1) ELSE b3

-----------------------------------------------------------------------------
(* statusResponseWriter. *)

(* Mutant: the status is overwritten, as a wrapper without wroteHeader does. *)
WriteHeaderAgain(r, code) ==
  /\ statusCode' = [statusCode EXCEPT ![r] = code]
  /\ wroteHeader' = [wroteHeader EXCEPT ![r] = TRUE]
  /\ wire' = [wire EXCEPT ![r] = IF @ = NoStatus THEN code ELSE @]

(* The wrapped net/http writer sends the first status it is given. *)
WriteHeader(r, code) ==
  IF wroteHeader[r]
  THEN UNCHANGED <<statusCode, wroteHeader, wire>>
  ELSE /\ statusCode' = [statusCode EXCEPT ![r] = code]
       /\ wroteHeader' = [wroteHeader EXCEPT ![r] = TRUE]
       /\ wire' = [wire EXCEPT ![r] = IF @ = NoStatus THEN code ELSE @]

-----------------------------------------------------------------------------
(* One request. *)

Goto(r, s) == at' = [at EXCEPT ![r] = s]

SetBag(r, b) == bag' = [bag EXCEPT ![r] = b]

Decoded(r) == Record("decoded create user request", [request |-> LogValue(Credentials(r))])

(* writeError: the document may fail to be written, which is only logged. *)
WriteFailed == Record("write error response failed", Empty)

(* No route: the mux answers. *)
NoRoute(r) ==
  /\ at[r] = "new"
  /\ WriteHeader(r, 404)
  /\ Goto(r, "log")
  /\ UNCHANGED <<bag, rows, ran, log, line>>

(* A field is missing from the document. *)
Refuse(r) ==
  /\ at[r] = "new"
  /\ WriteHeader(r, 400)
  /\ Goto(r, "log")
  /\ \E tail \in {<<>>, <<WriteFailed>>} : Log(r, <<Decoded(r)>> \o tail)
  /\ UNCHANGED <<bag, rows, ran, line>>

DecodeFails(r) ==
  /\ at[r] = "new"
  /\ Goto(r, "error")
  /\ UNCHANGED <<bag, statusCode, wroteHeader, wire, rows, ran, log, line>>

CreateUser(r) ==
  /\ at[r] = "new"
  /\ SetBag(r, Put(Put(bag[r], "service.operation", "create_user"),
                   "service.command", Credentials(r)))
  /\ Log(r, <<Decoded(r), Record("creating user", [username |-> Username[r]])>>)
  /\ Goto(r, "insert")
  /\ UNCHANGED <<statusCode, wroteHeader, wire, rows, ran, line>>

ServiceFailed(b) == Put(Put(b, "service.outcome", "failed"), "service.error", "err")

ServiceCreated(b) ==
  Put(Put(b, "service.outcome", "created"), "service.user_id", "id")

(* pool.QueryRow gets no connection: no query starts and none is traced. *)
NoConnection(r) ==
  /\ at[r] \in {"insert", "count"}
  /\ SetBag(r, ServiceFailed(bag[r]))
  /\ Goto(r, "error")
  /\ UNCHANGED <<statusCode, wroteHeader, wire, rows, ran, log, line>>

(* The tracers have run, and the service has gone on with bag b and logged *)
(* the given records.                                                      *)
QueryEnds(r, q, b, records) ==
  /\ ran' = [ran EXCEPT ![r] = Append(@, q)]
  /\ Log(r, <<QueryRecord(q)>> \o records)
  /\ SetBag(r, b)
  /\ UNCHANGED <<statusCode, wroteHeader, wire, line>>

Traced(r, q) == TraceQueryEnd(bag[r], q)

Query(args, e) == [args |-> args, error |-> e, affected |-> IF e = NoError THEN 1 ELSE 0]

Taken(r) == \E s \in rows : Username[s] = Username[r]

InsertSucceeds(r) ==
  LET q == Query(insertArgs(r), NoError) IN
  /\ at[r] = "insert"
  /\ ~Taken(r)
  /\ rows' = rows \cup {r}
  /\ QueryEnds(r, q, Traced(r, q), <<>>)
  /\ Goto(r, "count")

(* The username is taken, or the connection or the context ends; in the    *)
(* latter case the row may be there all the same.                          *)
InsertFails(r) ==
  /\ at[r] = "insert"
  /\ \/ /\ Taken(r)
        /\ LET q == Query(insertArgs(r), UniqueViolation)
           IN QueryEnds(r, q, ServiceFailed(Traced(r, q)), <<>>)
        /\ UNCHANGED rows
     \/ /\ \E e \in QueryErrors :
             LET q == Query(insertArgs(r), e)
             IN QueryEnds(r, q, ServiceFailed(Traced(r, q)), <<>>)
        /\ UNCHANGED rows \/ (~Taken(r) /\ rows' = rows \cup {r})
  /\ Goto(r, "error")

CountSucceeds(r) ==
  LET q == Query(countArgs(r), NoError) IN
  /\ at[r] = "count"
  /\ QueryEnds(r, q, ServiceCreated(Traced(r, q)),
               <<Record("created user", [username |-> Username[r]])>>)
  /\ Goto(r, "respond")
  /\ UNCHANGED rows

CountFails(r) ==
  /\ at[r] = "count"
  /\ \E e \in QueryErrors :
       LET q == Query(countArgs(r), e)
       IN QueryEnds(r, q, ServiceFailed(Traced(r, q)), <<>>)
  /\ Goto(r, "error")
  /\ UNCHANGED rows

(* writeJSON: the header goes out, then the body may fail to. *)
Respond(r) ==
  /\ at[r] = "respond"
  /\ WriteHeader(r, 201)
  /\ Goto(r, "log") \/ Goto(r, "error")
  /\ UNCHANGED <<bag, rows, ran, log, line>>

(* Mutant: the header is written by the error path only when it is first,  *)
(* and otherwise the request is not logged. *)
WriteErrorReturns(r) ==
  /\ at[r] = "error"
  /\ ~wroteHeader[r]
  /\ WriteHeader(r, 500)
  /\ Goto(r, "log")
  /\ UNCHANGED <<bag, rows, ran, log, line>>

WriteError(r) ==
  /\ at[r] = "error"
  /\ WriteHeader(r, 500)
  /\ Goto(r, "log")
  /\ \E tail \in {<<>>, <<WriteFailed>>} :
       Log(r, <<Record("create user failed", Empty)>> \o tail)
  /\ UNCHANGED <<bag, rows, ran, line>>

Emit(r) ==
  LET b == Put(bag[r], "http.status", statusCode[r]) IN
  /\ at[r] = "log"
  /\ SetBag(r, b)
  /\ line' = [line EXCEPT ![r] = Append(@, Attrs(b))]
  /\ Goto(r, "finished")
  /\ UNCHANGED <<statusCode, wroteHeader, wire, rows, ran, log>>

-----------------------------------------------------------------------------

Handle(r) ==
  \/ NoConnection(r)
  \/ InsertSucceeds(r) \/ InsertFails(r)
  \/ CountSucceeds(r) \/ CountFails(r)
  \/ Respond(r)
  \/ WriteError(r)
  \/ Emit(r)

Receive(r) ==
  \/ NoRoute(r)
  \/ Refuse(r)
  \/ DecodeFails(r)
  \/ CreateUser(r)

LogNext == \E r \in Requests : Receive(r) \/ Handle(r)

(* A handler that has begun goes on: queries and writes end in some way.   *)
LogSpec ==
  /\ LogInit
  /\ [][LogNext]_logVars
  /\ \A r \in Requests : WF_logVars(Handle(r))

-----------------------------------------------------------------------------
(* Properties. *)

Field(b, k, zero) == IF k \in DOMAIN b THEN b[k] ELSE zero

(* The places of a request's postgres/query records.                       *)
QueryRecords(r) == {j \in DOMAIN log[r] : log[r][j].msg = "postgres/query"}

Failures(queries) == {j \in DOMAIN queries : queries[j].error # NoError}

(* The rows that queries affected, each told by its query and its number.  *)
RowsAffected(queries) ==
  UNION {{j} \X (1 .. queries[j].affected) : j \in DOMAIN queries}

(* What a request's canonical line says about queries is what the request  *)
(* did and what its postgres/query records say: their number, their        *)
(* errors, their rows, and each one's outcome in order, a taken username   *)
(* by its code (both TraceQueryEnd, tracer.go).                            *)
LineCountsQueries ==
  \A r \in Requests : \A i \in 1 .. Len(line[r]) :
    LET b == line[r][i]
        listed == Field(b, "db.queries", <<>>)
    IN /\ Field(b, "db.query_count", 0) = Len(ran[r])
       /\ Field(b, "db.error_count", 0) = Cardinality(Failures(ran[r]))
       /\ Field(b, "db.rows_affected", 0) = Cardinality(RowsAffected(ran[r]))
       /\ Len(listed) = Len(ran[r])
       /\ \A j \in 1 .. Len(listed) :
            LET e == Field(listed[j], "error", Empty) IN
            /\ "error" \in DOMAIN listed[j] <=> ran[r][j].error # NoError
            /\ Field(e, "code", "") = UniqueViolation <=> ran[r][j].error = UniqueViolation
       /\ Cardinality(QueryRecords(r)) = Len(listed)
       /\ \A j \in QueryRecords(r) :
            log[r][j].attrs = listed[Cardinality({k \in QueryRecords(r) : k <= j})]

(* A line tells how its request ended.  The status logged is the status    *)
(* sent, and 201 goes with the outcome "created" and with a row, although  *)
(* the response may break off after its header and the error path then run *)
(* (handler.go, middleware.go).  A user that exists although its request   *)
(* was not answered 201 (the count failed, or the INSERT's answer was      *)
(* lost) has left a failed outcome, and a row or a query error.            *)
LineTellsOutcome ==
  \A r \in Requests : \A i \in 1 .. Len(line[r]) :
    LET b == line[r][i]
        outcome == Field(b, "service.outcome", "")
    IN /\ b["http.status"] = wire[r]
       /\ wire[r] = 201 <=> outcome = "created"
       /\ wire[r] = 201 => r \in rows
       /\ r \in rows /\ wire[r] # 201 =>
            /\ outcome = "failed"
            /\ Field(b, "db.rows_affected", 0) + Field(b, "db.error_count", 0) >= 1

(* Whether a group among the attributes has the password for a value.      *)
InClear(attrs) ==
  \E k \in DOMAIN attrs \cap {"args", "error", "request", "service.command"} :
    Password \in Range(attrs[k])

(* Whether some value of a record, at any depth it has, is the password.   *)
ShowsPassword(attrs) ==
  \/ InClear(attrs)
  \/ \E j \in DOMAIN Field(attrs, "db.queries", <<>>) : InClear(attrs["db.queries"][j])

(* No record and no canonical line shows the password, though the command  *)
(* is in the bag, the request in a record, and the arguments and the       *)
(* server's errors, with the key they are about, in both tracers' hands    *)
(* (LogValue, redactNamedArgs, pgErrorWrapper; TestCreateUserLogs...:      *)
(* "logs contain raw password").                                           *)
NoPasswordLogged ==
  \A r \in Requests :
    /\ \A i \in 1 .. Len(line[r]) : ~ShowsPassword(line[r][i])
    /\ \A i \in 1 .. Len(log[r]) : ~ShowsPassword(log[r][i].attrs)

(* Every request that reaches the handler is logged.                       *)
EveryRequestLogged ==
  \A r \in Requests : at[r] # "new" ~> Len(line[r]) = 1
=============================================================================
