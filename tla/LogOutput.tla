----------------------------- MODULE LogOutput -----------------------------
(***************************************************************************)
(* logging/slogctx: the handlers behind every logger of the program.  A    *)
(* MultilineTextHandler writes a record as a block of lines, one write     *)
(* each, and an empty line; a Handler in front of it adds the request id   *)
(* of the context.  Loggers derive handlers with attributes and groups of  *)
(* their own, and goroutines log through any of them to the one writer,    *)
(* any write of which may fail.                                            *)
(***************************************************************************)
EXTENDS Naturals, FiniteSets, SequencesExt

CONSTANTS
  Goroutines,
  Attributes,  \* keys that loggers are derived with
  Groups,      \* names of groups
  MaxHandlers, \* bound: handlers that exist, the first among them
  MaxRecords   \* bound: records each goroutine logs

ASSUME OutputAssumption == MaxHandlers \in Nat \ {0} /\ MaxRecords \in Nat

VARIABLES
  handlers, \* the handlers that exist, in the order of their making
  lineage,  \* history: what the With... calls that led to each have given
  records,  \* what each goroutine has logged, its last record current
  at,       \* where each goroutine's Handle is
  todo,     \* the lines of the current record that are not written yet
  held,     \* the mutexes that are locked, each with its goroutine
  output,   \* what the writer got
  failed    \* history: records a write of which failed

outputVars == <<handlers, lineage, records, at, todo, held, output, failed>>

NoID == ""

NewMultilineTextHandler == [wrapped |-> TRUE, mu |-> 1, attrs |-> <<>>, groups |-> <<>>]

NoCalls == [attrs |-> <<>>, groups |-> <<>>]

OutputInit ==
  /\ handlers = <<NewMultilineTextHandler>>
  /\ lineage = <<NoCalls>>
  /\ records = [g \in Goroutines |-> <<>>]
  /\ at = [g \in Goroutines |-> "idle"]
  /\ todo = [g \in Goroutines |-> <<>>]
  /\ held = {}
  /\ output = <<>>
  /\ failed = {}

-----------------------------------------------------------------------------
(* Deriving handlers: slogctx.Handler wraps what the other derives. *)

(* Mutant: Handler.WithAttrs returns what its next handler derived. *)
Unwrapped(h) == [h EXCEPT !.wrapped = FALSE]

Wrap(h) == [h EXCEPT !.wrapped = TRUE]

(* Mutant: every handler makes a mutex for itself. *)
OwnMutex(h) == 1 + Len(handlers)

Mutex(h) == h.mu

WithAttrs(h, a) == Wrap([h EXCEPT !.attrs = Append(@, a), !.mu = Mutex(h)])
WithGroup(h, n) == Wrap([h EXCEPT !.groups = Append(@, n), !.mu = Mutex(h)])

Derive(h, calls) ==
  /\ Len(handlers) < MaxHandlers
  /\ handlers' = Append(handlers, h)
  /\ lineage' = Append(lineage, calls)
  /\ UNCHANGED <<records, at, todo, held, output, failed>>

With(i) ==
  LET calls == lineage[i]
      attr(a) == [name |-> a, within |-> calls.groups]
  IN
  \/ \E a \in Attributes :
       Derive(WithAttrs(handlers[i], a), [calls EXCEPT !.attrs = Append(@, attr(a))])
  \/ \E n \in Groups :
       Derive(WithGroup(handlers[i], n), [calls EXCEPT !.groups = Append(@, n)])

-----------------------------------------------------------------------------
(* Logging. *)

Goto(g, s) == at' = [at EXCEPT ![g] = s]

Current(g) == <<g, Len(records[g])>>

Line(key, value) == [key |-> key, value |-> value]
Separator == Line(<<>>, "")
Fragment == Line(<<>>, "fragment")

flattenAttrs(groups, attrs) ==
  [i \in DOMAIN attrs |-> Line(Append(groups, attrs[i].key), attrs[i].value)]

Attr(key, value) == [key |-> key, value |-> value]

(* Handler.Handle adds the id the context has, unless it is empty; "msg"   *)
(* stands for the three attributes every record begins with, and "arg" for *)
(* those of the call.                                                      *)
RecordAttrs(h, id) ==
  LET own == [i \in DOMAIN h.attrs |-> Attr(h.attrs[i], h.attrs[i])]
      requestID == IF h.wrapped /\ id # NoID THEN <<Attr("request_id", id)>> ELSE <<>>
  IN <<Attr("msg", "msg")>> \o own \o <<Attr("arg", "arg")>> \o requestID

(* The code takes the lines from the handler under the mutex, one by one;  *)
(* a handler never changes once it is made.                                *)
Log(g, i, id) ==
  /\ at[g] = "idle"
  /\ Len(records[g]) < MaxRecords
  /\ records' = [records EXCEPT ![g] = Append(@, [handler |-> i, id |-> id])]
  /\ todo' = [todo EXCEPT ![g] =
       Append(flattenAttrs(handlers[i].groups, RecordAttrs(handlers[i], id)), Separator)]
  /\ Goto(g, "lock")
  /\ UNCHANGED <<handlers, lineage, held, output, failed>>

CurrentMutex(g) == handlers[Last(records[g]).handler].mu

Lock(g) ==
  /\ at[g] = "lock"
  /\ \A m \in held : m[1] # CurrentMutex(g)
  /\ held' = held \cup {<<CurrentMutex(g), g>>}
  /\ Goto(g, "write")
  /\ UNCHANGED <<handlers, lineage, records, todo, output, failed>>

Put(g, line) == output' = Append(output, [by |-> Current(g), line |-> line])

WriteLine(g) ==
  /\ at[g] = "write"
  /\ Put(g, Head(todo[g]))
  /\ todo' = [todo EXCEPT ![g] = Tail(@)]
  /\ Goto(g, IF Len(todo[g]) = 1 THEN "unlock" ELSE "write")
  /\ UNCHANGED <<handlers, lineage, records, held, failed>>

(* Mutant: the mutex is unlocked at the end and not by a defer. *)
ReturnsLocked(g) == Goto(g, "idle")

ReturnError(g) == Goto(g, "unlock")

(* The error ends the record, with a part of its line written or none; the *)
(* separator does not follow, and the logger drops the error. *)
WriteFails(g) ==
  /\ at[g] = "write"
  /\ Put(g, Fragment) \/ UNCHANGED output
  /\ todo' = [todo EXCEPT ![g] = <<>>]
  /\ failed' = failed \cup {Current(g)}
  /\ ReturnError(g)
  /\ UNCHANGED <<handlers, lineage, records, held>>

Unlock(g) ==
  /\ at[g] = "unlock"
  /\ held' = held \ {<<CurrentMutex(g), g>>}
  /\ Goto(g, "idle")
  /\ UNCHANGED <<handlers, lineage, records, todo, output, failed>>

-----------------------------------------------------------------------------

Handle(g) == Lock(g) \/ WriteLine(g) \/ WriteFails(g) \/ Unlock(g)

OutputNext ==
  \/ \E i \in DOMAIN handlers : With(i)
  \/ \E g \in Goroutines :
       \/ \E i \in DOMAIN handlers : \E id \in {NoID, g} : Log(g, i, id)
       \/ Handle(g)

(* A goroutine that has begun to log goes on. *)
OutputSpec ==
  /\ OutputInit
  /\ [][OutputNext]_outputVars
  /\ \A g \in Goroutines : WF_outputVars(Handle(g))

-----------------------------------------------------------------------------
(* Properties, stated of the output as its reader sees it. *)

Separators == {i \in DOMAIN output : output[i].line = Separator}

(* The places of the block that the separator at i ends. *)
Block(i) == {j \in 1 .. i : \A k \in Separators : k < i => k < j}

Own(i) == {j \in Block(i) : output[j].by = output[i].by}

(* No two records are mixed, though the loggers that write them were       *)
(* derived apart and share just the pointer to a mutex: what a separator   *)
(* ends is one record that was written to its end, and ahead of it nothing *)
(* but the rests of records that failed (MultilineTextHandler.Handle).     *)
RecordsAreWhole ==
  \A i \in Separators :
    /\ output[i].by \notin failed
    /\ \A j \in Block(i) \ Own(i) :
         output[j].by \in failed /\ \A k \in Own(i) : j < k

(* A record that was written to its end shows what its own logger was      *)
(* derived with, in order and once, and no other's, each attribute         *)
(* qualified at least by the groups opened before it; and the request id   *)
(* of its own context when that has one, however its logger was derived    *)
(* (slogctx.Handler, MultilineTextHandler.WithAttrs and WithGroup).        *)
RecordsShowTheirLogger ==
  \A i \in Separators :
    LET r == records[output[i].by[1]][output[i].by[2]]
        given == lineage[r.handler].attrs
        first == i - Cardinality(Own(i)) + 1
        name(k) == Last(output[first + k].line.key)
        idLine == Len(given) + 2
    IN /\ Cardinality(Own(i)) = Len(given) + (IF r.id = NoID THEN 3 ELSE 4)
       /\ name(0) = "msg" /\ name(Len(given) + 1) = "arg"
       /\ \A k \in DOMAIN given :
            /\ name(k) = given[k].name
            /\ IsPrefix(given[k].within, output[first + k].line.key)
       /\ r.id # NoID =>
            name(idLine) = "request_id" /\ output[first + idLine].line.value = r.id

(* Every call of a logger returns, whatever writes fail.                   *)
EveryRecordReturns == \A g \in Goroutines : at[g] # "idle" ~> at[g] = "idle"
=============================================================================
