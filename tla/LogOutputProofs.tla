--------------------------- MODULE LogOutputProofs ---------------------------
(***************************************************************************)
(* That the handlers behind the loggers never mix two records, and that a  *)
(* record shows what its own logger was derived with, for any number of    *)
(* goroutines, handlers and records.                                       *)
(***************************************************************************)
EXTENDS LogOutput, FiniteSetTheorems, SequenceTheorems, TLAPS

Keys == Attributes \cup Groups \cup {"msg", "arg", "request_id"}
Shown == Attributes \cup Goroutines \cup {"msg", "arg", "", "fragment"}
Lines == [key : Seq(Keys), value : Shown]
Entries == [by : Goroutines \X Nat, line : Lines]
Handlers == [wrapped : BOOLEAN, mu : {1}, attrs : Seq(Attributes), groups : Seq(Groups)]
Records == [handler : Nat, id : Goroutines \cup {NoID}]

(* All handlers have the first one's mutex. *)
OutputTypeOK ==
  /\ handlers \in Seq(Handlers)
  /\ records \in [Goroutines -> Seq(Records)]
  /\ at \in [Goroutines -> {"idle", "lock", "write", "unlock"}]
  /\ todo \in [Goroutines -> Seq(Lines)]
  /\ output \in Seq(Entries)
  /\ failed \subseteq Goroutines \X Nat

HasMutex(g) == at[g] \in {"write", "unlock"}

(* The mutex is held by the one goroutine that writes.                     *)
MutexInv ==
  /\ held = {<<1, g>> : g \in {h \in Goroutines : HasMutex(h)}}
  /\ \A g, h \in Goroutines : HasMutex(g) /\ HasMutex(h) => g = h

(* A record that is being handled is its lines and, last, a separator.     *)
Pending(g) ==
  /\ records[g] # <<>> /\ Last(records[g]).handler \in DOMAIN handlers
  /\ at[g] \in {"lock", "write"} =>
       /\ Len(todo[g]) > 0
       /\ \A k \in DOMAIN todo[g] : todo[g][k] = Separator <=> k = Len(todo[g])

Logged == {r \in Goroutines \X Nat : r[2] \in 1 .. Len(records[r[1]])}

(* No separator of it is out before its last line, and nothing before it   *)
(* has the mutex.                                                          *)
Unended(g) ==
  /\ at[g] \in {"lock", "write"} =>
       Current(g) \notin failed /\ \A i \in Separators : output[i].by # Current(g)
  /\ at[g] = "lock" => \A j \in DOMAIN output : output[j].by # Current(g)

GoroutinesInv ==
  /\ \A g \in Goroutines : at[g] # "idle" => Pending(g)
  /\ failed \subseteq Logged /\ \A j \in DOMAIN output : output[j].by \in Logged
  /\ \A g \in Goroutines : Unended(g)

(* The places after the last separator. *)
Open == {j \in DOMAIN output : \A k \in Separators : k < j}

Writes(g, j) == at[g] = "write" /\ output[j].by = Current(g)

(* After the last separator there are rests of records that failed and     *)
(* then the record of the goroutine that writes.                           *)
OpenInv ==
  /\ \A j \in Open : output[j].by \in failed \/ \E g \in Goroutines : Writes(g, j)
  /\ \A g \in Goroutines : at[g] = "write" =>
       \A j, k \in Open : output[j].by = Current(g) /\ output[k].by # Current(g) => k < j

OutputInv == OutputTypeOK /\ MutexInv /\ GoroutinesInv /\ OpenInv /\ RecordsAreWhole

-----------------------------------------------------------------------------
(* Lines. *)

LEMMA LineFacts ==
  /\ \A k, v : Line(k, v).key = k /\ Line(k, v).value = v
  /\ \A k \in Seq(Keys), v \in Shown : Line(k, v) \in Lines
BY DEF Line, Lines

LEMMA SeparatorFacts ==
  /\ Separator \in Lines /\ Separator.key = <<>>
  /\ Fragment \in Lines /\ Fragment # Separator
<1>1. <<>> \in Seq(Keys) /\ "" \in Shown /\ "fragment" \in Shown
  BY DEF Shown
<1>2. Separator.key = <<>> /\ Separator.value = "" /\ Fragment.value = "fragment"
  BY LineFacts DEF Separator, Fragment
<1> QED
  BY <1>1, <1>2, LineFacts DEF Separator, Fragment

AttrsShown == [key : Attributes \cup {"msg", "arg", "request_id"}, value : Shown]

LEMMA AttrFacts ==
  /\ \A a \in Attributes : Attr(a, a) \in AttrsShown
  /\ Attr("msg", "msg") \in AttrsShown /\ Attr("arg", "arg") \in AttrsShown
  /\ \A id \in Goroutines : Attr("request_id", id) \in AttrsShown
BY DEF Attr, AttrsShown, Shown

LEMMA RecordAttrsFacts ==
  ASSUME NEW h \in Handlers, NEW id \in Goroutines \cup {NoID}
  PROVE  RecordAttrs(h, id) \in Seq(AttrsShown)
<1> DEFINE own == [i \in DOMAIN h.attrs |-> Attr(h.attrs[i], h.attrs[i])]
           requestID == IF h.wrapped /\ id # NoID THEN <<Attr("request_id", id)>> ELSE <<>>
           first == <<Attr("msg", "msg")>>
           arg == <<Attr("arg", "arg")>>
<1>1. h.attrs \in Seq(Attributes)
  BY DEF Handlers
<1>2. own \in Seq(AttrsShown)
  <2>1. DOMAIN h.attrs = 1 .. Len(h.attrs) /\ Len(h.attrs) \in Nat
    BY <1>1
  <2>2. \A i \in 1 .. Len(h.attrs) : Attr(h.attrs[i], h.attrs[i]) \in AttrsShown
    BY <1>1, AttrFacts
  <2> QED
    BY <2>1, <2>2, IsASeq
<1>3. first \in Seq(AttrsShown) /\ arg \in Seq(AttrsShown)
  BY AttrFacts
<1>4. requestID \in Seq(AttrsShown)
  <2>1. CASE h.wrapped /\ id # NoID
    <3>1. Attr("request_id", id) \in AttrsShown
      BY <2>1, AttrFacts
    <3> QED
      BY <2>1, <3>1
  <2>2. CASE ~(h.wrapped /\ id # NoID)
    BY <2>2
  <2> QED
    BY <2>1, <2>2
<1>5. RecordAttrs(h, id) = first \o own \o arg \o requestID
  BY DEF RecordAttrs
<1> HIDE DEF own, requestID, first, arg
<1> QED
  BY <1>2, <1>3, <1>4, <1>5, ConcatProperties

LEMMA FlatLines ==
  ASSUME NEW groups \in Seq(Groups), NEW attrs \in Seq(AttrsShown)
  PROVE  /\ flattenAttrs(groups, attrs) \in Seq(Lines)
         /\ \A i \in DOMAIN flattenAttrs(groups, attrs) :
              flattenAttrs(groups, attrs)[i] # Separator
<1> DEFINE line(i) == Line(Append(groups, attrs[i].key), attrs[i].value)
<1>1. DOMAIN attrs = 1 .. Len(attrs) /\ Len(attrs) \in Nat
  OBVIOUS
<1>2. ASSUME NEW i \in 1 .. Len(attrs)
      PROVE  line(i) \in Lines /\ line(i) # Separator
  <2>1. attrs[i] \in AttrsShown
    BY <1>2
  <2>2. attrs[i].key \in Keys /\ attrs[i].value \in Shown
    BY <2>1 DEF AttrsShown, Keys
  <2>3. groups \in Seq(Keys)
    BY SeqMonotonic DEF Keys
  <2>4. Append(groups, attrs[i].key) \in Seq(Keys) /\ Append(groups, attrs[i].key) # <<>>
    BY <2>2, <2>3, AppendProperties
  <2> QED
    BY <2>2, <2>4, LineFacts, SeparatorFacts
<1>3. flattenAttrs(groups, attrs) = [i \in 1 .. Len(attrs) |-> line(i)]
  BY <1>1 DEF flattenAttrs
<1> HIDE DEF line
<1> QED
  BY <1>1, <1>2, <1>3, IsASeq

LEMMA RecordLines ==
  ASSUME NEW h \in Handlers, NEW id \in Goroutines \cup {NoID}, NEW s,
         s = Append(flattenAttrs(h.groups, RecordAttrs(h, id)), Separator)
  PROVE  /\ s \in Seq(Lines) /\ Len(s) > 0
         /\ \A k \in DOMAIN s : s[k] = Separator <=> k = Len(s)
<1> DEFINE t == flattenAttrs(h.groups, RecordAttrs(h, id))
<1>1. h.groups \in Seq(Groups)
  BY DEF Handlers
<1>2. t \in Seq(Lines) /\ \A i \in DOMAIN t : t[i] # Separator
  BY <1>1, RecordAttrsFacts, FlatLines
<1> HIDE DEF t
<1>3. s = Append(t, Separator)
  BY DEF t
<1> QED
  BY <1>2, <1>3, SeparatorFacts, AppendProperties

-----------------------------------------------------------------------------
(* The output only grows. *)

Whole(i) ==
  /\ output[i].by \notin failed
  /\ \A j \in Block(i) \ Own(i) : output[j].by \in failed /\ \A k \in Own(i) : j < k

LEMMA RecordsAreWholeAt == RecordsAreWhole <=> \A i \in Separators : Whole(i)
BY DEF RecordsAreWhole, Whole

Grows ==
  /\ Separators \subseteq Separators' /\ DOMAIN output \subseteq DOMAIN output'
  /\ DOMAIN output \subseteq Nat
  /\ \A j \in DOMAIN output : 1 .. j \subseteq DOMAIN output
  /\ \A j \in DOMAIN output : output'[j] = output[j]
  /\ \A j \in DOMAIN output, i \in Separators' : i < j => i \in Separators
  /\ Separators \subseteq DOMAIN output

LEMMA OutputAppends ==
  ASSUME OutputTypeOK, NEW e \in Entries, output' = Append(output, e), NEW n, n = Len(output) + 1
  PROVE  /\ output' \in Seq(Entries) /\ n \in Nat
         /\ DOMAIN output = 1 .. n - 1 /\ DOMAIN output' = 1 .. n
         /\ output'[n] = e /\ \A j \in DOMAIN output : output'[j] = output[j]
         /\ Separators' = Separators \cup (IF e.line = Separator THEN {n} ELSE {})
         /\ Grows
<1>1. output \in Seq(Entries)
  BY DEF OutputTypeOK
<1>2. /\ output' \in Seq(Entries) /\ Len(output') = n /\ n \in Nat /\ Len(output) = n - 1
      /\ output'[n] = e /\ \A j \in 1 .. n - 1 : output'[j] = output[j]
  BY <1>1, AppendProperties
<1>3. DOMAIN output = 1 .. n - 1 /\ DOMAIN output' = 1 .. n
  BY <1>1, <1>2, LenProperties
<1>4. Separators' = Separators \cup (IF e.line = Separator THEN {n} ELSE {})
  BY <1>2, <1>3 DEF Separators
<1>5. Grows
  <2>1. Separators \subseteq DOMAIN output
    BY DEF Separators
  <2> QED
    BY <1>2, <1>3, <1>4, <2>1 DEF Grows
<1> QED
  BY <1>2, <1>3, <1>4, <1>5

LEMMA OutputStays ==
  ASSUME OutputTypeOK, output' = output
  PROVE  Grows /\ Separators' = Separators /\ Open' = Open
<1>1. Separators' = Separators /\ Separators \subseteq DOMAIN output
  BY DEF Separators
<1>2. DOMAIN output = 1 .. Len(output) /\ Len(output) \in Nat
  BY DEF OutputTypeOK
<1> QED
  BY <1>1, <1>2 DEF Grows, Open

(* A block does not change any more.                                       *)
LEMMA WholeStays ==
  ASSUME Grows, NEW i \in Separators, Whole(i), failed \subseteq failed',
         output[i].by \notin failed'
  PROVE  Whole(i)'
<1>1. i \in DOMAIN output /\ i \in Nat /\ output'[i] = output[i]
  BY DEF Grows
<1>2. \A k : k \in Separators' /\ k < i <=> k \in Separators /\ k < i
  BY <1>1 DEF Grows
<1>3. Block(i)' = Block(i)
  BY <1>2 DEF Block
<1>4. \A j \in Block(i) : output'[j] = output[j]
  BY <1>1 DEF Grows, Block
<1>5. Own(i)' = Own(i)
  BY <1>1, <1>3, <1>4 DEF Own
<1> QED
  BY <1>1, <1>3, <1>4, <1>5 DEF Whole

-----------------------------------------------------------------------------
(* What each step keeps. *)

LEMMA CurrentFacts ==
  ASSUME OutputTypeOK, NEW g \in Goroutines
  PROVE  /\ Current(g) \in Goroutines \X Nat /\ Current(g)[1] = g
         /\ records[g] # <<>> => Current(g) \in Logged /\ Last(records[g]) \in Records
<1>1. records[g] \in Seq(Records) /\ Len(records[g]) \in Nat
  BY DEF OutputTypeOK
<1>2. Current(g) = <<g, Len(records[g])>>
  BY DEF Current
<1>3. ASSUME records[g] # <<>> PROVE Len(records[g]) \in 1 .. Len(records[g])
  BY <1>1, <1>3, EmptySeq
<1> QED
  BY <1>1, <1>2, <1>3 DEF Logged, Last

LEMMA OneMutex ==
  ASSUME OutputTypeOK, NEW g \in Goroutines, Pending(g)
  PROVE  CurrentMutex(g) = 1
<1>1. handlers[Last(records[g]).handler] \in Handlers
  BY DEF Pending, OutputTypeOK
<1> QED
  BY <1>1 DEF CurrentMutex, Handlers

LEMMA DerivedFacts ==
  ASSUME NEW h \in Handlers
  PROVE  /\ \A a \in Attributes : WithAttrs(h, a) \in Handlers
         /\ \A n \in Groups : WithGroup(h, n) \in Handlers
<1>1. h.attrs \in Seq(Attributes) /\ h.groups \in Seq(Groups) /\ h.mu = 1
  BY DEF Handlers
<1>2. ASSUME NEW a \in Attributes PROVE WithAttrs(h, a) \in Handlers
  <2>1. Append(h.attrs, a) \in Seq(Attributes)
    BY <1>1
  <2> QED
    BY <1>1, <2>1 DEF WithAttrs, Wrap, Mutex, Handlers
<1>3. ASSUME NEW n \in Groups PROVE WithGroup(h, n) \in Handlers
  <2>1. Append(h.groups, n) \in Seq(Groups)
    BY <1>1
  <2> QED
    BY <1>1, <2>1 DEF WithGroup, Wrap, Mutex, Handlers
<1> QED
  BY <1>2, <1>3

LEMMA WithKeeps ==
  ASSUME OutputInv, NEW i \in DOMAIN handlers, With(i)
  PROVE  OutputInv'
<1>1. OutputTypeOK /\ handlers[i] \in Handlers
  BY DEF OutputInv, OutputTypeOK
<1>2. PICK h \in Handlers : handlers' = Append(handlers, h)
  BY <1>1, DerivedFacts DEF With, Derive
<1>3. /\ records' = records /\ at' = at /\ todo' = todo /\ held' = held
      /\ output' = output /\ failed' = failed
  BY DEF With, Derive
<1>4. OutputTypeOK' /\ DOMAIN handlers \subseteq DOMAIN handlers'
  BY <1>1, <1>2, <1>3 DEF OutputTypeOK
<1>5. MutexInv'
  BY <1>3 DEF OutputInv, MutexInv, HasMutex
<1>6. \A g \in Goroutines : Current(g)' = Current(g)
  BY <1>3 DEF Current
<1>7. Separators' = Separators /\ Open' = Open /\ Logged' = Logged
  BY <1>1, <1>3, OutputStays DEF Logged
<1>8. GoroutinesInv'
  <2>1. ASSUME NEW g \in Goroutines, at[g] # "idle" PROVE Pending(g)'
    BY <1>3, <1>4, <2>1 DEF OutputInv, GoroutinesInv, Pending
  <2>2. ASSUME NEW g \in Goroutines PROVE Unended(g)'
    BY <1>3, <1>6, <1>7 DEF OutputInv, GoroutinesInv, Unended
  <2> QED
    BY <1>3, <1>7, <2>1, <2>2 DEF OutputInv, GoroutinesInv
<1>9. OpenInv'
  BY <1>3, <1>6, <1>7 DEF OutputInv, OpenInv, Writes
<1>10. RecordsAreWhole'
  BY <1>3 DEF OutputInv, RecordsAreWhole, Separators, Block, Own
<1> QED
  BY <1>4, <1>5, <1>8, <1>9, <1>10 DEF OutputInv

LEMMA LogKeeps ==
  ASSUME OutputInv, NEW g \in Goroutines, NEW i \in DOMAIN handlers,
         NEW id \in {NoID, g}, Log(g, i, id)
  PROVE  OutputInv'
<1> DEFINE s == Append(flattenAttrs(handlers[i].groups, RecordAttrs(handlers[i], id)), Separator)
           new == [handler |-> i, id |-> id]
<1>1. OutputTypeOK /\ handlers[i] \in Handlers /\ i \in Nat
  BY DEF OutputInv, OutputTypeOK
<1>2. /\ s \in Seq(Lines) /\ Len(s) > 0
      /\ \A k \in DOMAIN s : s[k] = Separator <=> k = Len(s)
  BY <1>1, RecordLines
<1>3. new \in Records /\ new.handler = i
  BY <1>1 DEF Records
<1>4. /\ at[g] = "idle" /\ at' = [at EXCEPT ![g] = "lock"]
      /\ records' = [records EXCEPT ![g] = Append(@, new)]
      /\ todo' = [todo EXCEPT ![g] = s] /\ handlers' = handlers
      /\ held' = held /\ output' = output /\ failed' = failed
  BY DEF Log, Goto
<1> HIDE DEF s, new
<1>5. OutputTypeOK'
  BY <1>1, <1>2, <1>3, <1>4 DEF OutputTypeOK
<1>6. /\ at'[g] = "lock" /\ todo'[g] = s /\ records'[g] = Append(records[g], new)
      /\ records[g] \in Seq(Records)
      /\ \A h \in Goroutines \ {g} :
           at'[h] = at[h] /\ todo'[h] = todo[h] /\ records'[h] = records[h]
  BY <1>1, <1>4 DEF OutputTypeOK
<1>7. /\ Len(records'[g]) = Len(records[g]) + 1 /\ Len(records[g]) \in Nat
      /\ records'[g] # <<>> /\ Last(records'[g]) = new
  BY <1>3, <1>6, AppendProperties DEF Last
<1>8. MutexInv'
  <2>1. \A h \in Goroutines : HasMutex(h)' <=> HasMutex(h)
    BY <1>4, <1>6 DEF HasMutex
  <2> QED
    BY <1>4, <2>1 DEF OutputInv, MutexInv
<1>9. Separators' = Separators /\ Open' = Open
  BY <1>1, <1>4, OutputStays
<1>10. Logged \subseteq Logged'
  BY <1>6, <1>7 DEF Logged
<1>11. \A h \in Goroutines \ {g} : Current(h)' = Current(h)
  BY <1>6 DEF Current
<1>12. Current(g)' \notin Logged
  BY <1>7 DEF Current, Logged
<1>13. GoroutinesInv'
  <2>1. Pending(g)'
    BY <1>2, <1>3, <1>4, <1>6, <1>7 DEF Pending
  <2>2. ASSUME NEW h \in Goroutines \ {g}, at[h] # "idle" PROVE Pending(h)'
    BY <1>4, <1>6, <2>2 DEF OutputInv, GoroutinesInv, Pending
  <2>3. ASSUME NEW h \in Goroutines \ {g} PROVE Unended(h)'
    BY <1>4, <1>6, <1>9, <1>11 DEF OutputInv, GoroutinesInv, Unended
  <2>4. Unended(g)'
    <3>1. failed \subseteq Logged /\ \A j \in DOMAIN output : output[j].by \in Logged
      BY DEF OutputInv, GoroutinesInv
    <3>2. Separators \subseteq DOMAIN output
      BY DEF Separators
    <3> QED
      BY <1>4, <1>9, <1>12, <3>1, <3>2 DEF Unended
  <2> QED
    BY <1>4, <1>6, <1>10, <2>1, <2>2, <2>3, <2>4 DEF OutputInv, GoroutinesInv
<1>14. OpenInv'
  <2>1. \A h \in Goroutines : at'[h] = "write" <=> at[h] = "write" /\ h # g
    BY <1>4, <1>6
  <2>2. \A h \in Goroutines : \A j : Writes(h, j) => Writes(h, j)'
    BY <1>4, <1>11, <2>1 DEF Writes
  <2> QED
    BY <1>4, <1>9, <1>11, <2>1, <2>2 DEF OutputInv, OpenInv
<1>15. RecordsAreWhole'
  BY <1>4 DEF OutputInv, RecordsAreWhole, Separators, Block, Own
<1> QED
  BY <1>5, <1>8, <1>13, <1>14, <1>15 DEF OutputInv

LEMMA LockKeeps ==
  ASSUME OutputInv, NEW g \in Goroutines, Lock(g)
  PROVE  OutputInv'
<1>1. OutputTypeOK
  BY DEF OutputInv
<1>2. /\ at[g] = "lock" /\ at' = [at EXCEPT ![g] = "write"]
      /\ \A m \in held : m[1] # CurrentMutex(g)
      /\ held' = held \cup {<<CurrentMutex(g), g>>} /\ handlers' = handlers
      /\ records' = records /\ todo' = todo /\ output' = output /\ failed' = failed
  BY DEF Lock, Goto
<1>3. Pending(g) /\ CurrentMutex(g) = 1
  BY <1>1, <1>2, OneMutex DEF OutputInv, GoroutinesInv
<1>4. OutputTypeOK'
  BY <1>1, <1>2 DEF OutputTypeOK
<1>5. at'[g] = "write" /\ \A h \in Goroutines \ {g} : at'[h] = at[h]
  BY <1>1, <1>2 DEF OutputTypeOK
<1>6. ASSUME NEW h \in Goroutines PROVE ~HasMutex(h)
  <2>1. SUFFICES ASSUME HasMutex(h) PROVE FALSE
    OBVIOUS
  <2>2. <<1, h>> \in held
    BY <2>1 DEF OutputInv, MutexInv
  <2> QED
    BY <1>2, <1>3, <2>2
<1>7. MutexInv'
  <2>1. \A h \in Goroutines : HasMutex(h)' <=> h = g
    BY <1>5, <1>6 DEF HasMutex
  <2>2. held = {}
    BY <1>6 DEF OutputInv, MutexInv
  <2> QED
    BY <1>2, <1>3, <2>1, <2>2 DEF MutexInv
<1>8. Separators' = Separators /\ Open' = Open /\ Logged' = Logged
  BY <1>1, <1>2, OutputStays DEF Logged
<1>9. \A h \in Goroutines : Current(h)' = Current(h)
  BY <1>2 DEF Current
<1>10. GoroutinesInv'
  <2>1. ASSUME NEW h \in Goroutines, at'[h] # "idle" PROVE Pending(h)'
    BY <1>2, <1>5, <2>1 DEF OutputInv, GoroutinesInv, Pending
  <2>2. ASSUME NEW h \in Goroutines PROVE Unended(h)'
    BY <1>2, <1>5, <1>8, <1>9 DEF OutputInv, GoroutinesInv, Unended
  <2> QED
    BY <1>2, <1>8, <2>1, <2>2 DEF OutputInv, GoroutinesInv
<1>11. OpenInv'
  <2>1. \A h \in Goroutines : at[h] # "write" /\ (at'[h] = "write" => h = g)
    BY <1>5, <1>6 DEF HasMutex
  <2>2. \A j \in Open : output[j].by \in failed
    BY <2>1 DEF OutputInv, OpenInv, Writes
  <2>3. \A j \in Open : output[j].by # Current(g)
    BY <1>2 DEF OutputInv, GoroutinesInv, Unended, Open
  <2> QED
    BY <1>2, <1>8, <1>9, <2>1, <2>2, <2>3 DEF OpenInv
<1>12. RecordsAreWhole'
  BY <1>2 DEF OutputInv, RecordsAreWhole, Separators, Block, Own
<1> QED
  BY <1>4, <1>7, <1>10, <1>11, <1>12 DEF OutputInv

LEMMA UnlockKeeps ==
  ASSUME OutputInv, NEW g \in Goroutines, Unlock(g)
  PROVE  OutputInv'
<1>1. OutputTypeOK
  BY DEF OutputInv
<1>2. /\ at[g] = "unlock" /\ at' = [at EXCEPT ![g] = "idle"]
      /\ held' = held \ {<<CurrentMutex(g), g>>} /\ handlers' = handlers
      /\ records' = records /\ todo' = todo /\ output' = output /\ failed' = failed
  BY DEF Unlock, Goto
<1>3. Pending(g) /\ CurrentMutex(g) = 1
  BY <1>1, <1>2, OneMutex DEF OutputInv, GoroutinesInv
<1>4. OutputTypeOK'
  BY <1>1, <1>2 DEF OutputTypeOK
<1>5. at'[g] = "idle" /\ \A h \in Goroutines \ {g} : at'[h] = at[h]
  BY <1>1, <1>2 DEF OutputTypeOK
<1>6. MutexInv'
  <2>1. \A h \in Goroutines : HasMutex(h) <=> h = g
    BY <1>2 DEF OutputInv, MutexInv, HasMutex
  <2>2. \A h \in Goroutines : ~HasMutex(h)'
    BY <1>5, <2>1 DEF HasMutex
  <2>3. held = {<<1, g>>}
    BY <2>1 DEF OutputInv, MutexInv
  <2> QED
    BY <1>2, <1>3, <2>2, <2>3 DEF MutexInv
<1>7. Separators' = Separators /\ Open' = Open /\ Logged' = Logged
  BY <1>1, <1>2, OutputStays DEF Logged
<1>8. \A h \in Goroutines : Current(h)' = Current(h)
  BY <1>2 DEF Current
<1>9. GoroutinesInv'
  <2>1. ASSUME NEW h \in Goroutines, at'[h] # "idle" PROVE Pending(h)'
    BY <1>2, <1>5, <2>1 DEF OutputInv, GoroutinesInv, Pending
  <2>2. ASSUME NEW h \in Goroutines PROVE Unended(h)'
    BY <1>2, <1>5, <1>7, <1>8 DEF OutputInv, GoroutinesInv, Unended
  <2> QED
    BY <1>2, <1>7, <2>1, <2>2 DEF OutputInv, GoroutinesInv
<1>10. OpenInv'
  <2>1. \A h \in Goroutines : at'[h] = "write" <=> at[h] = "write"
    BY <1>2, <1>5
  <2>2. \A h \in Goroutines : \A j : Writes(h, j)' <=> Writes(h, j)
    BY <1>2, <1>8, <2>1 DEF Writes
  <2> QED
    BY <1>2, <1>7, <1>8, <2>1, <2>2 DEF OutputInv, OpenInv
<1>11. RecordsAreWhole'
  BY <1>2 DEF OutputInv, RecordsAreWhole, Separators, Block, Own
<1> QED
  BY <1>4, <1>6, <1>9, <1>10, <1>11 DEF OutputInv

-----------------------------------------------------------------------------
(* Writing: what the goroutine with the mutex does to the output. *)

OneWrites(g) ==
  /\ at[g] = "write" /\ at' = [at EXCEPT ![g] = at'[g]] /\ at'[g] \in {"write", "unlock"}
  /\ todo' = [todo EXCEPT ![g] = todo'[g]] /\ todo'[g] \in Seq(Lines)
  /\ handlers' = handlers /\ records' = records /\ held' = held
  /\ at'[g] = "write" =>
       /\ Len(todo'[g]) > 0
       /\ \A k \in DOMAIN todo'[g] : todo'[g][k] = Separator <=> k = Len(todo'[g])

LEMMA WritingFacts ==
  ASSUME OutputInv, NEW g \in Goroutines, OneWrites(g)
  PROVE  /\ \A h \in Goroutines \ {g} : at[h] \notin {"write", "unlock"}
         /\ \A h \in Goroutines \ {g} : at'[h] = at[h] /\ todo'[h] = todo[h]
         /\ \A h \in Goroutines : Current(h)' = Current(h)
         /\ \A h \in Goroutines \ {g} : Current(h) # Current(g)
         /\ Current(g) \in Logged /\ Current(g) \notin failed
         /\ Logged' = Logged /\ MutexInv'
         /\ \A h \in Goroutines : at'[h] # "idle" => Pending(h)'
<1>1. OutputTypeOK /\ Pending(g)
  BY DEF OutputInv, GoroutinesInv, OneWrites
<1>2. \A h \in Goroutines \ {g} : at[h] \notin {"write", "unlock"}
  BY DEF OutputInv, MutexInv, HasMutex, OneWrites
<1>3. \A h \in Goroutines \ {g} : at'[h] = at[h] /\ todo'[h] = todo[h]
  BY <1>1 DEF OutputTypeOK, OneWrites
<1>4. \A h \in Goroutines : Current(h)' = Current(h)
  BY DEF Current, OneWrites
<1>5. \A h \in Goroutines \ {g} : Current(h) # Current(g)
  BY <1>1, CurrentFacts
<1>6. Current(g) \in Logged /\ Current(g) \notin failed
  BY <1>1, CurrentFacts DEF Pending, OutputInv, GoroutinesInv, Unended, OneWrites
<1>7. Logged' = Logged
  BY DEF Logged, OneWrites
<1>8. MutexInv'
  <2>1. \A h \in Goroutines : HasMutex(h)' <=> HasMutex(h)
    BY <1>3 DEF HasMutex, OneWrites
  <2> QED
    BY <2>1 DEF OutputInv, MutexInv, OneWrites
<1>9. ASSUME NEW h \in Goroutines, at'[h] # "idle" PROVE Pending(h)'
  <2>1. CASE h = g
    BY <1>1, <2>1 DEF Pending, OneWrites
  <2>2. CASE h # g
    BY <1>3, <1>9, <2>2 DEF OutputInv, GoroutinesInv, Pending, OneWrites
  <2> QED
    BY <2>1, <2>2
<1> QED
  BY <1>2, <1>3, <1>4, <1>5, <1>6, <1>7, <1>8, <1>9

(* What is open is of records that failed, and then of the one written.    *)
LEMMA OpenOfWriter ==
  ASSUME OutputInv, NEW g \in Goroutines, OneWrites(g)
  PROVE  /\ \A j \in Open : output[j].by \in failed \cup {Current(g)}
         /\ \A j, k \in Open : output[j].by = Current(g) /\ output[k].by # Current(g) => k < j
<1>1. at[g] = "write" /\ \A h \in Goroutines \ {g} : at[h] # "write"
  BY WritingFacts DEF OneWrites
<1> QED
  BY <1>1 DEF OutputInv, OpenInv, Writes

(* What Unended says of the others holds still when one more line of g is  *)
(* out.                                                                    *)
LEMMA OthersUnended ==
  ASSUME OutputInv, NEW g \in Goroutines, OneWrites(g), Grows,
         \A j \in DOMAIN output' \ DOMAIN output : output'[j].by = Current(g),
         failed' \subseteq failed \cup {Current(g)}, NEW h \in Goroutines \ {g}
  PROVE  Unended(h)'
<1>1. Unended(h)
  BY DEF OutputInv, GoroutinesInv
<1>2. \A j \in DOMAIN output' : output'[j].by \in {Current(g)} \cup {output[k].by : k \in DOMAIN output}
  BY DEF Grows
<1>3. /\ at'[h] = at[h] /\ at[h] # "write"
      /\ Current(h)' = Current(h) /\ Current(h) # Current(g)
  BY WritingFacts
<1>4. Separators' \subseteq DOMAIN output'
  BY DEF Separators
<1>5. at[h] = "lock" => \A j \in DOMAIN output' : output'[j].by # Current(h)
  BY <1>1, <1>2, <1>3 DEF Unended
<1> QED
  BY <1>1, <1>3, <1>4, <1>5 DEF Unended

(* One line more is open, unless it is a separator: that ends the block.   *)
LEMMA OpenAppends ==
  ASSUME OutputTypeOK, NEW e \in Entries, output' = Append(output, e), NEW n, n = Len(output) + 1
  PROVE  /\ e.line # Separator => Open' = Open \cup {n} /\ Separators' = Separators
         /\ e.line = Separator =>
              Open' = {} /\ Block(n)' = Open \cup {n} /\ Separators' = Separators \cup {n}
<1>1. /\ n \in Nat /\ DOMAIN output = 1 .. n - 1 /\ DOMAIN output' = 1 .. n
      /\ Separators' = Separators \cup (IF e.line = Separator THEN {n} ELSE {})
  BY OutputAppends
<1>2. Separators \subseteq 1 .. n - 1
  BY <1>1 DEF Separators
<1>3. ASSUME e.line # Separator PROVE Open' = Open \cup {n}
  <2>1. Separators' = Separators
    BY <1>1, <1>3
  <2>2. n \in DOMAIN output' /\ \A k \in Separators' : k < n
    BY <1>1, <1>2, <2>1
  <2>3. DOMAIN output' = DOMAIN output \cup {n}
    BY <1>1
  <2> QED
    BY <2>1, <2>2, <2>3 DEF Open
<1>4. ASSUME e.line = Separator PROVE Open' = {} /\ Block(n)' = Open \cup {n}
  <2>1. Separators' = Separators \cup {n}
    BY <1>1, <1>4
  <2> QED
    BY <1>1, <1>2, <2>1 DEF Block, Open
<1> QED
  BY <1>1, <1>3, <1>4

LEMMA LineKeeps ==
  ASSUME OutputInv, NEW g \in Goroutines, OneWrites(g),
         NEW e \in Entries, e.by = Current(g), output' = Append(output, e),
         failed' = failed, at'[g] = "write" <=> e.line # Separator,
         NEW n, n = Len(output) + 1
  PROVE  OutputInv'
<1>1. OutputTypeOK
  BY DEF OutputInv
<1>2. /\ output' \in Seq(Entries) /\ n \in Nat
      /\ DOMAIN output = 1 .. n - 1 /\ DOMAIN output' = 1 .. n
      /\ output'[n] = e /\ \A j \in DOMAIN output : output'[j] = output[j]
      /\ Separators' = Separators \cup (IF e.line = Separator THEN {n} ELSE {})
      /\ Grows
  BY <1>1, OutputAppends
<1>3. OutputTypeOK'
  BY <1>1, <1>2 DEF OutputTypeOK, OneWrites
<1>4. Separators \subseteq 1 .. n - 1
  BY <1>2 DEF Separators
<1>5. GoroutinesInv'
  <2>1. \A j \in DOMAIN output' : output'[j].by \in Logged'
    BY <1>2, WritingFacts DEF OutputInv, GoroutinesInv
  <2>2. ASSUME NEW h \in Goroutines \ {g} PROVE Unended(h)'
    BY <1>2, OthersUnended
  <2>3. Unended(g)'
    <3>1. at'[g] \in {"write", "unlock"} /\ Current(g)' = Current(g) /\ Unended(g) /\ at[g] = "write"
      BY WritingFacts DEF OneWrites, OutputInv, GoroutinesInv
    <3>2. at'[g] = "write" => Separators' = Separators
      BY <1>2
    <3> QED
      BY <1>2, <1>4, <3>1, <3>2 DEF Unended
  <2> QED
    BY <2>1, <2>2, <2>3, WritingFacts DEF OutputInv, GoroutinesInv
<1>6. e.line # Separator => Open' = Open \cup {n}
  BY <1>1, OpenAppends
<1>7. e.line = Separator => Open' = {}
  BY <1>1, OpenAppends
<1>8. OpenInv'
  <2>1. CASE e.line = Separator
    <3>1. \A h \in Goroutines : at'[h] # "write"
      BY <2>1, WritingFacts
    <3> QED
      BY <1>7, <2>1, <3>1 DEF OpenInv
  <2>2. CASE e.line # Separator
    <3>1. /\ at'[g] = "write" /\ Current(g)' = Current(g)
          /\ \A h \in Goroutines \ {g} : at'[h] # "write"
      BY <2>2, WritingFacts
    <3>2. \A j \in Open : j \in 1 .. n - 1 /\ output'[j] = output[j]
      BY <1>2 DEF Open
    <3>3. \A j \in Open' : output'[j].by \in failed' \/ Writes(g, j)'
      BY <1>2, <1>6, <2>2, <3>1, <3>2, OpenOfWriter DEF Writes
    <3>4. \A j, k \in Open' :
            output'[j].by = Current(g)' /\ output'[k].by # Current(g)' => k < j
      BY <1>2, <1>6, <2>2, <3>1, <3>2, OpenOfWriter
    <3> QED
      BY <3>1, <3>3, <3>4 DEF OpenInv
  <2> QED
    BY <2>1, <2>2
<1>9. ASSUME NEW i \in Separators' PROVE Whole(i)'
  <2>1. CASE i \in Separators
    BY <1>2, <2>1, WholeStays, RecordsAreWholeAt DEF OutputInv, Whole
  <2>2. CASE i \notin Separators
    <3>1. i = n /\ e.line = Separator /\ Separators' = Separators \cup {n}
      BY <1>2, <2>2
    <3>2. Block(n)' = Open \cup {n}
      BY <1>1, <3>1, OpenAppends
    <3>3. \A j \in Open : j \in 1 .. n - 1 /\ output'[j] = output[j]
      BY <1>2 DEF Open
    <3>4. Own(n)' = {j \in Open : output[j].by = Current(g)} \cup {n}
      BY <1>2, <3>2, <3>3 DEF Own
    <3>5. output'[n].by \notin failed'
      BY <1>2, WritingFacts
    <3>6. ASSUME NEW j \in Block(n)' \ Own(n)'
          PROVE  output'[j].by \in failed' /\ \A k \in Own(n)' : j < k
      <4>1. j \in Open /\ output[j].by # Current(g)
        BY <3>2, <3>4
      <4> QED
        BY <1>2, <3>3, <3>4, <4>1, OpenOfWriter
    <3> QED
      BY <3>1, <3>5, <3>6 DEF Whole
  <2> QED
    BY <2>1, <2>2
<1>10. RecordsAreWhole'
  BY <1>9 DEF RecordsAreWhole, Whole
<1> QED
  BY <1>3, <1>5, <1>8, <1>10, WritingFacts DEF OutputInv

(* One line fewer is left, and the separator is the last of them.          *)
LEMMA LinesLeft ==
  ASSUME NEW t \in Seq(Lines), Len(t) > 0,
         \A k \in DOMAIN t : t[k] = Separator <=> k = Len(t)
  PROVE  /\ Head(t) \in Lines /\ Tail(t) \in Seq(Lines)
         /\ Head(t) = Separator <=> Len(t) = 1
         /\ Len(t) # 1 =>
              /\ Len(Tail(t)) > 0
              /\ \A k \in DOMAIN Tail(t) : Tail(t)[k] = Separator <=> k = Len(Tail(t))
<1>1. /\ Head(t) \in Lines /\ Head(t) = t[1]
      /\ Tail(t) \in Seq(Lines) /\ Len(Tail(t)) = Len(t) - 1
      /\ \A i \in 1 .. Len(t) - 1 : Tail(t)[i] = t[i + 1]
  BY HeadTailProperties, EmptySeq
<1>2. /\ Len(t) \in Nat /\ DOMAIN t = 1 .. Len(t) /\ 1 \in DOMAIN t
      /\ DOMAIN Tail(t) = 1 .. Len(t) - 1
  BY <1>1, LenProperties
<1>3. \A i \in 1 .. Len(t) - 1 : i + 1 \in DOMAIN t /\ (i + 1 = Len(t) <=> i = Len(t) - 1)
  BY <1>2
<1> QED
  BY <1>1, <1>2, <1>3

LEMMA WriteLineKeeps ==
  ASSUME OutputInv, NEW g \in Goroutines, WriteLine(g)
  PROVE  OutputInv'
<1> DEFINE e == [by |-> Current(g), line |-> Head(todo[g])]
<1>1. OutputTypeOK
  BY DEF OutputInv
<1>2. /\ at[g] = "write" /\ output' = Append(output, e)
      /\ todo' = [todo EXCEPT ![g] = Tail(todo[g])]
      /\ at' = [at EXCEPT ![g] = IF Len(todo[g]) = 1 THEN "unlock" ELSE "write"]
      /\ handlers' = handlers /\ records' = records /\ held' = held /\ failed' = failed
  BY DEF WriteLine, Put, Goto
<1>3. /\ todo[g] \in Seq(Lines) /\ Len(todo[g]) > 0
      /\ \A k \in DOMAIN todo[g] : todo[g][k] = Separator <=> k = Len(todo[g])
  BY <1>1, <1>2 DEF OutputTypeOK, OutputInv, GoroutinesInv, Pending
<1>4. Head(todo[g]) \in Lines /\ Tail(todo[g]) \in Seq(Lines)
  BY <1>3, LinesLeft
<1>5. /\ Head(todo[g]) = Separator <=> Len(todo[g]) = 1
      /\ Len(todo[g]) # 1 =>
           /\ Len(Tail(todo[g])) > 0
           /\ \A k \in DOMAIN Tail(todo[g]) :
                Tail(todo[g])[k] = Separator <=> k = Len(Tail(todo[g]))
  BY <1>3, LinesLeft
<1>6. /\ todo'[g] = Tail(todo[g])
      /\ at'[g] = IF Len(todo[g]) = 1 THEN "unlock" ELSE "write"
  BY <1>1, <1>2 DEF OutputTypeOK
<1>7. e \in Entries /\ e.by = Current(g) /\ e.line = Head(todo[g])
  BY <1>1, <1>4, CurrentFacts DEF Entries
<1> HIDE DEF e
<1>8. OneWrites(g)
  <2>1. at'[g] = "write" => Len(todo[g]) # 1
    BY <1>6
  <2>2. /\ at'[g] \in {"write", "unlock"} /\ todo'[g] \in Seq(Lines)
        /\ at' = [at EXCEPT ![g] = at'[g]] /\ todo' = [todo EXCEPT ![g] = todo'[g]]
    BY <1>2, <1>4, <1>6
  <2> QED
    BY <1>2, <1>5, <1>6, <2>1, <2>2 DEF OneWrites
<1> QED
  BY <1>2, <1>5, <1>6, <1>7, <1>8, LineKeeps

LEMMA WriteFailsKeeps ==
  ASSUME OutputInv, NEW g \in Goroutines, WriteFails(g)
  PROVE  OutputInv'
<1> DEFINE e == [by |-> Current(g), line |-> Fragment]
<1>1. OutputTypeOK
  BY DEF OutputInv
<1>2. /\ at[g] = "write" /\ (output' = Append(output, e) \/ output' = output)
      /\ todo' = [todo EXCEPT ![g] = <<>>] /\ at' = [at EXCEPT ![g] = "unlock"]
      /\ failed' = failed \cup {Current(g)}
      /\ handlers' = handlers /\ records' = records /\ held' = held
  BY DEF WriteFails, Put, ReturnError, Goto
<1>3. e \in Entries /\ e.by = Current(g) /\ e.line # Separator
  BY <1>1, SeparatorFacts, CurrentFacts DEF Entries
<1> HIDE DEF e
<1>4. at'[g] = "unlock" /\ todo'[g] = <<>> /\ <<>> \in Seq(Lines)
  BY <1>1, <1>2 DEF OutputTypeOK
<1>5. OneWrites(g)
  <2>1. at' = [at EXCEPT ![g] = at'[g]] /\ todo' = [todo EXCEPT ![g] = todo'[g]]
    BY <1>2, <1>4
  <2> QED
    BY <1>2, <1>4, <2>1 DEF OneWrites
<1>6. /\ output' \in Seq(Entries) /\ Grows /\ Separators' = Separators
      /\ \A j \in DOMAIN output' \ DOMAIN output : output'[j].by = Current(g)
  <2>1. ASSUME output' = Append(output, e), NEW n, n = Len(output) + 1
        PROVE  /\ output' \in Seq(Entries) /\ Grows /\ Separators' = Separators
               /\ \A j \in DOMAIN output' \ DOMAIN output : output'[j].by = Current(g)
    <3>1. /\ output' \in Seq(Entries) /\ Grows /\ Separators' = Separators
          /\ n \in Nat /\ DOMAIN output = 1 .. n - 1 /\ DOMAIN output' = 1 .. n
          /\ output'[n] = e
      BY <1>1, <1>3, <2>1, OutputAppends
    <3> QED
      BY <1>3, <3>1
  <2>2. CASE output' = output
    BY <1>1, <2>2, OutputStays DEF OutputTypeOK
  <2> QED
    BY <1>2, <2>1, <2>2
<1>7. OutputTypeOK'
  <2>1. todo' \in [Goroutines -> Seq(Lines)]
    BY <1>1, <1>2, <1>4 DEF OutputTypeOK
  <2> QED
    BY <1>1, <1>2, <1>6, <2>1, CurrentFacts, SMTT(30) DEF OutputTypeOK
<1>8. \A j \in DOMAIN output' :
        output'[j].by = Current(g) \/ (j \in DOMAIN output /\ output'[j] = output[j])
  BY <1>6 DEF Grows
<1>9. GoroutinesInv'
  <2>1. \A j \in DOMAIN output' : output'[j].by \in Logged'
    BY <1>8, <1>5, WritingFacts DEF OutputInv, GoroutinesInv
  <2>2. failed' \subseteq Logged'
    BY <1>2, <1>5, WritingFacts DEF OutputInv, GoroutinesInv
  <2>3. ASSUME NEW h \in Goroutines \ {g} PROVE Unended(h)'
    BY <1>2, <1>5, <1>6, OthersUnended
  <2>4. Unended(g)'
    BY <1>4 DEF Unended
  <2> QED
    BY <1>5, <2>1, <2>2, <2>3, <2>4, WritingFacts DEF GoroutinesInv
<1>10. OpenInv'
  <2>1. \A h \in Goroutines : at'[h] # "write"
    BY <1>4, <1>5, WritingFacts
  <2>2. \A j \in Open' : j \in DOMAIN output => j \in Open
    BY <1>6 DEF Open
  <2>3. \A j \in Open' : output'[j].by \in failed'
    BY <1>2, <1>5, <1>8, <2>2, OpenOfWriter DEF Open
  <2> QED
    BY <2>1, <2>3 DEF OpenInv
<1>11. ASSUME NEW i \in Separators' PROVE Whole(i)'
  <2>1. i \in Separators /\ Whole(i)
    BY <1>6, RecordsAreWholeAt DEF OutputInv
  <2>2. output[i].by # Current(g)
    BY <1>2, <2>1 DEF OutputInv, GoroutinesInv, Unended
  <2>3. failed \subseteq failed' /\ output[i].by \notin failed'
    BY <1>2, <2>1, <2>2 DEF Whole
  <2> QED
    BY <1>6, <2>1, <2>3, WholeStays
<1>12. RecordsAreWhole'
  BY <1>11 DEF RecordsAreWhole, Whole
<1> QED
  BY <1>5, <1>7, <1>9, <1>10, <1>12, WritingFacts DEF OutputInv

-----------------------------------------------------------------------------

(* The mutex is one, the goroutine with it has the end of the output, and  *)
(* every separator before ends a whole record, in every state.             *)
THEOREM OutputInvariant == OutputSpec => []OutputInv
<1>1. OutputInit => OutputInv
  <2> SUFFICES ASSUME OutputInit PROVE OutputInv
    OBVIOUS
  <2>1. OutputTypeOK
    <3>1. NewMultilineTextHandler \in Handlers
      BY DEF NewMultilineTextHandler, Handlers
    <3> QED
      BY <3>1 DEF OutputInit, OutputTypeOK
  <2>2. MutexInv /\ GoroutinesInv
    BY DEF OutputInit, MutexInv, HasMutex, GoroutinesInv, Unended
  <2>3. Separators = {} /\ Open = {}
    BY DEF OutputInit, Separators, Open
  <2>4. OpenInv /\ RecordsAreWhole
    BY <2>3 DEF OpenInv, RecordsAreWhole
  <2> QED
    BY <2>1, <2>2, <2>4 DEF OutputInv
<1>2. OutputInv /\ [OutputNext]_outputVars => OutputInv'
  <2> SUFFICES ASSUME OutputInv, [OutputNext]_outputVars PROVE OutputInv'
    OBVIOUS
  <2>1. CASE UNCHANGED outputVars
    <3>1. /\ handlers' = handlers /\ records' = records /\ at' = at /\ todo' = todo
          /\ held' = held /\ output' = output /\ failed' = failed
      BY <2>1 DEF outputVars
    <3>2. OutputTypeOK' /\ MutexInv'
      BY <3>1 DEF OutputInv, OutputTypeOK, MutexInv, HasMutex
    <3>3. GoroutinesInv'
      BY <3>1 DEF OutputInv, GoroutinesInv, Pending, Logged, Unended, Current, Separators
    <3>4. OpenInv'
      BY <3>1 DEF OutputInv, OpenInv, Open, Writes, Current, Separators
    <3>5. RecordsAreWhole'
      BY <3>1 DEF OutputInv, RecordsAreWhole, Separators, Block, Own
    <3> QED
      BY <3>2, <3>3, <3>4, <3>5 DEF OutputInv
  <2>2. CASE \E i \in DOMAIN handlers : With(i)
    BY <2>2, WithKeeps
  <2>3. ASSUME NEW g \in Goroutines, NEW i \in DOMAIN handlers, NEW id \in {NoID, g},
               Log(g, i, id)
        PROVE  OutputInv'
    BY <2>3, LogKeeps
  <2>4. ASSUME NEW g \in Goroutines, Handle(g) PROVE OutputInv'
    BY <2>4, LockKeeps, WriteLineKeeps, WriteFailsKeeps, UnlockKeeps DEF Handle
  <2> QED
    BY <2>1, <2>2, <2>3, <2>4 DEF OutputNext
<1> QED
  BY <1>1, <1>2, PTL DEF OutputSpec

(* No two records are mixed, whatever loggers were derived and whatever    *)
(* writes fail: RecordsAreWhole of MCLogOutput.cfg, for any number of      *)
(* goroutines, loggers and records.                                        *)
THEOREM BlocksAreWhole == OutputSpec => []RecordsAreWhole
<1>1. OutputInv => RecordsAreWhole
  BY DEF OutputInv
<1> QED
  BY <1>1, OutputInvariant, PTL

-----------------------------------------------------------------------------
(* What a record shows. *)

(* A handler has what its With... calls gave it, and its wrapper.          *)
DerivedAs(h, calls) ==
  /\ h.wrapped = TRUE /\ h.groups = calls.groups /\ Len(h.attrs) = Len(calls.attrs)
  /\ \A k \in 1 .. Len(h.attrs) :
       /\ h.attrs[k] = calls.attrs[k].name
       /\ calls.attrs[k].within \in Seq(Groups)
       /\ IsPrefix(calls.attrs[k].within, h.groups)

Calls == [attrs : Seq([name : Attributes, within : Seq(Groups)]), groups : Seq(Groups)]

LineageInv ==
  /\ lineage \in Seq(Calls) /\ Len(lineage) = Len(handlers)
  /\ \A i \in DOMAIN handlers : DerivedAs(handlers[i], lineage[i])
  /\ \A by \in Logged : records[by[1]][by[2]].handler \in DOMAIN handlers

(* All the lines of a record. *)
Text(by) ==
  LET r == records[by[1]][by[2]]
      h == handlers[r.handler]
  IN  Append(flattenAttrs(h.groups, RecordAttrs(h, r.id)), Separator)

(* The first w lines of a text are out, and these are the rest.            *)
RestOf(text, rest, w) ==
  /\ w \in Nat /\ w = Len(text) - Len(rest)
  /\ \A k \in 1 .. Len(rest) : rest[k] = text[w + k]

(* They follow one another in the output. *)
OutAfter(out, start, w, text) ==
  start >= 0 /\ \A k \in 1 .. w : out[start + k].line = text[k]

(* The lines that are not written yet are the last ones of the record, and *)
(* those that are, the first ones, end the output.                         *)
Written(g, by) ==
  LET w == Len(Text(by)) - Len(todo[g])
      start == Len(output) - w
  IN
  /\ RestOf(Text(by), todo[g], w)
  /\ at[g] = "lock" => w = 0
  /\ at[g] = "write" =>
       /\ OutAfter(output, start, w, Text(by))
       /\ {j \in Open : output[j].by = by} = start + 1 .. Len(output)

(* The whole record that ends at i. *)
Complete(i, by) ==
  LET start == i - Len(Text(by)) IN
  /\ OutAfter(output, start, Len(Text(by)), Text(by))
  /\ Own(i) = start + 1 .. i

WrittenInv ==
  \A g \in Goroutines, by \in Logged :
    at[g] \in {"lock", "write"} /\ by = Current(g) => Written(g, by)

CompleteInv ==
  \A i \in Separators, by \in Logged : by = output[i].by => Complete(i, by)

ShowsInv == LineageInv /\ WrittenInv /\ CompleteInv

LEMMA PrefixFacts ==
  ASSUME NEW S, NEW s \in Seq(S), NEW t \in Seq(S)
  PROVE  IsPrefix(s, t) <=> Len(s) <= Len(t) /\ \A k \in 1 .. Len(s) : s[k] = t[k]
<1>1. Len(s) \in Nat /\ Len(t) \in Nat
  OBVIOUS
<1>2. ASSUME Len(s) <= Len(t)
      PROVE  /\ SubSeq(s, 1, Len(s)) \in Seq(S) /\ Len(SubSeq(s, 1, Len(s))) = Len(s)
             /\ SubSeq(t, 1, Len(s)) \in Seq(S) /\ Len(SubSeq(t, 1, Len(s))) = Len(s)
             /\ \A k \in 1 .. Len(s) :
                  SubSeq(s, 1, Len(s))[k] = s[k] /\ SubSeq(t, 1, Len(s))[k] = t[k]
  BY <1>1, <1>2, SubSeqProperties
<1>3. ASSUME Len(s) <= Len(t), \A k \in 1 .. Len(s) : s[k] = t[k]
      PROVE  SubSeq(s, 1, Len(s)) = SubSeq(t, 1, Len(s))
  BY <1>2, <1>3, SeqEqual
<1>4. ASSUME Len(s) <= Len(t), SubSeq(s, 1, Len(s)) = SubSeq(t, 1, Len(s))
      PROVE  \A k \in 1 .. Len(s) : s[k] = t[k]
  BY <1>2, <1>4
<1> QED
  BY <1>3, <1>4 DEF IsPrefix

LEMMA PrefixOfAppend ==
  ASSUME NEW S, NEW s \in Seq(S), NEW t \in Seq(S), NEW x \in S, IsPrefix(s, t)
  PROVE  IsPrefix(s, Append(t, x))
<1>1. Len(s) <= Len(t) /\ \A k \in 1 .. Len(s) : s[k] = t[k]
  BY PrefixFacts
<1>2. /\ Append(t, x) \in Seq(S) /\ Len(Append(t, x)) = Len(t) + 1
      /\ \A k \in 1 .. Len(t) : Append(t, x)[k] = t[k]
  BY AppendProperties
<1>3. Len(s) \in Nat /\ Len(t) \in Nat
  OBVIOUS
<1>4. Len(s) <= Len(Append(t, x)) /\ \A k \in 1 .. Len(s) : s[k] = Append(t, x)[k]
  BY <1>1, <1>2, <1>3
<1> QED
  BY <1>2, <1>4, PrefixFacts

(* The attributes of a record: the message, those of the handler in their  *)
(* order, that of the call and the request id.                             *)
AttrsShape(t, h, id) ==
  LET m == Len(h.attrs) IN
  /\ m \in Nat
  /\ id = NoID => Len(t) = m + 2
  /\ id # NoID => Len(t) = m + 3
  /\ t[1] = Attr("msg", "msg") /\ t[m + 2] = Attr("arg", "arg")
  /\ \A k \in 1 .. m : t[k + 1] = Attr(h.attrs[k], h.attrs[k])
  /\ id # NoID => t[m + 3] = Attr("request_id", id)

LEMMA RecordAttrsShape ==
  ASSUME NEW h \in Handlers, h.wrapped = TRUE, NEW id \in Goroutines \cup {NoID}
  PROVE  AttrsShape(RecordAttrs(h, id), h, id)
<1> PICK m : m = Len(h.attrs)
  OBVIOUS
<1> PICK t : t = RecordAttrs(h, id)
  OBVIOUS
<1> DEFINE own == [i \in DOMAIN h.attrs |-> Attr(h.attrs[i], h.attrs[i])]
           first == Attr("msg", "msg")
           arg == Attr("arg", "arg")
           request == Attr("request_id", id)
           t1 == <<first>> \o own
           t2 == Append(t1, arg)
<1>1. h.attrs \in Seq(Attributes) /\ m \in Nat /\ DOMAIN h.attrs = 1 .. m
  BY DEF Handlers
<1>2. /\ own \in Seq(AttrsShown) /\ Len(own) = m
      /\ \A k \in 1 .. m : own[k] = Attr(h.attrs[k], h.attrs[k])
  <2>1. \A i \in 1 .. m : Attr(h.attrs[i], h.attrs[i]) \in AttrsShown
    BY <1>1, AttrFacts
  <2> QED
    BY <1>1, <2>1, IsASeq
<1>3. /\ first \in AttrsShown /\ arg \in AttrsShown
      /\ id # NoID => request \in AttrsShown
  BY AttrFacts
<1>4. t = (t1 \o <<arg>>) \o (IF id # NoID THEN <<request>> ELSE <<>>)
  BY DEF RecordAttrs
<1> HIDE DEF own, request, first, arg
<1>5. /\ t1 \in Seq(AttrsShown) /\ Len(t1) = m + 1
      /\ t1[1] = first /\ \A k \in 1 .. m : t1[k + 1] = own[k]
  <2>1. <<first>> \in Seq(AttrsShown) /\ Len(<<first>>) = 1 /\ <<first>>[1] = first
    BY <1>3
  <2>2. /\ t1 \in Seq(AttrsShown) /\ Len(t1) = 1 + m
        /\ \A i \in 1 .. 1 + m : t1[i] = IF i <= 1 THEN <<first>>[i] ELSE own[i - 1]
    BY <1>2, <2>1, ConcatProperties
  <2> HIDE DEF t1
  <2>3. \A k \in 1 .. m : k + 1 \in 1 .. 1 + m /\ ~(k + 1 <= 1) /\ (k + 1) - 1 = k
    BY <1>1
  <2>4. 1 \in 1 .. 1 + m
    BY <1>1
  <2> QED
    BY <1>1, <2>1, <2>2, <2>3, <2>4
<1>6. t2 = t1 \o <<arg>>
  <2> HIDE DEF t1
  <2> QED
    BY <1>3, <1>5, AppendIsConcat
<1>7. /\ t2 \in Seq(AttrsShown) /\ Len(t2) = m + 2 /\ t2[m + 2] = arg
      /\ \A k \in 1 .. m + 1 : t2[k] = t1[k]
  <2> HIDE DEF t1
  <2>1. /\ t2 \in Seq(AttrsShown) /\ Len(t2) = Len(t1) + 1 /\ t2[Len(t1) + 1] = arg
        /\ \A k \in 1 .. Len(t1) : t2[k] = t1[k]
    BY <1>3, <1>5, AppendProperties
  <2> HIDE DEF t2
  <2>2. (m + 1) + 1 = m + 2
    BY <1>1
  <2> QED
    BY <1>5, <2>1, <2>2
<1> HIDE DEF t1, t2
<1>8. IF id # NoID THEN t = Append(t2, request) ELSE t = t2
  BY <1>3, <1>4, <1>6, <1>7, AppendIsConcat, ConcatEmptySeq
<1>9. \A i \in 1 .. m + 2 : t[i] = t2[i]
  <2>1. CASE id # NoID
    <3>1. \A i \in 1 .. Len(t2) : Append(t2, request)[i] = t2[i]
      BY <1>3, <1>7, <2>1, AppendProperties
    <3> QED
      BY <1>7, <1>8, <2>1, <3>1
  <2>2. CASE id = NoID
    BY <1>8, <2>2
  <2> QED
    BY <2>1, <2>2
<1>10. (id = NoID => Len(t) = m + 2) /\ (id # NoID => Len(t) = m + 3)
  <2>1. ASSUME id # NoID PROVE Len(t) = m + 3
    <3>1. Len(Append(t2, request)) = Len(t2) + 1
      BY <1>3, <1>7, <2>1, AppendProperties
    <3>2. (m + 2) + 1 = m + 3
      BY <1>1
    <3> QED
      BY <1>7, <1>8, <2>1, <3>1, <3>2
  <2>2. id = NoID => Len(t) = m + 2
    BY <1>7, <1>8
  <2> QED
    BY <2>1, <2>2
<1>11. ASSUME id # NoID PROVE t[m + 3] = request
  <2>1. t[Len(t2) + 1] = request
    BY <1>3, <1>7, <1>8, <1>11, AppendProperties
  <2>2. Len(t2) + 1 = m + 3
    BY <1>1, <1>7
  <2> QED
    BY <2>1, <2>2
<1>12. /\ 1 \in 1 .. m + 1 /\ m + 2 \in 1 .. m + 2
       /\ \A k \in 1 .. m : k + 1 \in 1 .. m + 1
       /\ \A k \in 1 .. m + 1 : k \in 1 .. m + 2
  BY <1>1
<1>13. t[1] = first /\ \A k \in 1 .. m : t[k + 1] = Attr(h.attrs[k], h.attrs[k])
  BY <1>2, <1>5, <1>7, <1>9, <1>12
<1>14. t[m + 2] = arg
  BY <1>7, <1>9, <1>12
<1>15. t = RecordAttrs(h, id) /\ m = Len(h.attrs)
  OBVIOUS
<1>16. AttrsShape(t, h, id)
  BY <1>1, <1>10, <1>11, <1>13, <1>14, <1>15 DEF AttrsShape, first, arg, request
<1> QED
  BY <1>15, <1>16

(* Its lines: the attributes in the same order, each under the handler's   *)
(* groups, and the separator.                                              *)
LEMMA FlatShape ==
  ASSUME NEW groups \in Seq(Groups), NEW attrs \in Seq(AttrsShown), NEW f,
         f = flattenAttrs(groups, attrs)
  PROVE  /\ f \in Seq(Lines) /\ Len(f) = Len(attrs)
         /\ \A i \in 1 .. Len(attrs) :
              f[i].key = Append(groups, attrs[i].key) /\ f[i].value = attrs[i].value
<1> DEFINE line(i) == Line(Append(groups, attrs[i].key), attrs[i].value)
<1>1. DOMAIN attrs = 1 .. Len(attrs) /\ Len(attrs) \in Nat
  OBVIOUS
<1>2. f = [i \in 1 .. Len(attrs) |-> line(i)]
  BY <1>1 DEF flattenAttrs
<1>3. \A i \in 1 .. Len(attrs) :
        line(i).key = Append(groups, attrs[i].key) /\ line(i).value = attrs[i].value
  BY DEF Line
<1>4. f \in Seq(Lines)
  BY FlatLines
<1> HIDE DEF line
<1>5. DOMAIN f = 1 .. Len(attrs) /\ \A i \in 1 .. Len(attrs) : f[i] = line(i)
  BY <1>2
<1>6. Len(f) = Len(attrs)
  BY <1>1, <1>4, <1>5, LenProperties
<1> QED
  BY <1>3, <1>4, <1>5, <1>6

LinesShapeOf(s, h, id) ==
  LET m == Len(h.attrs) IN
  /\ m \in Nat
  /\ id = NoID => Len(s) = m + 3
  /\ id # NoID => Len(s) = m + 4
  /\ s[1].key = Append(h.groups, "msg") /\ s[m + 2].key = Append(h.groups, "arg")
  /\ \A k \in 1 .. m : s[k + 1].key = Append(h.groups, h.attrs[k])
  /\ id # NoID => s[m + 3].key = Append(h.groups, "request_id") /\ s[m + 3].value = id

Flattened(s, t, groups) ==
  /\ Len(s) = Len(t) + 1
  /\ \A i \in 1 .. Len(t) : s[i].key = Append(groups, t[i].key) /\ s[i].value = t[i].value

LEMMA LinesOfAttrs ==
  ASSUME NEW h, NEW id, NEW t, AttrsShape(t, h, id), NEW s, Flattened(s, t, h.groups)
  PROVE  LinesShapeOf(s, h, id)
<1> PICK m : m = Len(h.attrs)
  OBVIOUS
<1> PICK n \in Nat : n >= 2 /\ (id = NoID => n = 2) /\ (id # NoID => n = 3)
  OBVIOUS
<1>1. m \in Nat /\ Len(t) = m + n
  <2>1. /\ m \in Nat
        /\ id = NoID => Len(t) = m + 2
        /\ id # NoID => Len(t) = m + 3
    BY DEF AttrsShape
  <2>2. CASE id = NoID
    BY <2>1, <2>2
  <2>3. CASE id # NoID
    BY <2>1, <2>3
  <2> QED
    BY <2>2, <2>3
<1>2. /\ t[1].key = "msg" /\ t[m + 2].key = "arg"
      /\ \A k \in 1 .. m : t[k + 1].key = h.attrs[k]
      /\ id # NoID => t[m + 3].key = "request_id" /\ t[m + 3].value = id
  <2>1. /\ t[1] = Attr("msg", "msg") /\ t[m + 2] = Attr("arg", "arg")
        /\ \A k \in 1 .. m : t[k + 1] = Attr(h.attrs[k], h.attrs[k])
        /\ id # NoID => t[m + 3] = Attr("request_id", id)
    BY DEF AttrsShape
  <2>2. \A k, v : Attr(k, v).key = k /\ Attr(k, v).value = v
    BY DEF Attr
  <2> QED
    BY <2>1, <2>2
<1>3. /\ 1 \in 1 .. Len(t) /\ m + 2 \in 1 .. Len(t)
      /\ \A k \in 1 .. m : k + 1 \in 1 .. Len(t)
      /\ id # NoID => m + 3 \in 1 .. Len(t)
  BY <1>1
<1>4. (id = NoID => Len(s) = m + 3) /\ (id # NoID => Len(s) = m + 4)
  BY <1>1 DEF Flattened
<1>5. s[1].key = Append(h.groups, "msg") /\ s[m + 2].key = Append(h.groups, "arg")
  BY <1>2, <1>3 DEF Flattened
<1>6. \A k \in 1 .. m : s[k + 1].key = Append(h.groups, h.attrs[k])
  BY <1>2, <1>3 DEF Flattened
<1>7. id # NoID => s[m + 3].key = Append(h.groups, "request_id") /\ s[m + 3].value = id
  BY <1>2, <1>3 DEF Flattened
<1>8. m = Len(h.attrs)
  OBVIOUS
<1> QED
  BY <1>1, <1>4, <1>5, <1>6, <1>7, <1>8 DEF LinesShapeOf

LEMMA LinesShape ==
  ASSUME NEW h \in Handlers, h.wrapped = TRUE, NEW id \in Goroutines \cup {NoID}
  PROVE  LinesShapeOf(Append(flattenAttrs(h.groups, RecordAttrs(h, id)), Separator), h, id)
<1> DEFINE t == RecordAttrs(h, id)
           f == flattenAttrs(h.groups, t)
           s == Append(f, Separator)
<1>1. h.groups \in Seq(Groups)
  BY DEF Handlers
<1>2. t \in Seq(AttrsShown)
  BY RecordAttrsFacts
<1>3. AttrsShape(t, h, id)
  BY RecordAttrsShape
<1> HIDE DEF t
<1>4. /\ f \in Seq(Lines) /\ Len(f) = Len(t)
      /\ \A i \in 1 .. Len(t) :
           f[i].key = Append(h.groups, t[i].key) /\ f[i].value = t[i].value
  BY <1>1, <1>2, FlatShape
<1> HIDE DEF f
<1>5. Len(s) = Len(t) + 1 /\ \A i \in 1 .. Len(t) : s[i] = f[i]
  BY <1>4, SeparatorFacts, AppendProperties
<1> HIDE DEF s
<1>6. \A i \in 1 .. Len(t) : s[i].key = Append(h.groups, t[i].key) /\ s[i].value = t[i].value
  BY <1>4, <1>5
<1>7. Flattened(s, t, h.groups)
  BY <1>5, <1>6 DEF Flattened
<1>8. LinesShapeOf(s, h, id)
  BY <1>3, <1>7, LinesOfAttrs
<1> QED
  BY <1>8 DEF s, f, t

-----------------------------------------------------------------------------
(* Handlers and records stay as they are. *)

RecordsGrow ==
  /\ \A j \in DOMAIN handlers : j \in DOMAIN handlers' /\ handlers'[j] = handlers[j]
  /\ \A by \in Logged : by \in Logged' /\ records'[by[1]][by[2]] = records[by[1]][by[2]]

LEMMA TextStays ==
  ASSUME LineageInv, RecordsGrow, NEW by \in Logged
  PROVE  Text(by)' = Text(by)
<1>1. records'[by[1]][by[2]] = records[by[1]][by[2]]
  BY DEF RecordsGrow
<1>2. handlers'[records[by[1]][by[2]].handler] = handlers[records[by[1]][by[2]].handler]
  BY DEF LineageInv, RecordsGrow
<1> QED
  BY <1>1, <1>2 DEF Text

LEMMA TextFacts ==
  ASSUME OutputTypeOK, LineageInv, NEW by \in Logged
  PROVE  Text(by) \in Seq(Lines) /\ Len(Text(by)) \in Nat
<1>1. records[by[1]][by[2]] \in Records
  BY DEF OutputTypeOK, Logged
<1>2. records[by[1]][by[2]].handler \in DOMAIN handlers
  BY DEF LineageInv
<1>3. /\ handlers[records[by[1]][by[2]].handler] \in Handlers
      /\ records[by[1]][by[2]].id \in Goroutines \cup {NoID}
  BY <1>1, <1>2 DEF OutputTypeOK, Records
<1>4. Text(by) \in Seq(Lines)
  BY <1>3, RecordLines DEF Text
<1> QED
  BY <1>4, LenProperties

LEMMA CompleteStays ==
  ASSUME OutputTypeOK, LineageInv, RecordsGrow, Grows, NEW i \in Separators,
         NEW by \in Logged, Complete(i, by)
  PROVE  Complete(i, by)'
<1>1. Text(by)' = Text(by) /\ Len(Text(by)) \in Nat
  BY TextStays, TextFacts
<1>2. i \in DOMAIN output /\ i \in Nat /\ output'[i] = output[i]
  BY DEF Grows
<1>3. \A k : k \in Separators' /\ k < i <=> k \in Separators /\ k < i
  BY <1>2 DEF Grows
<1>4. Block(i)' = Block(i)
  BY <1>3 DEF Block
<1>5. \A j \in 1 .. i : output'[j] = output[j]
  BY <1>2 DEF Grows
<1>6. Own(i)' = Own(i)
  BY <1>2, <1>4, <1>5 DEF Own, Block
<1> PICK n \in Nat : n = Len(Text(by))
  BY <1>1
<1> PICK start : start = i - n
  OBVIOUS
<1>7. /\ start >= 0 /\ Own(i) = start + 1 .. i
      /\ \A k \in 1 .. n : output[start + k].line = Text(by)[k]
  BY DEF Complete, OutAfter
<1>8. \A k \in 1 .. n : start + k \in 1 .. i
  BY <1>2, <1>7
<1>9. \A k \in 1 .. n : output'[start + k].line = Text(by)[k]
  BY <1>5, <1>7, <1>8
<1>10. n = Len(Text(by)')
  BY <1>1
<1>11. OutAfter(output', start, n, Text(by))
  BY <1>7, <1>9 DEF OutAfter
<1> QED
  BY <1>1, <1>6, <1>7, <1>10, <1>11 DEF Complete

-----------------------------------------------------------------------------
(* Deriving keeps what handlers and records are. *)

LEMMA DerivedAgain ==
  ASSUME NEW h \in Handlers, NEW calls \in Calls, DerivedAs(h, calls)
  PROVE  /\ \A a \in Attributes : \A c :
              c = [calls EXCEPT !.attrs = Append(@, [name |-> a, within |-> calls.groups])]
                => c \in Calls /\ DerivedAs(WithAttrs(h, a), c)
         /\ \A n \in Groups : \A c :
              c = [calls EXCEPT !.groups = Append(@, n)]
                => c \in Calls /\ DerivedAs(WithGroup(h, n), c)
<1>1. /\ h.attrs \in Seq(Attributes) /\ h.groups \in Seq(Groups)
      /\ calls.attrs \in Seq([name : Attributes, within : Seq(Groups)])
      /\ calls.groups \in Seq(Groups)
  BY DEF Handlers, Calls
<1> PICK m \in Nat : m = Len(h.attrs)
  BY <1>1
<1>2. /\ h.groups = calls.groups /\ Len(calls.attrs) = m
      /\ \A k \in 1 .. m :
           /\ h.attrs[k] = calls.attrs[k].name
           /\ calls.attrs[k].within \in Seq(Groups)
           /\ IsPrefix(calls.attrs[k].within, h.groups)
  BY DEF DerivedAs
<1>3. ASSUME NEW a \in Attributes, NEW x, x = [name |-> a, within |-> calls.groups],
             NEW c, c = [calls EXCEPT !.attrs = Append(@, x)]
      PROVE  c \in Calls /\ DerivedAs(WithAttrs(h, a), c)
  <2> PICK d : d = WithAttrs(h, a)
    OBVIOUS
  <2>1. /\ d.wrapped = TRUE /\ d.groups = h.groups /\ d.attrs = Append(h.attrs, a)
    BY <1>1 DEF WithAttrs, Wrap, Mutex, Handlers
  <2>2. x \in [name : Attributes, within : Seq(Groups)] /\ x.name = a /\ x.within = h.groups
    BY <1>1, <1>2, <1>3
  <2>3. c.groups = h.groups /\ c.attrs = Append(calls.attrs, x)
    BY <1>2, <1>3 DEF Calls
  <2>4. /\ Append(calls.attrs, x) \in Seq([name : Attributes, within : Seq(Groups)])
        /\ Len(Append(calls.attrs, x)) = m + 1 /\ Append(calls.attrs, x)[m + 1] = x
        /\ \A k \in 1 .. m : Append(calls.attrs, x)[k] = calls.attrs[k]
    BY <1>1, <1>2, <2>2, AppendProperties
  <2>5. /\ Len(Append(h.attrs, a)) = m + 1 /\ Append(h.attrs, a)[m + 1] = a
        /\ \A k \in 1 .. m : Append(h.attrs, a)[k] = h.attrs[k]
    BY <1>1, AppendProperties
  <2>6. c \in Calls
    BY <1>1, <1>3, <2>4 DEF Calls
  <2>7. IsPrefix(h.groups, h.groups)
    BY <1>1, PrefixFacts
  <2>8. ASSUME NEW k \in 1 .. m + 1
        PROVE  /\ d.attrs[k] = c.attrs[k].name
               /\ c.attrs[k].within \in Seq(Groups)
               /\ IsPrefix(c.attrs[k].within, d.groups)
    <3>1. CASE k = m + 1
      BY <1>1, <2>1, <2>2, <2>3, <2>4, <2>5, <2>7, <3>1
    <3>2. CASE k \in 1 .. m
      BY <1>2, <2>1, <2>3, <2>4, <2>5, <3>2
    <3> QED
      BY <3>1, <3>2
  <2>9. DerivedAs(d, c)
    BY <2>1, <2>3, <2>4, <2>5, <2>8 DEF DerivedAs
  <2> QED
    BY <2>6, <2>9
<1>4. ASSUME NEW n \in Groups, NEW c, c = [calls EXCEPT !.groups = Append(@, n)]
      PROVE  c \in Calls /\ DerivedAs(WithGroup(h, n), c)
  <2> PICK d : d = WithGroup(h, n)
    OBVIOUS
  <2>1. d.wrapped = TRUE /\ d.groups = Append(h.groups, n) /\ d.attrs = h.attrs
    BY <1>1 DEF WithGroup, Wrap, Mutex, Handlers
  <2>2. c.groups = Append(h.groups, n) /\ c.attrs = calls.attrs
    BY <1>2, <1>4 DEF Calls
  <2>3. Append(h.groups, n) \in Seq(Groups)
    BY <1>1
  <2>4. c \in Calls
    BY <1>1, <1>2, <1>4, <2>3 DEF Calls
  <2>5. \A k \in 1 .. m : IsPrefix(calls.attrs[k].within, Append(h.groups, n))
    BY <1>1, <1>2, PrefixOfAppend
  <2>6. DerivedAs(d, c)
    BY <1>2, <2>1, <2>2, <2>5 DEF DerivedAs
  <2> QED
    BY <2>4, <2>6
<1> QED
  BY <1>3, <1>4

LEMMA WithDerives ==
  ASSUME OutputTypeOK, LineageInv, NEW i \in DOMAIN handlers, With(i)
  PROVE  /\ RecordsGrow /\ LineageInv' /\ Logged' = Logged
         /\ records' = records /\ at' = at /\ todo' = todo /\ output' = output
<1>1. /\ handlers \in Seq(Handlers) /\ lineage \in Seq(Calls) /\ Len(lineage) = Len(handlers)
      /\ handlers[i] \in Handlers /\ lineage[i] \in Calls /\ DerivedAs(handlers[i], lineage[i])
  BY DEF OutputTypeOK, LineageInv
<1>2. /\ records' = records /\ at' = at /\ todo' = todo /\ output' = output
  BY DEF With, Derive
<1>3. PICK h, c : /\ handlers' = Append(handlers, h) /\ lineage' = Append(lineage, c)
                  /\ h \in Handlers /\ c \in Calls /\ DerivedAs(h, c)
  <2>1. ASSUME NEW a \in Attributes, NEW c,
               c = [lineage[i] EXCEPT !.attrs =
                      Append(@, [name |-> a, within |-> lineage[i].groups])],
               Derive(WithAttrs(handlers[i], a), c)
        PROVE  \E h, d : /\ handlers' = Append(handlers, h) /\ lineage' = Append(lineage, d)
                         /\ h \in Handlers /\ d \in Calls /\ DerivedAs(h, d)
    <3>1. WithAttrs(handlers[i], a) \in Handlers
      BY <1>1, DerivedFacts
    <3>2. c \in Calls /\ DerivedAs(WithAttrs(handlers[i], a), c)
      BY <1>1, <2>1, DerivedAgain
    <3> QED
      BY <2>1, <3>1, <3>2 DEF Derive
  <2>2. ASSUME NEW n \in Groups, NEW c, c = [lineage[i] EXCEPT !.groups = Append(@, n)],
               Derive(WithGroup(handlers[i], n), c)
        PROVE  \E h, d : /\ handlers' = Append(handlers, h) /\ lineage' = Append(lineage, d)
                         /\ h \in Handlers /\ d \in Calls /\ DerivedAs(h, d)
    <3>1. WithGroup(handlers[i], n) \in Handlers
      BY <1>1, DerivedFacts
    <3>2. c \in Calls /\ DerivedAs(WithGroup(handlers[i], n), c)
      BY <1>1, <2>2, DerivedAgain
    <3> QED
      BY <2>2, <3>1, <3>2 DEF Derive
  <2> QED
    BY <2>1, <2>2 DEF With
<1> PICK m \in Nat : m = Len(handlers)
  BY <1>1
<1>4. /\ handlers' \in Seq(Handlers) /\ Len(handlers') = m + 1 /\ handlers'[m + 1] = h
      /\ \A k \in 1 .. m : handlers'[k] = handlers[k]
  BY <1>1, <1>3, AppendProperties
<1>5. /\ lineage' \in Seq(Calls) /\ Len(lineage') = m + 1 /\ lineage'[m + 1] = c
      /\ \A k \in 1 .. m : lineage'[k] = lineage[k]
  BY <1>1, <1>3, AppendProperties
<1>6. DOMAIN handlers = 1 .. m /\ DOMAIN handlers' = 1 .. m + 1
  BY <1>1, <1>4, LenProperties
<1>7. Logged' = Logged
  BY <1>2 DEF Logged
<1>8. RecordsGrow
  BY <1>2, <1>4, <1>6, <1>7 DEF RecordsGrow
<1>9. ASSUME NEW k \in DOMAIN handlers' PROVE DerivedAs(handlers'[k], lineage'[k])
  <2>1. CASE k \in 1 .. m
    BY <1>4, <1>5, <1>6, <2>1 DEF LineageInv
  <2>2. CASE k = m + 1
    BY <1>3, <1>4, <1>5, <2>2
  <2> QED
    BY <1>6, <2>1, <2>2
<1>10. \A by \in Logged' : records'[by[1]][by[2]].handler \in DOMAIN handlers'
  BY <1>2, <1>6, <1>7 DEF LineageInv
<1> QED
  BY <1>2, <1>4, <1>5, <1>7, <1>8, <1>9, <1>10 DEF LineageInv

LEMMA LogsRecord ==
  ASSUME OutputTypeOK, LineageInv, NEW g \in Goroutines, NEW i \in DOMAIN handlers,
         NEW id \in {NoID, g}, Log(g, i, id), NEW by, by = <<g, Len(records[g]) + 1>>
  PROVE  /\ RecordsGrow /\ LineageInv' /\ Logged' = Logged \cup {by} /\ by \notin Logged
         /\ Current(g)' = by /\ todo'[g] = Text(by)' /\ at'[g] = "lock"
         /\ \A h \in Goroutines \ {g} :
              at'[h] = at[h] /\ todo'[h] = todo[h] /\ Current(h)' = Current(h)
         /\ output' = output
<1> DEFINE s == Append(flattenAttrs(handlers[i].groups, RecordAttrs(handlers[i], id)), Separator)
           new == [handler |-> i, id |-> id]
<1>1. /\ i \in Nat /\ records[g] \in Seq(Records) /\ Len(records[g]) \in Nat
  BY DEF OutputTypeOK
<1>2. new \in Records /\ new.handler = i /\ new.id = id
  BY <1>1 DEF Records
<1>3. /\ at' = [at EXCEPT ![g] = "lock"]
      /\ records' = [records EXCEPT ![g] = Append(@, new)]
      /\ todo' = [todo EXCEPT ![g] = s]
      /\ handlers' = handlers /\ lineage' = lineage /\ output' = output
  BY DEF Log, Goto
<1>4. s = Append(flattenAttrs(handlers[new.handler].groups,
                              RecordAttrs(handlers[new.handler], new.id)), Separator)
  BY <1>2
<1> HIDE DEF s, new
<1>5. /\ at'[g] = "lock" /\ todo'[g] = s /\ records'[g] = Append(records[g], new)
      /\ \A h \in Goroutines \ {g} :
           at'[h] = at[h] /\ todo'[h] = todo[h] /\ records'[h] = records[h]
  BY <1>3 DEF OutputTypeOK
<1> PICK n \in Nat : n = Len(records[g])
  BY <1>1
<1>6. /\ Len(records'[g]) = n + 1 /\ records'[g][n + 1] = new
      /\ \A k \in 1 .. n : records'[g][k] = records[g][k]
  BY <1>1, <1>2, <1>5, AppendProperties
<1>7. by = <<g, n + 1>> /\ by[1] = g /\ by[2] = n + 1
  OBVIOUS
<1>8. by \notin Logged
  BY <1>7 DEF Logged
<1>9. Current(g)' = by /\ \A h \in Goroutines \ {g} : Current(h)' = Current(h)
  BY <1>5, <1>6, <1>7 DEF Current
<1>10. Logged' = Logged \cup {by}
  <2>1. ASSUME NEW r \in Goroutines \X Nat
        PROVE  r[2] \in 1 .. Len(records'[r[1]]) <=> r[2] \in 1 .. Len(records[r[1]]) \/ r = by
    <3>1. CASE r[1] = g
      <4>1. r[2] \in 1 .. n + 1 <=> r[2] \in 1 .. n \/ r[2] = n + 1
        OBVIOUS
      <4>2. r[2] = n + 1 <=> r = by
        BY <1>7, <3>1
      <4> QED
        BY <1>6, <3>1, <4>1, <4>2
    <3>2. CASE r[1] # g
      BY <1>5, <1>7, <3>2
    <3> QED
      BY <3>1, <3>2
  <2>2. by \in Goroutines \X Nat
    BY <1>7
  <2> QED
    BY <2>1, <2>2 DEF Logged
<1>11. ASSUME NEW r \in Logged PROVE records'[r[1]][r[2]] = records[r[1]][r[2]]
  <2>1. r[1] \in Goroutines /\ r[2] \in 1 .. Len(records[r[1]])
    BY DEF Logged
  <2>2. CASE r[1] = g
    BY <1>6, <2>1, <2>2
  <2>3. CASE r[1] # g
    BY <1>5, <2>1, <2>3
  <2> QED
    BY <2>2, <2>3
<1>12. RecordsGrow
  BY <1>3, <1>10, <1>11 DEF RecordsGrow
<1>13. LineageInv'
  <2>1. ASSUME NEW r \in Logged' PROVE records'[r[1]][r[2]].handler \in DOMAIN handlers'
    <3>1. CASE r = by
      <4>1. records'[r[1]][r[2]] = new
        BY <1>6, <1>7, <3>1
      <4> QED
        BY <1>2, <1>3, <4>1
    <3>2. CASE r # by
      <4>1. r \in Logged
        BY <1>10, <3>2
      <4>2. records'[r[1]][r[2]] = records[r[1]][r[2]]
        BY <1>11, <4>1
      <4> QED
        BY <1>3, <4>1, <4>2 DEF LineageInv
    <3> QED
      BY <3>1, <3>2
  <2>2. lineage' \in Seq(Calls) /\ Len(lineage') = Len(handlers')
    BY <1>3 DEF LineageInv
  <2>3. \A j \in DOMAIN handlers' : DerivedAs(handlers'[j], lineage'[j])
    BY <1>3 DEF LineageInv
  <2> QED
    BY <2>1, <2>2, <2>3 DEF LineageInv
<1>14. records'[by[1]][by[2]] = new
  BY <1>6, <1>7
<1>15. s = Text(by)'
  BY <1>3, <1>4, <1>14 DEF Text
<1> QED
  BY <1>3, <1>5, <1>8, <1>9, <1>10, <1>12, <1>13, <1>15

LEMMA NothingLogged ==
  ASSUME LineageInv, handlers' = handlers, lineage' = lineage, records' = records
  PROVE  /\ RecordsGrow /\ LineageInv' /\ Logged' = Logged
         /\ \A h \in Goroutines : Current(h)' = Current(h)
<1>1. Logged' = Logged
  BY DEF Logged
<1>2. LineageInv'
  BY <1>1 DEF LineageInv
<1> QED
  BY <1>1, <1>2 DEF RecordsGrow, Current

LEMMA WrittenStays ==
  ASSUME OutputTypeOK, LineageInv, RecordsGrow, NEW h \in Goroutines, NEW by \in Logged,
         Written(h, by), at'[h] = at[h], todo'[h] = todo[h],
         at[h] = "lock" \/ output' = output
  PROVE  Written(h, by)'
<1>1. Text(by)' = Text(by)
  BY TextStays
<1>2. CASE at[h] = "lock"
  BY <1>1, <1>2 DEF Written
<1>3. CASE output' = output
  <2>1. Open' = Open
    BY <1>3, OutputStays
  <2> QED
    BY <1>1, <1>3, <2>1 DEF Written
<1> QED
  BY <1>2, <1>3

LEMMA AllStayComplete ==
  ASSUME OutputInv, LineageInv, CompleteInv, RecordsGrow, Grows,
         NEW i \in Separators, NEW by, by = output'[i].by
  PROVE  Complete(i, by)'
<1>1. i \in DOMAIN output /\ output'[i] = output[i]
  BY DEF Grows
<1>2. by \in Logged
  BY <1>1 DEF OutputInv, GoroutinesInv
<1> QED
  BY <1>1, <1>2, CompleteStays DEF OutputInv, CompleteInv

-----------------------------------------------------------------------------
(* What each step keeps of what is written. *)

(* A step that writes nothing, and no goroutine of which begins to.        *)
LEMMA QuietShows ==
  ASSUME OutputInv, ShowsInv, RecordsGrow, LineageInv', Logged' = Logged, output' = output,
         \A h \in Goroutines : Current(h)' = Current(h),
         \A h \in Goroutines : at'[h] \in {"lock", "write"} =>
                                 at'[h] = at[h] /\ todo'[h] = todo[h]
  PROVE  ShowsInv'
<1>1. OutputTypeOK /\ LineageInv /\ Grows /\ Separators' = Separators
  BY OutputStays DEF OutputInv, ShowsInv
<1>2. ASSUME NEW h \in Goroutines, NEW by \in Logged', at'[h] \in {"lock", "write"},
             by = Current(h)'
      PROVE  Written(h, by)'
  <2>1. Written(h, by)
    BY <1>2 DEF ShowsInv, WrittenInv
  <2> QED
    BY <1>1, <1>2, <2>1, WrittenStays
<1>3. ASSUME NEW i \in Separators', NEW by \in Logged', by = output'[i].by
      PROVE  Complete(i, by)'
  BY <1>1, <1>3, AllStayComplete DEF ShowsInv
<1> QED
  BY <1>2, <1>3 DEF ShowsInv, WrittenInv, CompleteInv

LEMMA WithShows ==
  ASSUME OutputInv, ShowsInv, NEW i \in DOMAIN handlers, With(i)
  PROVE  ShowsInv'
<1>1. OutputTypeOK /\ LineageInv
  BY DEF OutputInv, ShowsInv
<1>2. /\ RecordsGrow /\ LineageInv' /\ Logged' = Logged
      /\ records' = records /\ at' = at /\ todo' = todo /\ output' = output
  BY <1>1, WithDerives
<1>3. \A h \in Goroutines : Current(h)' = Current(h)
  BY <1>2 DEF Current
<1> QED
  BY <1>2, <1>3, QuietShows

LEMMA UnlockShows ==
  ASSUME OutputInv, ShowsInv, NEW g \in Goroutines, Unlock(g)
  PROVE  ShowsInv'
<1>1. /\ handlers' = handlers /\ lineage' = lineage /\ records' = records /\ todo' = todo
      /\ output' = output /\ at' = [at EXCEPT ![g] = "idle"]
  BY DEF Unlock, Goto
<1>2. RecordsGrow /\ LineageInv' /\ Logged' = Logged /\ \A h \in Goroutines : Current(h)' = Current(h)
  BY <1>1, NothingLogged DEF ShowsInv
<1>3. \A h \in Goroutines : at'[h] \in {"lock", "write"} => at'[h] = at[h] /\ todo'[h] = todo[h]
  BY <1>1 DEF OutputInv, OutputTypeOK
<1> QED
  BY <1>1, <1>2, <1>3, QuietShows

LEMMA LogShows ==
  ASSUME OutputInv, ShowsInv, NEW g \in Goroutines, NEW i \in DOMAIN handlers,
         NEW id \in {NoID, g}, Log(g, i, id)
  PROVE  ShowsInv'
<1> PICK new : new = <<g, Len(records[g]) + 1>>
  OBVIOUS
<1>1. OutputTypeOK /\ LineageInv
  BY DEF OutputInv, ShowsInv
<1>2. /\ RecordsGrow /\ LineageInv' /\ Logged' = Logged \cup {new} /\ new \notin Logged
      /\ Current(g)' = new /\ todo'[g] = Text(new)' /\ at'[g] = "lock"
      /\ \A h \in Goroutines \ {g} :
           at'[h] = at[h] /\ todo'[h] = todo[h] /\ Current(h)' = Current(h)
      /\ output' = output
  BY <1>1, LogsRecord
<1>3. Grows /\ Separators' = Separators
  BY <1>1, <1>2, OutputStays
<1>4. Written(g, new)'
  <2>1. OutputTypeOK'
    BY LogKeeps DEF OutputInv
  <2>2. todo'[g] \in Seq(Lines)
    BY <2>1 DEF OutputTypeOK
  <2> PICK n \in Nat : n = Len(todo'[g])
    BY <2>2
  <2>3. Len(Text(new)') - Len(todo'[g]) = 0 /\ RestOf(Text(new)', todo'[g], 0)
    BY <1>2 DEF RestOf
  <2> QED
    BY <1>2, <2>3 DEF Written
<1>5. ASSUME NEW h \in Goroutines, NEW by \in Logged', at'[h] \in {"lock", "write"},
             by = Current(h)'
      PROVE  Written(h, by)'
  <2>1. CASE h = g
    BY <1>2, <1>4, <1>5, <2>1
  <2>2. CASE h # g
    <3>1. /\ Current(h) = by /\ at'[h] = at[h] /\ todo'[h] = todo[h]
          /\ Pending(h)
      BY <1>2, <1>5, <2>2 DEF OutputInv, GoroutinesInv
    <3>2. by \in Logged
      BY <1>1, <3>1, CurrentFacts DEF Pending
    <3>3. Written(h, by)
      BY <1>5, <3>1, <3>2 DEF ShowsInv, WrittenInv
    <3> QED
      BY <1>1, <1>2, <3>1, <3>2, <3>3, WrittenStays
  <2> QED
    BY <2>1, <2>2
<1>6. ASSUME NEW k \in Separators', NEW by \in Logged', by = output'[k].by
      PROVE  Complete(k, by)'
  BY <1>2, <1>3, <1>6, AllStayComplete DEF ShowsInv
<1> QED
  BY <1>2, <1>5, <1>6 DEF ShowsInv, WrittenInv, CompleteInv

LEMMA LockShows ==
  ASSUME OutputInv, ShowsInv, NEW g \in Goroutines, Lock(g)
  PROVE  ShowsInv'
<1>1. OutputTypeOK /\ LineageInv
  BY DEF OutputInv, ShowsInv
<1>2. /\ at[g] = "lock" /\ at' = [at EXCEPT ![g] = "write"] /\ handlers' = handlers
      /\ lineage' = lineage /\ records' = records /\ todo' = todo /\ output' = output
  BY DEF Lock, Goto
<1>3. RecordsGrow /\ LineageInv' /\ Logged' = Logged /\ \A h \in Goroutines : Current(h)' = Current(h)
  BY <1>1, <1>2, NothingLogged
<1>4. at'[g] = "write" /\ \A h \in Goroutines \ {g} : at'[h] = at[h]
  BY <1>1, <1>2 DEF OutputTypeOK
<1>5. Grows /\ Separators' = Separators /\ Open' = Open
  BY <1>1, <1>2, OutputStays
<1>6. ASSUME NEW h \in Goroutines, NEW by \in Logged', at'[h] \in {"lock", "write"},
             by = Current(h)'
      PROVE  Written(h, by)'
  <2>1. by \in Logged /\ by = Current(h)
    BY <1>3, <1>6
  <2>2. CASE h = g
    <3>1. Written(g, by)
      BY <1>2, <2>1, <2>2 DEF ShowsInv, WrittenInv
    <3>2. Text(by)' = Text(by)
      BY <1>1, <1>3, <2>1, TextStays
    <3>3. {j \in Open : output[j].by = by} = {}
      BY <1>2, <2>1, <2>2 DEF OutputInv, GoroutinesInv, Unended, Open
    <3> PICK w : w = Len(Text(by)) - Len(todo[g])
      OBVIOUS
    <3>4. w = 0 /\ RestOf(Text(by), todo[g], w)
      BY <1>2, <3>1 DEF Written
    <3>5. Len(output) \in Nat
      BY <1>1 DEF OutputTypeOK
    <3>6. \A l \in Nat : l - 0 >= 0 /\ (l - 0) + 1 .. l = {} /\ 1 .. 0 = {}
      OBVIOUS
    <3>7. /\ Len(Text(by)') - Len(todo'[g]) = w /\ Len(output') = Len(output)
          /\ {j \in Open' : output'[j].by = by} = {}
      BY <1>2, <1>5, <3>2, <3>3
    <3>8. /\ OutAfter(output', Len(output') - w, w, Text(by)')
          /\ {j \in Open' : output'[j].by = by} = (Len(output') - w) + 1 .. Len(output')
      BY <3>4, <3>5, <3>6, <3>7 DEF OutAfter
    <3>9. RestOf(Text(by)', todo'[g], w)
      BY <1>2, <3>2, <3>4
    <3>10. w = Len(Text(by)') - Len(todo'[g])
      BY <3>7
    <3>11. Written(g, by)'
      BY <3>4, <3>8, <3>9, <3>10 DEF Written
    <3> QED
      BY <2>2, <3>11
  <2>3. CASE h # g
    <3>1. Written(h, by) /\ at'[h] = at[h] /\ todo'[h] = todo[h]
      BY <1>2, <1>4, <1>6, <2>1, <2>3 DEF ShowsInv, WrittenInv
    <3> QED
      BY <1>1, <1>2, <1>3, <2>1, <3>1, WrittenStays
  <2> QED
    BY <2>2, <2>3
<1>7. ASSUME NEW i \in Separators', NEW by \in Logged', by = output'[i].by
      PROVE  Complete(i, by)'
  BY <1>1, <1>3, <1>5, <1>7, AllStayComplete DEF ShowsInv
<1> QED
  BY <1>3, <1>6, <1>7 DEF ShowsInv, WrittenInv, CompleteInv

LEMMA OneLineFewer ==
  ASSUME NEW text \in Seq(Lines), NEW rest \in Seq(Lines), Len(rest) > 0, NEW w,
         RestOf(text, rest, w)
  PROVE  Head(rest) = text[w + 1] /\ RestOf(text, Tail(rest), w + 1)
<1> PICK n \in Nat : n = Len(rest)
  OBVIOUS
<1>1. /\ Head(rest) = rest[1] /\ Len(Tail(rest)) = n - 1 /\ n > 0
      /\ \A k \in 1 .. n - 1 : Tail(rest)[k] = rest[k + 1]
  BY HeadTailProperties, EmptySeq
<1>2. w \in Nat /\ Len(text) = w + n /\ \A k \in 1 .. n : rest[k] = text[w + k]
  BY DEF RestOf
<1>3. ASSUME NEW k \in 1 .. n - 1 PROVE Tail(rest)[k] = text[(w + 1) + k]
  <2>1. k + 1 \in 1 .. n /\ w + (k + 1) = (w + 1) + k
    BY <1>2
  <2> QED
    BY <1>1, <1>2, <2>1
<1>4. (w + n) - (n - 1) = w + 1 /\ 1 \in 1 .. n /\ w + 1 \in Nat
  BY <1>1, <1>2
<1>5. RestOf(text, Tail(rest), w + 1)
  BY <1>1, <1>2, <1>3, <1>4 DEF RestOf
<1> QED
  BY <1>1, <1>2, <1>4, <1>5

(* The writes of g: its record is not in the way of the others.            *)
LEMMA WriterShows ==
  ASSUME OutputInv, ShowsInv, NEW g \in Goroutines, OneWrites(g), lineage' = lineage,
         Grows, NEW cur, cur = Current(g),
         at'[g] = "write" => Written(g, cur)',
         \A i \in Separators' \ Separators : output'[i].by = cur /\ Complete(i, cur)'
  PROVE  ShowsInv'
<1>1. OutputTypeOK /\ LineageInv
  BY DEF OutputInv, ShowsInv
<1>2. RecordsGrow /\ LineageInv' /\ Logged' = Logged /\ \A h \in Goroutines : Current(h)' = Current(h)
  BY <1>1, NothingLogged DEF OneWrites
<1>3. ASSUME NEW h \in Goroutines, NEW by \in Logged', at'[h] \in {"lock", "write"},
             by = Current(h)'
      PROVE  Written(h, by)'
  <2>1. CASE h = g
    <3>1. at'[g] = "write" /\ by = cur
      BY <1>2, <1>3, <2>1 DEF OneWrites
    <3> QED
      BY <2>1, <3>1
  <2>2. CASE h # g
    <3>1. at'[h] = at[h] /\ todo'[h] = todo[h] /\ at[h] # "write"
      BY <2>2, WritingFacts
    <3>2. at[h] = "lock" /\ by = Current(h) /\ by \in Logged
      BY <1>2, <1>3, <3>1
    <3>3. Written(h, by)
      BY <3>2 DEF ShowsInv, WrittenInv
    <3> QED
      BY <1>1, <1>2, <3>1, <3>2, <3>3, WrittenStays
  <2> QED
    BY <2>1, <2>2
<1>4. ASSUME NEW i \in Separators', NEW by \in Logged', by = output'[i].by
      PROVE  Complete(i, by)'
  <2>1. CASE i \in Separators
    BY <1>1, <1>2, <1>4, <2>1, AllStayComplete DEF ShowsInv
  <2>2. CASE i \notin Separators
    BY <1>4, <2>2
  <2> QED
    BY <2>1, <2>2
<1> QED
  BY <1>2, <1>3, <1>4 DEF ShowsInv, WrittenInv, CompleteInv

LEMMA WriteFailsShows ==
  ASSUME OutputInv, ShowsInv, NEW g \in Goroutines, WriteFails(g)
  PROVE  ShowsInv'
<1> DEFINE e == [by |-> Current(g), line |-> Fragment]
<1>1. OutputTypeOK
  BY DEF OutputInv
<1>2. /\ at[g] = "write" /\ (output' = Append(output, e) \/ output' = output)
      /\ todo' = [todo EXCEPT ![g] = <<>>] /\ at' = [at EXCEPT ![g] = "unlock"]
      /\ handlers' = handlers /\ lineage' = lineage /\ records' = records /\ held' = held
  BY DEF WriteFails, Put, ReturnError, Goto
<1>3. e \in Entries /\ e.line # Separator
  BY <1>1, SeparatorFacts, CurrentFacts DEF Entries
<1> HIDE DEF e
<1>4. at'[g] = "unlock" /\ todo'[g] = <<>> /\ <<>> \in Seq(Lines)
  BY <1>1, <1>2 DEF OutputTypeOK
<1>5. OneWrites(g)
  <2>1. at' = [at EXCEPT ![g] = at'[g]] /\ todo' = [todo EXCEPT ![g] = todo'[g]]
    BY <1>2, <1>4
  <2> QED
    BY <1>2, <1>4, <2>1 DEF OneWrites
<1>6. Grows /\ Separators' = Separators
  <2>1. CASE output' = Append(output, e)
    BY <1>1, <1>3, <2>1, OutputAppends
  <2>2. CASE output' = output
    BY <1>1, <2>2, OutputStays
  <2> QED
    BY <1>2, <2>1, <2>2
<1>7. PICK cur : cur = Current(g)
  OBVIOUS
<1>8. at'[g] # "write" /\ Separators' \ Separators = {}
  BY <1>4, <1>6
<1> QED
  BY <1>2, <1>5, <1>6, <1>7, <1>8, WriterShows

(* The lines of a record that are out, and one more.                       *)
LEMMA OneLineMore ==
  ASSUME OutputTypeOK, NEW e \in Entries, output' = Append(output, e),
         NEW l \in Nat, l = Len(output), NEW w \in Nat, NEW text, e.line = text[w + 1],
         NEW start \in Int, start = l - w, OutAfter(output, start, w, text)
  PROVE  /\ l \in Nat /\ Len(output') = l + 1 /\ (l + 1) - (w + 1) = start
         /\ OutAfter(output', start, w + 1, text)
         /\ (start + 1 .. l) \cup {l + 1} = start + 1 .. l + 1
<1>1. /\ l \in Nat /\ Len(output') = l + 1 /\ output'[l + 1] = e
      /\ \A j \in 1 .. l : output'[j] = output[j]
  BY AppendProperties DEF OutputTypeOK
<1>2. (l - w) + (w + 1) = l + 1 /\ (l + 1) - (w + 1) = l - w
  BY <1>1
<1>3. ASSUME NEW k \in 1 .. w PROVE output'[(l - w) + k].line = text[k]
  <2>1. l - w >= 0 /\ output[(l - w) + k].line = text[k]
    BY DEF OutAfter
  <2>2. (l - w) + k \in 1 .. l
    BY <1>1, <2>1
  <2> QED
    BY <1>1, <2>1, <2>2
<1>4. l - w >= 0 /\ ((l - w) + 1 .. l) \cup {l + 1} = (l - w) + 1 .. l + 1
  BY <1>1 DEF OutAfter
<1>5. ASSUME NEW k \in 1 .. w + 1 PROVE output'[(l - w) + k].line = text[k]
  <2>1. CASE k \in 1 .. w
    BY <1>3, <2>1
  <2>2. CASE k = w + 1
    BY <1>1, <1>2, <2>2
  <2>3. \A x \in Nat : \A j \in 1 .. x + 1 : j \in 1 .. x \/ j = x + 1
    OBVIOUS
  <2> QED
    BY <2>1, <2>2, <2>3
<1>6. OutAfter(output', l - w, w + 1, text)
  BY <1>4, <1>5 DEF OutAfter
<1> QED
  BY <1>1, <1>2, <1>4, <1>6

LEMMA WriteLineShows ==
  ASSUME OutputInv, ShowsInv, NEW g \in Goroutines, WriteLine(g)
  PROVE  ShowsInv'
<1> PICK rest : rest = todo[g]
  OBVIOUS
<1> DEFINE e == [by |-> Current(g), line |-> Head(rest)]
<1>1. OutputTypeOK /\ LineageInv
  BY DEF OutputInv, ShowsInv
<1>2. /\ at[g] = "write" /\ output' = Append(output, e)
      /\ todo' = [todo EXCEPT ![g] = Tail(rest)]
      /\ at' = [at EXCEPT ![g] = IF Len(rest) = 1 THEN "unlock" ELSE "write"]
      /\ handlers' = handlers /\ lineage' = lineage /\ records' = records /\ held' = held
  BY DEF WriteLine, Put, Goto
<1>3. /\ rest \in Seq(Lines) /\ Len(rest) > 0
      /\ \A k \in DOMAIN rest : rest[k] = Separator <=> k = Len(rest)
      /\ records[g] # <<>>
  BY <1>1, <1>2 DEF OutputTypeOK, OutputInv, GoroutinesInv, Pending
<1>4. /\ Head(rest) \in Lines /\ Tail(rest) \in Seq(Lines)
      /\ Head(rest) = Separator <=> Len(rest) = 1
  BY <1>3, LinesLeft
<1>5. Len(rest) # 1 =>
        /\ Len(Tail(rest)) > 0
        /\ \A k \in DOMAIN Tail(rest) : Tail(rest)[k] = Separator <=> k = Len(Tail(rest))
  BY <1>3, LinesLeft
<1>6. /\ todo'[g] = Tail(rest)
      /\ at'[g] = IF Len(rest) = 1 THEN "unlock" ELSE "write"
  BY <1>1, <1>2 DEF OutputTypeOK
<1> PICK cur : cur = Current(g)
  OBVIOUS
<1>7. e \in Entries /\ e.by = cur /\ e.line = Head(rest)
  BY <1>1, <1>4, CurrentFacts DEF Entries
<1>8. cur \in Logged
  BY <1>1, <1>3, CurrentFacts
<1> HIDE DEF e
<1>9. OneWrites(g)
  <2>1. at'[g] = "write" => Len(rest) # 1
    BY <1>6
  <2>2. /\ at'[g] \in {"write", "unlock"} /\ todo'[g] \in Seq(Lines)
        /\ at' = [at EXCEPT ![g] = at'[g]] /\ todo' = [todo EXCEPT ![g] = todo'[g]]
    BY <1>2, <1>4, <1>6
  <2> QED
    BY <1>2, <1>5, <1>6, <2>1, <2>2 DEF OneWrites
<1> PICK text : text = Text(cur)
  OBVIOUS
<1>10. text \in Seq(Lines) /\ Text(cur)' = text
  <2>1. RecordsGrow
    BY <1>1, <1>2, NothingLogged
  <2> QED
    BY <1>1, <1>8, <2>1, TextFacts, TextStays
<1>written. Written(g, cur)
  BY <1>2, <1>8 DEF ShowsInv, WrittenInv
<1>l. PICK l \in Nat : l = Len(output)
  BY <1>1 DEF OutputTypeOK
<1>w. PICK w \in Nat : w = Len(text) - Len(rest)
  BY <1>written DEF Written, RestOf
<1>s. PICK start \in Int : start = l - w
  OBVIOUS
<1>11. /\ RestOf(text, rest, w) /\ OutAfter(output, start, w, text)
       /\ {j \in Open : output[j].by = cur} = start + 1 .. l
  BY <1>2, <1>l, <1>w, <1>s, <1>written DEF Written
<1>12. Head(rest) = text[w + 1] /\ RestOf(text, Tail(rest), w + 1)
  BY <1>3, <1>10, <1>11, OneLineFewer
<1>13. w \in Nat
  BY <1>11 DEF RestOf
<1>14. /\ l \in Nat /\ Len(output') = l + 1 /\ (l + 1) - (w + 1) = start
       /\ OutAfter(output', start, w + 1, text)
       /\ (start + 1 .. l) \cup {l + 1} = start + 1 .. l + 1
  <2>1. e.line = text[w + 1]
    BY <1>7, <1>12
  <2>2. OutputTypeOK /\ e \in Entries /\ output' = Append(output, e)
    BY <1>1, <1>2, <1>7
  <2>3. OutAfter(output, start, w, text)
    BY <1>11
  <2> QED
    BY <1>l, <1>s, <2>1, <2>2, <2>3, OneLineMore
<1>15. /\ Grows /\ output'[l + 1] = e
       /\ \A j \in Open : j # l + 1 /\ output'[j] = output[j]
  <2>1. /\ Grows /\ output'[l + 1] = e /\ DOMAIN output = 1 .. (l + 1) - 1
        /\ \A j \in DOMAIN output : output'[j] = output[j]
    BY <1>1, <1>2, <1>7, <1>l, OutputAppends
  <2> QED
    BY <1>14, <2>1 DEF Open
<1>16. {j \in Open \cup {l + 1} : output'[j].by = cur} = start + 1 .. l + 1
  <2>1. {j \in Open \cup {l + 1} : output'[j].by = cur}
          = {j \in Open : output[j].by = cur} \cup {l + 1}
    BY <1>7, <1>15
  <2> QED
    BY <1>11, <1>14, <2>1
<1>17. ASSUME at'[g] = "write" PROVE Written(g, cur)'
  <2>1. Open' = Open \cup {l + 1}
    BY <1>1, <1>2, <1>4, <1>6, <1>7, <1>17, <1>l, OpenAppends
  <2>2. {j \in Open' : output'[j].by = cur} = (Len(output') - (w + 1)) + 1 .. Len(output')
    <3>1. Len(output') - (w + 1) = start
      BY <1>14
    <3>2. {j \in Open' : output'[j].by = cur} = start + 1 .. l + 1
      BY <1>16, <2>1
    <3> QED
      BY <1>14, <3>1, <3>2
  <2>3. w + 1 = Len(Text(cur)') - Len(todo'[g]) /\ RestOf(Text(cur)', todo'[g], w + 1)
    BY <1>6, <1>10, <1>12 DEF RestOf
  <2>4. OutAfter(output', Len(output') - (w + 1), w + 1, Text(cur)')
    BY <1>10, <1>14
  <2> QED
    BY <1>17, <2>2, <2>3, <2>4 DEF Written
<1>18. ASSUME NEW i \in Separators' \ Separators
       PROVE  output'[i].by = cur /\ Complete(i, cur)'
  <2>1. e.line = Separator
    BY <1>1, <1>2, <1>7, <1>18, <1>l, OpenAppends
  <2>2. i = l + 1 /\ Block(l + 1)' = Open \cup {l + 1}
    BY <1>1, <1>2, <1>7, <1>18, <2>1, <1>l, OpenAppends
  <2>3. output'[i].by = cur
    BY <1>7, <1>15, <2>2
  <2>4. Own(i)' = start + 1 .. l + 1
    BY <1>16, <2>2, <2>3 DEF Own
  <2>5. Len(Text(cur)') = w + 1
    <3>1. Len(Tail(rest)) = 0
      BY <1>3, <1>4, <1>7, <2>1, HeadTailProperties, EmptySeq
    <3>2. Len(text) \in Nat
      BY <1>10
    <3>3. w + 1 = Len(text) - Len(Tail(rest))
      BY <1>12 DEF RestOf
    <3>4. \A x \in Nat : \A y : y = 0 /\ w + 1 = x - y => x = w + 1
      OBVIOUS
    <3> QED
      BY <1>10, <3>1, <3>2, <3>3, <3>4
  <2>6. i - Len(Text(cur)') = start
    BY <1>14, <2>2, <2>5
  <2>7. OutAfter(output', start, Len(Text(cur)'), Text(cur)')
    BY <1>10, <1>14, <2>5
  <2>8. Complete(i, cur)'
    BY <2>2, <2>4, <2>6, <2>7 DEF Complete
  <2> QED
    BY <2>3, <2>8
<1> QED
  BY <1>2, <1>9, <1>15, <1>17, <1>18, WriterShows

(* Each handler has what its With... calls gave it, and what is out of a   *)
(* record is what that handler makes of it, in every state.                *)
THEOREM ShowsInvariant == OutputSpec => [](OutputInv /\ ShowsInv)
<1>1. OutputInit => ShowsInv
  <2> SUFFICES ASSUME OutputInit PROVE ShowsInv
    OBVIOUS
  <2> PICK h : h = NewMultilineTextHandler
    OBVIOUS
  <2>1. /\ h.wrapped = TRUE /\ h.groups = <<>> /\ h.attrs = <<>>
        /\ NoCalls.attrs = <<>> /\ NoCalls.groups = <<>> /\ NoCalls \in Calls
    BY DEF NewMultilineTextHandler, NoCalls, Calls
  <2>2. DerivedAs(h, NoCalls)
    BY <2>1 DEF DerivedAs
  <2>3. handlers = <<h>> /\ lineage = <<NoCalls>> /\ Logged = {} /\ Separators = {}
    BY DEF OutputInit, Logged, Separators
  <2>4. LineageInv
    BY <2>1, <2>2, <2>3 DEF LineageInv
  <2> QED
    BY <2>3, <2>4 DEF ShowsInv, WrittenInv, CompleteInv
<1>2. OutputInv /\ ShowsInv /\ [OutputNext]_outputVars => ShowsInv'
  <2> SUFFICES ASSUME OutputInv, ShowsInv, [OutputNext]_outputVars PROVE ShowsInv'
    OBVIOUS
  <2>1. CASE UNCHANGED outputVars
    <3>1. /\ handlers' = handlers /\ lineage' = lineage /\ records' = records /\ at' = at
          /\ todo' = todo /\ output' = output
      BY <2>1 DEF outputVars
    <3>2. /\ RecordsGrow /\ LineageInv' /\ Logged' = Logged
          /\ \A h \in Goroutines : Current(h)' = Current(h)
      BY <3>1, NothingLogged DEF ShowsInv
    <3> QED
      BY <3>1, <3>2, QuietShows
  <2>2. CASE \E i \in DOMAIN handlers : With(i)
    BY <2>2, WithShows
  <2>3. ASSUME NEW g \in Goroutines, NEW i \in DOMAIN handlers, NEW id \in {NoID, g},
               Log(g, i, id)
        PROVE  ShowsInv'
    BY <2>3, LogShows
  <2>4. ASSUME NEW g \in Goroutines, Handle(g) PROVE ShowsInv'
    BY <2>4, LockShows, WriteLineShows, WriteFailsShows, UnlockShows DEF Handle
  <2> QED
    BY <2>1, <2>2, <2>3, <2>4 DEF OutputNext
<1> QED
  BY <1>1, <1>2, OutputInvariant, PTL DEF OutputSpec

LEMMA LastOfAppend ==
  ASSUME NEW S, NEW s \in Seq(S), NEW x \in S
  PROVE  Last(Append(s, x)) = x
BY AppendProperties DEF Last

(* What lines tell of the logger that wrote them.                          *)
Tells(text, given, id) ==
  LET m == Len(given) IN
  /\ m \in Nat
  /\ id = NoID => Len(text) = m + 3
  /\ id # NoID => Len(text) = m + 4
  /\ Last(text[1].key) = "msg" /\ Last(text[m + 2].key) = "arg"
  /\ \A k \in 1 .. m :
       /\ Last(text[k + 1].key) = given[k].name
       /\ IsPrefix(given[k].within, text[k + 1].key)
  /\ id # NoID => Last(text[m + 3].key) = "request_id" /\ text[m + 3].value = id

LEMMA LinesTell ==
  ASSUME NEW h \in Handlers, NEW calls, DerivedAs(h, calls), NEW id, NEW text,
         LinesShapeOf(text, h, id)
  PROVE  Tells(text, calls.attrs, id)
<1>m. PICK m : m = Len(h.attrs)
  OBVIOUS
<1>1. h.groups \in Seq(Keys) /\ h.attrs \in Seq(Attributes)
  <2>1. h.groups \in Seq(Groups) /\ h.attrs \in Seq(Attributes)
    BY DEF Handlers
  <2> QED
    BY <2>1, SeqMonotonic DEF Keys
<1>2. /\ m \in Nat
      /\ id = NoID => Len(text) = m + 3
      /\ id # NoID => Len(text) = m + 4
      /\ text[1].key = Append(h.groups, "msg") /\ text[m + 2].key = Append(h.groups, "arg")
      /\ \A k \in 1 .. m : text[k + 1].key = Append(h.groups, h.attrs[k])
      /\ id # NoID =>
           text[m + 3].key = Append(h.groups, "request_id") /\ text[m + 3].value = id
  BY <1>m DEF LinesShapeOf
<1>3. /\ Len(calls.attrs) = m
      /\ \A k \in 1 .. m :
           /\ h.attrs[k] = calls.attrs[k].name
           /\ calls.attrs[k].within \in Seq(Groups)
           /\ IsPrefix(calls.attrs[k].within, h.groups)
  BY <1>m DEF DerivedAs
<1>4. \A x \in Keys : Last(Append(h.groups, x)) = x
  BY <1>1, LastOfAppend
<1>5. "msg" \in Keys /\ "arg" \in Keys /\ "request_id" \in Keys
  BY DEF Keys
<1>6. ASSUME NEW k \in 1 .. m
      PROVE  /\ Last(text[k + 1].key) = calls.attrs[k].name
             /\ IsPrefix(calls.attrs[k].within, text[k + 1].key)
  <2>1. h.attrs[k] \in Keys
    BY <1>1, <1>m DEF Keys
  <2>2. Last(text[k + 1].key) = calls.attrs[k].name
    BY <1>2, <1>3, <1>4, <2>1
  <2>3. calls.attrs[k].within \in Seq(Keys)
    BY <1>3, SeqMonotonic DEF Keys
  <2>4. IsPrefix(calls.attrs[k].within, Append(h.groups, h.attrs[k]))
    BY <1>1, <1>3, <2>1, <2>3, PrefixOfAppend
  <2> QED
    BY <1>2, <2>2, <2>4
<1>7. Last(text[1].key) = "msg" /\ Last(text[m + 2].key) = "arg"
  BY <1>2, <1>4, <1>5
<1>8. id # NoID => Last(text[m + 3].key) = "request_id" /\ text[m + 3].value = id
  BY <1>2, <1>4, <1>5
<1> QED
  BY <1>2, <1>3, <1>6, <1>7, <1>8 DEF Tells

Shows(i) ==
  LET r == records[output[i].by[1]][output[i].by[2]]
      given == lineage[r.handler].attrs
      first == i - Cardinality(Own(i)) + 1
      name(k) == Last(output[first + k].line.key)
      idLine == Len(given) + 2
  IN /\ Cardinality(Own(i)) = Len(given) + (IF r.id = NoID THEN 3 ELSE 4)
     /\ name(0) = "msg" /\ name(Len(given) + 1) = "arg"
     /\ \A k \in DOMAIN given :
          /\ name(k) = given[k].name
          /\ IsPrefix(given[k].within, output[first + k].line.key)
     /\ r.id # NoID =>
          name(idLine) = "request_id" /\ output[first + idLine].line.value = r.id

LEMMA ShowsAt == RecordsShowTheirLogger <=> \A i \in Separators : Shows(i)
BY DEF RecordsShowTheirLogger, Shows

LEMMA WholeRecordShows ==
  ASSUME OutputInv, ShowsInv, NEW i \in Separators
  PROVE  Shows(i)
<1>by. PICK by : by = output[i].by
  OBVIOUS
<1>r. PICK r : r = records[by[1]][by[2]]
  OBVIOUS
<1>g. PICK given : given = lineage[r.handler].attrs
  OBVIOUS
<1>t. PICK text : text = Text(by)
  OBVIOUS
<1>1. OutputTypeOK /\ LineageInv /\ i \in Nat
  BY DEF OutputInv, ShowsInv, OutputTypeOK, Separators
<1>2. by \in Logged /\ Complete(i, by)
  BY <1>by DEF OutputInv, GoroutinesInv, ShowsInv, CompleteInv, Separators
<1>3. r \in Records /\ r.handler \in DOMAIN handlers
  <2>1. records[by[1]][by[2]] \in Records
    BY <1>1, <1>2 DEF OutputTypeOK, Logged
  <2>2. records[by[1]][by[2]].handler \in DOMAIN handlers
    BY <1>1, <1>2 DEF LineageInv
  <2> QED
    BY <1>r, <2>1, <2>2
<1>4. /\ handlers[r.handler] \in Handlers /\ r.id \in Goroutines \cup {NoID}
      /\ DerivedAs(handlers[r.handler], lineage[r.handler])
  BY <1>1, <1>3 DEF OutputTypeOK, LineageInv, Records
<1>5. LinesShapeOf(text, handlers[r.handler], r.id)
  BY <1>4, <1>r, <1>t, LinesShape DEF Text, DerivedAs
<1>6. Tells(text, given, r.id)
  BY <1>4, <1>5, <1>g, LinesTell
<1>n. PICK n \in Nat : n = Len(text)
  BY <1>1, <1>2, <1>t, TextFacts
<1>7. /\ Own(i) = (i - n) + 1 .. i /\ i - n >= 0
      /\ \A k \in 1 .. n : output[(i - n) + k].line = text[k]
  BY <1>2, <1>t, <1>n DEF Complete, OutAfter
<1>8. Cardinality(Own(i)) = n
  <2>1. (i - n) + 1 \in Int /\ i \in Int
    BY <1>1
  <2>2. Cardinality((i - n) + 1 .. i) = IF (i - n) + 1 > i THEN 0 ELSE i - ((i - n) + 1) + 1
    BY <2>1, FS_Interval
  <2>3. (IF (i - n) + 1 > i THEN 0 ELSE i - ((i - n) + 1) + 1) = n
    BY <1>1
  <2> QED
    BY <1>7, <2>2, <2>3
<1>9. ASSUME NEW k \in 0 .. n - 1
      PROVE  output[(i - Cardinality(Own(i)) + 1) + k].line = text[k + 1]
  <2>1. k + 1 \in 1 .. n /\ (i - n + 1) + k = (i - n) + (k + 1)
    BY <1>1
  <2> QED
    BY <1>7, <1>8, <2>1
<1>10. given \in Seq([name : Attributes, within : Seq(Groups)])
  <2>1. DOMAIN lineage = DOMAIN handlers /\ lineage \in Seq(Calls)
    BY <1>1, LenProperties DEF OutputTypeOK, LineageInv
  <2>2. lineage[r.handler] \in Calls
    BY <1>3, <2>1
  <2> QED
    BY <1>g, <2>2 DEF Calls
<1>m. PICK m \in Nat : m = Len(given)
  BY <1>10
<1>11. /\ r.id = NoID => n = m + 3
       /\ r.id # NoID => n = m + 4
       /\ Last(text[1].key) = "msg" /\ Last(text[m + 2].key) = "arg"
       /\ \A k \in 1 .. m :
            /\ Last(text[k + 1].key) = given[k].name
            /\ IsPrefix(given[k].within, text[k + 1].key)
       /\ r.id # NoID => Last(text[m + 3].key) = "request_id" /\ text[m + 3].value = r.id
  BY <1>6, <1>m, <1>n DEF Tells
<1>12. DOMAIN given = 1 .. m
  BY <1>10, <1>m, LenProperties
<1>13. /\ 0 \in 0 .. n - 1 /\ m + 1 \in 0 .. n - 1 /\ \A k \in 1 .. m : k \in 0 .. n - 1
       /\ r.id # NoID => m + 2 \in 0 .. n - 1
       /\ 0 + 1 = 1 /\ (m + 1) + 1 = m + 2 /\ (m + 2) + 1 = m + 3
  BY <1>11
<1>f. PICK first : first = i - Cardinality(Own(i)) + 1
  OBVIOUS
<1>14. /\ output[first + 0].line = text[1] /\ output[first + (m + 1)].line = text[m + 2]
       /\ \A k \in 1 .. m : output[first + k].line = text[k + 1]
       /\ r.id # NoID => output[first + (m + 2)].line = text[m + 3]
  BY <1>9, <1>13, <1>f
<1>15. Cardinality(Own(i)) = m + (IF r.id = NoID THEN 3 ELSE 4)
  BY <1>8, <1>11
<1>16. /\ Last(output[first + 0].line.key) = "msg"
       /\ Last(output[first + (m + 1)].line.key) = "arg"
  BY <1>11, <1>14
<1>17. \A k \in DOMAIN given :
         /\ Last(output[first + k].line.key) = given[k].name
         /\ IsPrefix(given[k].within, output[first + k].line.key)
  BY <1>11, <1>12, <1>14
<1>18. r.id # NoID => /\ Last(output[first + (m + 2)].line.key) = "request_id"
                      /\ output[first + (m + 2)].line.value = r.id
  BY <1>11, <1>14
<1> QED
  BY <1>15, <1>16, <1>17, <1>18, <1>by, <1>r, <1>g, <1>m, <1>f, ZenonT(60) DEF Shows

(* A whole record names each attribute its own logger was derived with, in *)
(* order and under the groups opened before it, and its own request id:    *)
(* RecordsShowTheirLogger of MCLogOutput.cfg, for any number of            *)
(* goroutines, loggers and records.                                        *)
THEOREM RecordsAreTheirLoggers == OutputSpec => []RecordsShowTheirLogger
<1>1. OutputInv /\ ShowsInv => RecordsShowTheirLogger
  BY WholeRecordShows, ShowsAt
<1> QED
  BY <1>1, ShowsInvariant, PTL

-----------------------------------------------------------------------------
(* Termination, as far as it is a matter of safety. *)

(* The steps the current call of Handle can still take, its lines among    *)
(* them.                                                                   *)
StepsLeft(g) ==
  CASE at[g] = "lock" -> Len(todo[g]) + 2 [] at[g] = "write" -> Len(todo[g]) + 1
    [] at[g] = "unlock" -> 1 [] OTHER -> 0

(* A goroutine that handles a record can go on, or waits for the mutex,    *)
(* and then one that can go on has it.                                     *)
NoHandleIsStuck ==
  \A g \in Goroutines :
    /\ at[g] = "write" => todo[g] # <<>>
    /\ at[g] = "lock" =>
         \A m \in held : m[1] = CurrentMutex(g) => m[2] # g /\ at[m[2]] \in {"write", "unlock"}

(* A step of Handle leaves its goroutine with less to do, and no other     *)
(* step gives a goroutine that handles a record more.                      *)
HandleAdvances ==
  \A g \in Goroutines : at[g] # "idle" =>
    \/ Handle(g) /\ StepsLeft(g)' < StepsLeft(g)
    \/ StepsLeft(g)' = StepsLeft(g) /\ at'[g] = at[g]

LEMMA StepsLeftAt ==
  ASSUME NEW g \in Goroutines
  PROVE  /\ at[g] = "lock" => StepsLeft(g) = Len(todo[g]) + 2
         /\ at[g] = "write" => StepsLeft(g) = Len(todo[g]) + 1
         /\ at[g] = "unlock" => StepsLeft(g) = 1
         /\ at[g] = "idle" => StepsLeft(g) = 0
         /\ at'[g] = "lock" => StepsLeft(g)' = Len(todo'[g]) + 2
         /\ at'[g] = "write" => StepsLeft(g)' = Len(todo'[g]) + 1
         /\ at'[g] = "unlock" => StepsLeft(g)' = 1
         /\ at'[g] = "idle" => StepsLeft(g)' = 0
BY DEF StepsLeft

LEMMA HandleLeavesLess ==
  ASSUME OutputInv, NEW g \in Goroutines, Handle(g)
  PROVE  StepsLeft(g)' < StepsLeft(g)
<1>1. /\ todo[g] \in Seq(Lines) /\ Len(todo[g]) \in Nat
      /\ at \in [Goroutines -> {"idle", "lock", "write", "unlock"}]
      /\ todo \in [Goroutines -> Seq(Lines)]
  BY DEF OutputInv, OutputTypeOK
<1>2. CASE Lock(g)
  <2>1. at[g] = "lock" /\ at'[g] = "write" /\ todo' = todo
    BY <1>1, <1>2 DEF Lock, Goto
  <2> QED
    BY <1>1, <2>1, StepsLeftAt
<1>3. CASE WriteLine(g)
  <2>1. Len(todo[g]) > 0
    BY <1>3 DEF WriteLine, OutputInv, GoroutinesInv, Pending
  <2>2. /\ at[g] = "write" /\ at'[g] = IF Len(todo[g]) = 1 THEN "unlock" ELSE "write"
        /\ todo'[g] = Tail(todo[g])
    BY <1>1, <1>3 DEF WriteLine, Goto
  <2>3. Len(todo'[g]) = Len(todo[g]) - 1
    BY <1>1, <2>1, <2>2
  <2> QED
    BY <1>1, <2>1, <2>2, <2>3, StepsLeftAt
<1>4. CASE WriteFails(g)
  <2>1. Len(todo[g]) > 0
    BY <1>4 DEF WriteFails, OutputInv, GoroutinesInv, Pending
  <2>2. at[g] = "write" /\ at'[g] = "unlock"
    BY <1>1, <1>4 DEF WriteFails, ReturnError, Goto
  <2> QED
    BY <1>1, <2>1, <2>2, StepsLeftAt
<1>5. CASE Unlock(g)
  <2>1. at[g] = "unlock" /\ at'[g] = "idle"
    BY <1>1, <1>5 DEF Unlock, Goto
  <2> QED
    BY <2>1, StepsLeftAt
<1> QED
  BY <1>2, <1>3, <1>4, <1>5 DEF Handle

LEMMA OthersStayPut ==
  ASSUME OutputTypeOK, NEW g \in Goroutines, NEW d \in Goroutines, at[g] # "idle",
         \/ \E i \in DOMAIN handlers : With(i)
         \/ \E i \in DOMAIN handlers : \E id \in {NoID, d} : Log(d, i, id)
         \/ g # d /\ Handle(d)
  PROVE  StepsLeft(g)' = StepsLeft(g) /\ at'[g] = at[g]
<1>1. at'[g] = at[g] /\ todo'[g] = todo[g]
  BY DEF OutputTypeOK, With, Derive, Log, Handle, Lock, WriteLine, WriteFails, Unlock,
    ReturnError, Goto
<1> QED
  BY <1>1 DEF StepsLeft

(* Whatever is logged and derived beside it and whatever writes fail, a    *)
(* call of Handle takes at most as many steps as its record has lines, and *)
(* two; it waits only for a goroutine that can go on, as no Handle keeps   *)
(* the mutex or asks for one it has.                                       *)
THEOREM HandlesRunOut ==
  OutputSpec => []NoHandleIsStuck /\ [][HandleAdvances]_outputVars
<1>1. OutputInv => NoHandleIsStuck
  <2> SUFFICES ASSUME OutputInv, NEW g \in Goroutines
               PROVE  /\ at[g] = "write" => todo[g] # <<>>
                      /\ at[g] = "lock" =>
                           \A m \in held : m[1] = CurrentMutex(g) =>
                                             m[2] # g /\ at[m[2]] \in {"write", "unlock"}
    BY DEF NoHandleIsStuck
  <2>1. at[g] = "write" => Len(todo[g]) > 0
    BY DEF OutputInv, GoroutinesInv, Pending
  <2>2. \A m \in held : at[m[2]] \in {"write", "unlock"}
    BY DEF OutputInv, MutexInv, HasMutex
  <2>3. at[g] = "write" => todo[g] # <<>>
    BY <2>1
  <2> QED
    BY <2>2, <2>3
<1>2. ASSUME OutputInv, [OutputNext]_outputVars
      PROVE  [HandleAdvances]_outputVars
  <2> SUFFICES ASSUME OutputNext, NEW g \in Goroutines, at[g] # "idle"
               PROVE  \/ Handle(g) /\ StepsLeft(g)' < StepsLeft(g)
                      \/ StepsLeft(g)' = StepsLeft(g) /\ at'[g] = at[g]
    BY <1>2 DEF HandleAdvances
  <2>1. OutputTypeOK
    BY <1>2 DEF OutputInv
  <2>2. CASE \E i \in DOMAIN handlers : With(i)
    BY <2>1, <2>2, OthersStayPut
  <2>3. ASSUME NEW d \in Goroutines, NEW i \in DOMAIN handlers, NEW id \in {NoID, d},
               Log(d, i, id)
        PROVE  StepsLeft(g)' = StepsLeft(g) /\ at'[g] = at[g]
    BY <2>1, <2>3, OthersStayPut
  <2>4. CASE Handle(g)
    BY <1>2, <2>4, HandleLeavesLess
  <2>5. ASSUME NEW d \in Goroutines, d # g, Handle(d)
        PROVE  StepsLeft(g)' = StepsLeft(g) /\ at'[g] = at[g]
    BY <2>1, <2>5, OthersStayPut
  <2> QED
    BY <2>2, <2>3, <2>4, <2>5 DEF OutputNext
<1> QED
  BY <1>1, <1>2, OutputInvariant, PTL DEF OutputSpec
=============================================================================
