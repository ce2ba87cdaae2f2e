------------------------------- MODULE Resp3 -------------------------------
(***************************************************************************)
(* enums/tagged_union/resp3.go: values of the RESP3 protocol, Serialize    *)
(* and Parse, and a reader that calls Parse again whenever more bytes have *)
(* come, for which the parser has ErrIncomplete.  A byte is a token: a     *)
(* marker, a sign, a digit, "CR", "LF" or another character.  A value's    *)
(* kind is its marker; the pairs of a map are its items in turn, and the   *)
(* inner value of an attribute follows them.  A double is a whole number   *)
(* of up to six digits, and no number leaves the width of its type.        *)
(***************************************************************************)
EXTENDS Naturals, SequencesExt

CONSTANTS
  Values,   \* values a peer may send
  Noise,    \* tokens a peer may send that sends no value
  MaxNoise  \* the most of them

VARIABLES
  sent,   \* the value that is being sent as <<value>>, or <<>> for noise
  buffer, \* the bytes read so far
  result  \* what Parse said of them

wireVars == <<sent, buffer, result>>

LineKinds == {"+", "-", ":", "(", ",", "#", "_"}
BlobKinds == {"$", "!", "="}
SequenceKinds == {"*", "~", ">"}
PairKinds == {"%", "|"}

CRLF == <<"CR", "LF">>

(* strconv: the decimal text of a number, and what such a text is read as. *)
RECURSIVE Decimal(_)
Decimal(n) ==
  IF n < 10 THEN <<ToString(n)>> ELSE Decimal(n \div 10) \o <<ToString(n % 10)>>

IsNegative(text) == text # <<>> /\ text[1] = "-"
Unsigned(text) == IF text # <<>> /\ text[1] \in {"+", "-"} THEN Tail(text) ELSE text

Digit == [c \in {ToString(d) : d \in 0 .. 9} |-> CHOOSE d \in 0 .. 9 : ToString(d) = c]

IsNumber(text) == Unsigned(text) # <<>> /\ Range(Unsigned(text)) \subseteq DOMAIN Digit
Magnitude(text) == FoldLeft(LAMBDA n, c : 10 * n + Digit[c], 0, Unsigned(text))

-----------------------------------------------------------------------------
(* Serialize. *)

(* Mutant: the length of a verbatim string leaves its format out. *)
WriteBlobOfText(v) ==
  LET payload == IF v.kind = "=" THEN v.format \o <<":">> \o v.str ELSE v.str
  IN  <<v.kind>> \o Decimal(Len(v.str)) \o CRLF \o payload \o CRLF

writeBlob(v) ==
  LET payload == IF v.kind = "=" THEN v.format \o <<":">> \o v.str ELSE v.str
  IN  <<v.kind>> \o Decimal(Len(payload)) \o CRLF \o payload \o CRLF

Count(v) == IF v.kind \in PairKinds THEN Len(v.items) \div 2 ELSE Len(v.items)

RECURSIVE Serialize(_)
Serialize(v) ==
  CASE v.kind \in LineKinds -> <<v.kind>> \o v.str \o CRLF
    [] v.kind \in BlobKinds -> writeBlob(v)
    [] OTHER -> <<v.kind>> \o Decimal(Count(v)) \o CRLF
                  \o FlattenSeq([i \in DOMAIN v.items |-> Serialize(v.items[i])])

-----------------------------------------------------------------------------
(* Parse.  A parser returns an error or a value, and where it stopped. *)

Ok(value, pos) == [err |-> "none", value |-> value, pos |-> pos]
Incomplete == [err |-> "incomplete"]
Invalid == [err |-> "invalid"]

(* The early return of every caller. *)
Then(r, next(_)) == IF r.err = "none" THEN next(r) ELSE r

(* Mutant: what is left of the data is a line. *)
ReadLineToEnd(data, pos) ==
  LET ends == {i \in pos .. Len(data) : data[i] = "LF"}
      end == IF ends = {} THEN Len(data) + 1 ELSE Min(ends)
      line == SubSeq(data, pos, end - 1)
  IN  Ok(IF line # <<>> /\ Last(line) = "CR" THEN Front(line) ELSE line, end + 1)

readLine(data, pos) ==
  LET ends == {i \in pos .. Len(data) : data[i] = "LF"}
      end == Min(ends)
      line == SubSeq(data, pos, end - 1)
  IN  IF ends = {} THEN Incomplete
      ELSE Ok(IF line # <<>> /\ Last(line) = "CR" THEN Front(line) ELSE line, end + 1)

readCount(data, pos) ==
  Then(readLine(data, pos), LAMBDA r :
    LET n == Magnitude(r.value)
    IN  IF ~IsNumber(r.value) \/ (IsNegative(r.value) /\ n # 0) THEN Invalid ELSE Ok(n, r.pos))

consumeCRLF(data, pos) ==
  IF pos < Len(data) /\ data[pos] = "CR" /\ data[pos + 1] = "LF"
    THEN Ok(<<>>, pos + 2) ELSE Incomplete

(* Mutant: as many bytes as there are. *)
ReadBytesAvailable(data, pos, n) ==
  LET end == Min({pos + n, Len(data) + 1})
  IN  Ok(SubSeq(data, pos, end - 1), end)

readBytes(data, pos, n) ==
  IF pos + n > Len(data) + 1 THEN Incomplete
  ELSE Then(consumeCRLF(data, pos + n), LAMBDA r : Ok(SubSeq(data, pos, pos + n - 1), r.pos))

(* A number is written in its shortest form; of a double that has a sign   *)
(* for zero too.                                                           *)
canonical(kind, line) ==
  (IF IsNegative(line) /\ (Magnitude(line) # 0 \/ kind = ",") THEN <<"-">> ELSE <<>>)
    \o Decimal(Magnitude(line))

lineValue(kind, line) ==
  CASE kind \in {"+", "-", "("} -> Ok([kind |-> kind, str |-> line], 0)
    [] kind = "_" -> Ok([kind |-> kind, str |-> <<>>], 0)
    [] kind = "#" -> IF line \in {<<"t">>, <<"f">>} THEN Ok([kind |-> kind, str |-> line], 0)
                     ELSE Invalid
    [] OTHER -> IF IsNumber(line) THEN Ok([kind |-> kind, str |-> canonical(kind, line)], 0)
                ELSE Invalid

(* strings.Cut: the format ends at the first colon. *)
blobValue(kind, payload) ==
  LET colons == {i \in DOMAIN payload : payload[i] = ":"}
  IN  IF kind # "=" THEN Ok([kind |-> kind, str |-> payload], 0)
      ELSE IF colons = {} THEN Invalid
      ELSE Ok([kind |-> kind, format |-> SubSeq(payload, 1, Min(colons) - 1),
               str |-> SubSeq(payload, Min(colons) + 1, Len(payload))], 0)

(* How many values follow the count of an aggregate. *)
Size(kind, n) == CASE kind = "%" -> 2 * n [] kind = "|" -> 2 * n + 1 [] OTHER -> n

At(r, pos) == IF r.err = "none" THEN Ok(r.value, pos) ELSE r

RECURSIVE parseValue(_, _), parseItems(_, _, _)

parseItems(data, pos, n) ==
  IF n = 0 THEN Ok(<<>>, pos)
  ELSE Then(parseValue(data, pos), LAMBDA r :
         Then(parseItems(data, r.pos, n - 1), LAMBDA rest :
           Ok(<<r.value>> \o rest.value, rest.pos)))

parseValue(data, pos) ==
  IF pos > Len(data) THEN Incomplete
  ELSE LET kind == data[pos] IN
    CASE kind \in LineKinds ->
           Then(readLine(data, pos + 1), LAMBDA r : At(lineValue(kind, r.value), r.pos))
      [] kind \in BlobKinds ->
           Then(readCount(data, pos + 1), LAMBDA c :
             Then(readBytes(data, c.pos, c.value), LAMBDA r : At(blobValue(kind, r.value), r.pos)))
      [] kind \in SequenceKinds \cup PairKinds ->
           Then(readCount(data, pos + 1), LAMBDA c :
             Then(parseItems(data, c.pos, Size(kind, c.value)), LAMBDA r :
               Ok([kind |-> kind, items |-> r.value], r.pos)))
      [] OTHER -> Invalid

(* Where the value ended is not told. *)
Parse(data) ==
  LET r == parseValue(data, 1)
  IN  IF r.err = "none" THEN [err |-> "none", value |-> r.value] ELSE r

-----------------------------------------------------------------------------
(* The reader. *)

WireInit ==
  /\ sent \in {<<v>> : v \in Values} \cup {<<>>}
  /\ buffer = <<>>
  /\ result = Parse(<<>>)

Receive(byte) ==
  /\ buffer' = Append(buffer, byte)
  /\ result' = Parse(buffer')
  /\ UNCHANGED sent

ReceiveSent ==
  /\ sent # <<>> /\ Len(buffer) < Len(Serialize(sent[1]))
  /\ Receive(Serialize(sent[1])[Len(buffer) + 1])

ReceiveNoise ==
  /\ sent = <<>> /\ Len(buffer) < MaxNoise
  /\ \E byte \in Noise : Receive(byte)

WireNext == ReceiveSent \/ ReceiveNoise

WireSpec == WireInit /\ [][WireNext]_wireVars

-----------------------------------------------------------------------------
(* Properties. *)

(* What the protocol can carry: a line has no LF, the format of a verbatim *)
(* string no colon, and an attribute has the value it is an attribute of.  *)
RECURSIVE Representable(_)
Representable(v) ==
  CASE v.kind \in LineKinds -> ~Contains(v.str, "LF")
    [] v.kind = "=" -> ~Contains(v.format, ":")
    [] v.kind \in BlobKinds -> TRUE
    [] OTHER -> /\ v.kind = "|" => Len(v.items) % 2 = 1
                /\ \A i \in DOMAIN v.items : Representable(v.items[i])

(* All bytes of a value parse to that value if it is representable, with   *)
(* any bytes in its blobs, and to no such value otherwise: Serialize       *)
(* refuses nothing.                                                        *)
RoundTrips ==
  sent # <<>> /\ buffer = Serialize(sent[1]) =>
    (result = [err |-> "none", value |-> sent[1]] <=> Representable(sent[1]))

(* A reader that has only part of a value is told to go on reading: no     *)
(* part of a value, however nested, is taken for a value or for an error.  *)
PartsAreIncomplete ==
  sent # <<>> /\ Representable(sent[1]) /\ Len(buffer) < Len(Serialize(sent[1])) =>
    result.err = "incomplete"

(* What Parse has once answered, whether a value or an error, stands       *)
(* whatever bytes follow.                                                  *)
AnswerStands == [][result.err # "incomplete" => result' = result]_wireVars

(* Whatever bytes a value came from, it is serialized to bytes that give   *)
(* the same value: nothing that Parse accepts is beyond Serialize.         *)
ReparsesToItself ==
  result.err = "none" => Parse(Serialize(result.value)) = result

(* "incomplete data" (resp3.go:206): data that Parse calls incomplete lack *)
(* something, so that some continuation is a value or an error.  With the  *)
(* noise of the run that checks it, five more bytes always suffice: the    *)
(* only value is a bulk string of no bytes, which takes no more.           *)
IncompleteCanBeAnswered ==
  result.err = "incomplete" =>
    \E n \in 0 .. 5 : \E rest \in [1 .. n -> Noise] : Parse(buffer \o rest).err # "incomplete"
=============================================================================
