---------------------------- MODULE SealedResp3 ----------------------------
(***************************************************************************)
(* enums/sealed_interface/resp3.go: the other codec of the same protocol,  *)
(* with a Go type for every kind of value.  It reads and writes what the   *)
(* tagged union's does, beside the same reader.  A value of its own has    *)
(* its marker for the type; a map and an attribute keep pairs, and the     *)
(* value of an attribute is in a field of its own, which may be nil.  The  *)
(* readers of lines, counts and blobs are the same functions in both       *)
(* files, and so are the definitions.                                      *)
(***************************************************************************)
EXTENDS Resp3

Nil == [type |-> "nil"]

Text(type, value) == [type |-> type, value |-> value]
Verbatim(format, value) == [type |-> "=", format |-> format, value |-> value]
Aggregate(type, items) == [type |-> type, items |-> items]
Map(pairs) == [type |-> "%", pairs |-> pairs]
Attribute(pairs, value) == [type |-> "|", pairs |-> pairs, value |-> value]

-----------------------------------------------------------------------------
(* The methods Serialize. *)

header(type, n) == <<type>> \o Decimal(n) \o CRLF

serializeBlob(type, s) == header(type, Len(s)) \o s \o CRLF

RECURSIVE Bytes(_)

serializeAggregate(v) ==
  FoldLeft(LAMBDA out, item : out \o Bytes(item), header(v.type, Len(v.items)), v.items)

serializePairs(v) ==
  FoldLeft(LAMBDA out, kv : out \o Bytes(kv.key) \o Bytes(kv.value),
           header(v.type, Len(v.pairs)), v.pairs)

Bytes(v) ==
  CASE v.type \in LineKinds -> <<v.type>> \o v.value \o CRLF
    [] v.type \in {"$", "!"} -> serializeBlob(v.type, v.value)
    [] v.type = "=" -> serializeBlob(v.type, v.format \o <<":">> \o v.value)
    [] v.type \in SequenceKinds -> serializeAggregate(v)
    [] v.type = "%" -> serializePairs(v)
    [] v.type = "|" -> serializePairs(v) \o (IF v.value = Nil THEN <<>> ELSE Bytes(v.value))

-----------------------------------------------------------------------------
(* Parse. *)

(* A value is made of what a reader returned. *)
Made(r, make(_)) == Then(r, LAMBDA x : Ok(make(x.value), x.pos))

parseBlob(data, pos) ==
  Then(readCount(data, pos), LAMBDA c : readBytes(data, c.pos, c.value))

parseVerbatimString(data, pos) ==
  Then(parseBlob(data, pos), LAMBDA r :
    LET cut == SelectInSeq(r.value, LAMBDA byte : byte = ":")
    IN  IF cut = 0 THEN Invalid
        ELSE Ok(Verbatim(SubSeq(r.value, 1, cut - 1),
                         SubSeq(r.value, cut + 1, Len(r.value))), r.pos))

RECURSIVE typedValue(_, _), typedItems(_, _, _), typedPairs(_, _, _)

typedItems(data, pos, n) ==
  IF n = 0 THEN Ok(<<>>, pos)
  ELSE Then(typedValue(data, pos), LAMBDA item :
         Made(typedItems(data, item.pos, n - 1), LAMBDA rest : <<item.value>> \o rest))

typedPairs(data, pos, n) ==
  IF n = 0 THEN Ok(<<>>, pos)
  ELSE Then(typedValue(data, pos), LAMBDA k :
         Then(typedValue(data, k.pos), LAMBDA v :
           Made(typedPairs(data, v.pos, n - 1), LAMBDA rest :
             <<[key |-> k.value, value |-> v.value]>> \o rest)))

Counted(data, pos, read(_, _, _)) ==
  Then(readCount(data, pos), LAMBDA c : read(data, c.pos, c.value))

(* Mutant: an attribute is taken for a map. *)
AttributeAlone(data, pos) ==
  Made(Counted(data, pos, typedPairs), LAMBDA pairs : Attribute(pairs, Nil))

typedAttribute(data, pos) ==
  Then(Counted(data, pos, typedPairs), LAMBDA r :
    Made(typedValue(data, r.pos), LAMBDA inner : Attribute(r.value, inner)))

typedValue(data, pos) ==
  IF pos > Len(data) THEN Incomplete
  ELSE LET type == data[pos] IN
    CASE type \in LineKinds ->
           Then(readLine(data, pos + 1), LAMBDA line :
             Then(lineValue(type, line.value), LAMBDA v : Ok(Text(type, v.value.str), line.pos)))
      [] type \in {"$", "!"} -> Made(parseBlob(data, pos + 1), LAMBDA s : Text(type, s))
      [] type = "=" -> parseVerbatimString(data, pos + 1)
      [] type \in SequenceKinds ->
           Made(Counted(data, pos + 1, typedItems), LAMBDA items : Aggregate(type, items))
      [] type = "%" -> Made(Counted(data, pos + 1, typedPairs), Map)
      [] type = "|" -> typedAttribute(data, pos + 1)
      [] OTHER -> Invalid

-----------------------------------------------------------------------------
(* Properties. *)

(* The same value in the sealed types. *)
RECURSIVE Sealed(_)
Sealed(v) ==
  LET pairs == [i \in 1 .. Count(v) |->
                  [key |-> Sealed(v.items[2 * i - 1]), value |-> Sealed(v.items[2 * i])]]
  IN CASE v.kind \in LineKinds \cup {"$", "!"} -> Text(v.kind, v.str)
       [] v.kind = "=" -> Verbatim(v.format, v.str)
       [] v.kind \in SequenceKinds ->
            Aggregate(v.kind, [i \in DOMAIN v.items |-> Sealed(v.items[i])])
       [] v.kind = "%" -> Map(pairs)
       [] v.kind = "|" ->
            Attribute(pairs, IF Len(v.items) % 2 = 0 THEN Nil ELSE Sealed(Last(v.items)))

(* Either codec can be at either end: they give every string of bytes the  *)
(* same answer, the same value in their own types or the same error, and   *)
(* they write the same bytes for it (sealed_interface and tagged_union).   *)
CodecsAgree ==
  LET typed == typedValue(buffer, 1) IN
  /\ typed.err = result.err
  /\ result.err = "none" =>
       typed.value = Sealed(result.value) /\ Bytes(typed.value) = Serialize(result.value)
  /\ sent # <<>> => Bytes(Sealed(sent[1])) = Serialize(sent[1])
=============================================================================
