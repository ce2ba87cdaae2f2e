------------------------------ MODULE MCResp3 ------------------------------
(* Values of every kind, representable or not, and aggregates two deep. *)
EXTENDS SealedResp3

Line(kind, str) == [kind |-> kind, str |-> str]
Items(kind, items) == [kind |-> kind, items |-> items]

Lines ==
  {Line(kind, str) : kind \in {"+", "-", "("}, str \in {<<>>, <<"a">>, <<"a", "CR">>, <<"a", "LF", "_">>}}
    \cup {Line(":", <<"7">>), Line(":", <<"-", "1", "0">>), Line(",", <<"7">>), Line(",", <<"-", "0">>)}
    \cup {Line("#", <<"t">>), Line("#", <<"f">>), Line("_", <<>>)}

Blobs ==
  {Line(kind, str) : kind \in {"$", "!"}, str \in {<<>>, <<"CR", "LF">>, [i \in 1 .. 10 |-> "1"]}}
    \cup {[kind |-> "=", format |-> f, str |-> <<"a", ":">>] : f \in {<<>>, <<"t">>, <<"t", ":">>}}

Scalars == {Line(":", <<"7">>), Line("_", <<>>), Line("$", <<"CR">>), Line("-", <<"a", "LF">>)}

Small == {<<>>} \cup {<<a>> : a \in Scalars} \cup {<<a, b>> : a, b \in Scalars}

Flat == {Items(kind, s) : kind \in SequenceKinds \cup {"|"}, s \in Small}
          \cup {Items("%", s) : s \in {t \in Small : Len(t) # 1}}

MCValues ==
  Lines \cup Blobs \cup Flat
    \cup {Items("*", <<v, w>>) : v \in Flat, w \in Scalars}
    \cup {Items("|", <<w, v, Items("%", <<v, w>>)>>) : v \in Flat, w \in {Line(":", <<"7">>)}}

NoValues == {}
=============================================================================
