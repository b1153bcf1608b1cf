------------------------------- MODULE MCText -------------------------------
(* Every short pattern, path and payload, and longer patterns with two `**`. *)
EXTENDS TextCalls

CONSTANTS PatternLength, LongLength, PathLength, RawLength, Chunks

MCSymbol == {"x", "y", "1", "_", "/", "\\", ".", ":", "*", "?", " ", "{", "}", Quote}

Texts(symbols, n) == UNION {[1..k -> symbols] : k \in 1..n}
LongPatterns ==
  {p \in [1..LongLength -> {"x", "*", "/"}] :
     ~TripleStar(p) /\ Cardinality({i \in DOMAIN p : p[i] = "*"}) = 4}
MCPatterns == Texts({"x", "/", "*", "?"}, PatternLength) \cup LongPatterns
MCPaths == {p \in Texts({"x", "y", "/"}, PathLength) : Tidy(p)}
MCRawPaths == Texts({"x", "/", "\\", ".", ":"}, RawLength)
Pieces == {<<"{">>, <<"}">>, <<"x">>, <<"1">>, <<" ">>, BracePair, <<"}", "}">>, Escape}
MCContents == {FlattenSeq(pieces) : pieces \in Texts(Pieces, Chunks)}

\* The value of "x" looks like a placeholder itself; "x1" has none.
MCValues == [n \in {<<"x">>, <<"x", "x">>} |->
               IF n = <<"x">> THEN BracePair \o <<"x", "}", "}">> ELSE Unwritable]
=============================================================================
