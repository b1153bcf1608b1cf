-------------------------------- MODULE Text --------------------------------
(***************************************************************************)
(* The text functions the plan builder rests on: matching a path against a *)
(* pattern (glob_match), bringing a manifest's path into the workspace     *)
(* (normalize_relative), the directories above it (ancestor_directories)   *)
(* and filling parameters into a payload (substitute).  A text is a        *)
(* sequence of symbols.                                                    *)
(***************************************************************************)
EXTENDS Integers, SequencesExt

CONSTANTS Symbol,          \* what a text is made of
          Blanks,          \* spaces and tabs
          Initials, Digits \* letters and "_"; what else a name may have in it

Quote == "\""
LeftBrace == "{"
RightBrace == "}"
Braces == {LeftBrace, RightBrace}

ASSUME SymbolAssumption ==
  /\ {"/", ".", Quote} \cup Braces \subseteq Symbol
  /\ "end" \notin Symbol
ASSUME NameAssumption ==
  /\ Blanks \cup Initials \cup Digits \subseteq Symbol
  /\ Blanks \cap (Initials \cup Digits) = {}
  /\ (Blanks \cup Initials \cup Digits) \cap ({Quote} \cup Braces) = {}

At(text, i) == IF i \in DOMAIN text THEN text[i] ELSE "end"

-----------------------------------------------------------------------------
(* glob_match.  A place is how much of the pattern and of the path has     *)
(* been consumed; starP and starS are where the pattern goes on after the  *)
(* last `**`, and how far the path had been consumed then.                 *)
NoStar == -1
Place(pattern, path) ==
  [p : 0 .. Len(pattern), s : 0 .. Len(path),
   starP : NoStar .. Len(pattern), starS : 0 .. Len(path)]

\* A call on what is left of both, and the loop after a `**`.
Afresh(p, s) == [p |-> p, s |-> s, starP |-> NoStar, starS |-> 0]
InTree(p, s) == [p |-> p, s |-> s, starP |-> p, starS |-> s]

Fits(symbol, c) == symbol = c \/ (symbol = "?" /\ c # "/")
Doubled(pattern, p) == At(pattern, p + 1) = "*" /\ At(pattern, p + 2) = "*"

\* Where match_here goes on from a place with some of the path left.
Moves(pattern, path, at) ==
  LET symbol == At(pattern, at.p + 1)
      ZeroDirectories ==
        IF At(pattern, at.p + 3) = "/" THEN {Afresh(at.p + 3, at.s)} ELSE {}
      OneMore == IF path[at.s + 1] # "/" THEN {[at EXCEPT !.s = @ + 1]} ELSE {}
      Reenter ==
        IF at.starP # NoStar /\ at.starS < Len(path) THEN {InTree(at.starP, at.starS + 1)} ELSE {}
  IN CASE Doubled(pattern, at.p) -> ZeroDirectories \cup {InTree(at.p + 2, at.s)}
       [] symbol = "*" /\ ~Doubled(pattern, at.p) -> {Afresh(at.p + 1, at.s)} \cup OneMore
       [] symbol # "*" /\ Fits(symbol, path[at.s + 1]) -> {[at EXCEPT !.p = @ + 1, !.s = @ + 1]}
       [] symbol # "*" /\ ~Fits(symbol, path[at.s + 1]) -> Reenter

\* Whether the matcher accepts, from each place.
MatchFrom(pattern, path) ==
  LET matches[at \in Place(pattern, path)] ==
        IF at.s = Len(path) THEN \A i \in at.p + 1 .. Len(pattern) : pattern[i] = "*"
        ELSE \E next \in Moves(pattern, path, at) : matches[next]
  IN matches

MatchHere(pattern, path) == MatchFrom(pattern, path)[Afresh(0, 0)]

EndsInTree(pattern) == IsSuffix(<<"/", "*", "*">>, pattern)

GlobMatchTreeOnly(pattern, path) ==
  /\ pattern # << >>
  /\ \/ pattern \in {<<"*">>, <<"*", "*">>}
     \/ MatchHere(pattern, path)
GlobMatchPrefix(pattern, path) ==
  /\ pattern # << >>
  /\ \/ pattern \in {<<"*">>, <<"*", "*">>}
     \/ (EndsInTree(pattern) /\ IsPrefix(SubSeq(pattern, 1, Len(pattern) - 3), path))
     \/ MatchHere(pattern, path)
GlobMatch(pattern, path) ==
  /\ pattern # << >>
  /\ \/ pattern \in {<<"*">>, <<"*", "*">>}
     \/ (EndsInTree(pattern) /\ path = SubSeq(pattern, 1, Len(pattern) - 3))
     \/ MatchHere(pattern, path)

-----------------------------------------------------------------------------
(* Paths.                                                                  *)
\* split_path, symbol by symbol: c comes after `before`.
WithSymbol(parts, before, c) ==
  IF c = "/" THEN parts
  ELSE IF before \in {"/", "end"} THEN Append(parts, <<c>>)
  ELSE [parts EXCEPT ![Len(parts)] = Append(@, c)]

\* The parts of each beginning of a path.
PartsTo(path) ==
  LET parts[n \in 0 .. Len(path)] ==
        IF n = 0 THEN << >> ELSE WithSymbol(parts[n - 1], At(path, n - 1), path[n])
  IN parts
Parts(path) == PartsTo(path)[Len(path)]

WithPart(path, part) == IF path = << >> THEN part ELSE path \o <<"/">> \o part
JoinTo(parts) ==
  LET joined[n \in 0 .. Len(parts)] ==
        IF n = 0 THEN << >> ELSE WithPart(joined[n - 1], parts[n])
  IN joined
Join(parts) == JoinTo(parts)[Len(parts)]

Dot == <<".">>
DotDot == <<".", ".">>

WithKept(kept, part) == IF part = Dot THEN kept ELSE Append(kept, part)
KeptTo(parts) ==
  LET kept[n \in 0 .. Len(parts)] ==
        IF n = 0 THEN << >> ELSE WithKept(kept[n - 1], parts[n])
  IN kept
Kept(parts) == KeptTo(parts)[Len(parts)]

Flattened(path) == [i \in DOMAIN path |-> IF path[i] = "\\" THEN "/" ELSE path[i]]

\* A drive letter is looked for in the text as it is written.
Absolute(path) == At(path, 1) \in {"/", "\\"} \/ At(path, 2) = ":"

\* A plausible bug: what would leave the workspace is not looked for.
NormalizeClimbing(path) ==
  IF path = << >> \/ Absolute(path) THEN << >> ELSE Join(Kept(Parts(Flattened(path))))
\* The empty text where nothing inside the workspace is named.
Normalize(path) ==
  LET parts == Parts(Flattened(path))
  IN IF path = << >> \/ Absolute(path) \/ Contains(parts, DotDot) THEN << >>
     ELSE Join(Kept(parts))

AncestorsDeepestFirst(path) ==
  LET parts == Parts(path)
  IN [i \in 1 .. Len(parts) - 1 |-> Join(SubSeq(parts, 1, Len(parts) - i))]
Ancestors(path) ==
  LET parts == Parts(path)
  IN [i \in 1 .. Len(parts) - 1 |-> Join(SubSeq(parts, 1, i))]

-----------------------------------------------------------------------------
(* substitute.  A parameter's value is the text it is written as, None     *)
(* when there is none, Unwritable when it is a list or an object.          *)
None == <<"none">>
Unwritable == <<"unwritable">>
Constituents == Initials \cup Digits

Trim(token) ==
  LET kept == {i \in DOMAIN token : token[i] \notin Blanks}
  IN IF kept = {} THEN << >>
     ELSE SubSeq(token, CHOOSE i \in kept : \A j \in kept : i <= j,
                        CHOOSE i \in kept : \A j \in kept : j <= i)

IdentifierLoose(token) == token # << >> /\ \A i \in DOMAIN token : token[i] \notin Blanks \cup Braces
Identifier(token) ==
  token # << >> /\ token[1] \in Initials /\ \A i \in DOMAIN token : token[i] \in Constituents

\* Where the first closing pair at or after i is; 0 when there is none.
Closing(text, i) ==
  LET at == {j \in i .. Len(text) - 1 : text[j] = RightBrace /\ text[j + 1] = RightBrace}
  IN IF at = {} THEN 0 ELSE CHOOSE j \in at : \A k \in at : j <= k

BracePair == <<LeftBrace, LeftBrace>>
Escape == <<Quote>> \o BracePair \o <<Quote>>

Error(code) == [ok |-> FALSE, text |-> <<code>>]
Written(text) == [ok |-> TRUE, text |-> text]

ValueAt(valueOf, token) == IF token \in DOMAIN valueOf THEN valueOf[token] ELSE None

\* The loop body: i is the next symbol, out what was written so far.
Iteration(text, valueOf, loop) ==
  LET i == loop.i
      opens == At(text, i) = LeftBrace /\ At(text, i + 1) = LeftBrace
      close == IF opens THEN Closing(text, i + 2) ELSE 0
      token == Trim(SubSeq(text, i + 2, close - 1))
      value == ValueAt(valueOf, token)
      Go(j, more) == [loop EXCEPT !.i = j, !.out = @ \o more]
      Fail(code) == [loop EXCEPT !.error = code]
  IN CASE i > Len(text) \/ loop.error # "none" -> loop
       [] i <= Len(text) /\ loop.error = "none" ->
            CASE close = 0 -> Go(i + 1, <<text[i]>>)
              [] close # 0 /\ token = Escape -> Go(close + 2, BracePair)
              [] close # 0 /\ token # Escape /\ ~Identifier(token) -> Go(i + 1, <<text[i]>>)
              [] close # 0 /\ token # Escape /\ Identifier(token) ->
                   CASE value = None -> Fail("template.parameter.missing")
                     [] value = Unwritable -> Fail("template.parameter.invalid")
                     [] OTHER -> Go(close + 2, value)

\* Every iteration consumes a symbol, so there are no more than symbols.
LoopAfter(text, valueOf) ==
  LET after[n \in 0 .. Len(text)] ==
        IF n = 0 THEN [i |-> 1, out |-> << >>, error |-> "none"]
        ELSE Iteration(text, valueOf, after[n - 1])
  IN after

Substitute(text, valueOf) ==
  LET loop == LoopAfter(text, valueOf)[Len(text)]
  IN IF loop.error = "none" THEN Written(loop.out) ELSE Error(loop.error)
=============================================================================
