------------------------------ MODULE TextCalls ------------------------------
(***************************************************************************)
(* Calls of the text functions, and what their headers and comments say of *)
(* what they answer: which paths a pattern describes, what a workspace     *)
(* path is, which placeholders a payload has.                              *)
(***************************************************************************)
EXTENDS Text

CONSTANTS Patterns, Paths, \* what glob_match is asked, Paths also ancestor_directories
          RawPaths,        \* what normalize_relative is given
          Contents, Values \* what substitute is given

\* Paths are matched and created once they are normalized.
Tidy(path) == /\ path[1] # "/" /\ path[Len(path)] # "/"
              /\ \A i \in 1 .. Len(path) - 1 : path[i] # "/" \/ path[i + 1] # "/"

ASSUME PatternsAssumption == Patterns \subseteq Seq(Symbol)
ASSUME PathsAssumption ==
  Paths \subseteq Seq(Symbol) \ {<< >>} /\ \A path \in Paths : Tidy(path)
ASSUME RawPathsAssumption == RawPaths \subseteq Seq(Symbol)
ASSUME ContentsAssumption ==
  /\ Contents \subseteq Seq(Symbol)
  /\ \A name \in DOMAIN Values : Values[name] \in Seq(Symbol) \cup {None, Unwritable}

VARIABLES subject, \* the function that is called
          text,    \* what it is called with
          answer   \* << >>, then what it returned; for a pattern, the paths it matches

Init ==
  /\ answer = << >>
  /\ \/ subject = "glob" /\ text \in Patterns
     \/ subject = "normalize" /\ text \in RawPaths
     \/ subject = "ancestors" /\ text \in Paths
     \/ subject = "substitute" /\ text \in Contents

Returns(value) == answer = << >> /\ answer' = <<value>> /\ UNCHANGED <<subject, text>>
CallGlob == subject = "glob" /\ Returns({path \in Paths : GlobMatch(text, path)})
CallNormalize == subject = "normalize" /\ Returns(Normalize(text))
CallAncestors == subject = "ancestors" /\ Returns(Ancestors(text))
CallSubstitute == subject = "substitute" /\ Returns(Substitute(text, Values))
Next == CallGlob \/ CallNormalize \/ CallAncestors \/ CallSubstitute
Spec == Init /\ [][Next]_<<subject, text, answer>>

Answered(function) == subject = function /\ answer # << >>
Result == answer[1]

-----------------------------------------------------------------------------
(* Patterns, as support.hpp documents them.  A reading is at a place in    *)
(* both; what it goes on to is what the next symbols may describe.         *)
Spot(pattern, path) == [p : 0 .. Len(pattern), s : 0 .. Len(path)]
Segment(path, s) == {k \in s .. Len(path) : \A i \in s + 1 .. k : path[i] # "/"}

Readings(pattern, path, at) ==
  LET symbol == At(pattern, at.p + 1)
      To(p, s) == [p |-> p, s |-> s]
  IN CASE Doubled(pattern, at.p) ->
            {To(at.p + 2, k) : k \in at.s .. Len(path)}
            \cup (IF At(pattern, at.p + 3) = "/" THEN {To(at.p + 3, at.s)} ELSE {})
       [] symbol = "*" /\ ~Doubled(pattern, at.p) ->
            {To(at.p + 1, k) : k \in Segment(path, at.s)}
       [] symbol # "*" ->
            IF at.s < Len(path) /\ Fits(symbol, path[at.s + 1])
            THEN {To(at.p + 1, at.s + 1)} ELSE {}

DescribedFrom(pattern, path) ==
  LET describes[at \in Spot(pattern, path)] ==
        IF at.p = Len(pattern) THEN at.s = Len(path)
        ELSE \E next \in Readings(pattern, path, at) : describes[next]
  IN describes

Documented(pattern, path) == DescribedFrom(pattern, path)[[p |-> 0, s |-> 0]]

Directory(pattern) == SubSeq(pattern, 1, Len(pattern) - 3)
Promised(pattern, path) ==
  \/ Documented(pattern, path)
  \/ EndsInTree(pattern) /\ Documented(Directory(pattern), path)

\* The patterns the matcher is complete for: no run of three stars, no `*` after a
\* `**`, nothing but plain text before a closing `/**`, no separator at the end, and
\* a `**/` after another `**` stands for whole directories.
TreeAt(pattern, i) == pattern[i] = "*" /\ At(pattern, i + 1) = "*"
SingleAt(pattern, i) == pattern[i] = "*" /\ At(pattern, i - 1) # "*" /\ At(pattern, i + 1) # "*"
TripleStar(pattern) == \E i \in DOMAIN pattern : TreeAt(pattern, i) /\ At(pattern, i + 2) = "*"
Plain(pattern) == ~Contains(pattern, "*") /\ ~Contains(pattern, "?")

Covered(pattern) ==
  /\ pattern \notin {<< >>, <<"*">>}
  /\ ~TripleStar(pattern)
  /\ \A i, j \in DOMAIN pattern : TreeAt(pattern, i) /\ SingleAt(pattern, j) => j < i
  /\ EndsInTree(pattern) => Plain(Directory(pattern))
  /\ pattern[Len(pattern)] # "/"
  /\ \A i, j \in DOMAIN pattern :
       i < j /\ TreeAt(pattern, i) /\ TreeAt(pattern, j) /\ At(pattern, j + 2) = "/"
         => pattern[j - 1] = "/"

\* What support.hpp documents: `*` stays within a segment, `**` crosses separators,
\* so every path the pattern describes is matched.
GlobAsDocumented ==
  Answered("glob") /\ ~TripleStar(text) =>
    \A path \in Paths : Documented(text, path) => path \in Result

\* A path is never claimed by a pattern that does not describe it: ownership and
\* exclusion rules reach no file their author did not name (support.cpp 58-125).
GlobSound ==
  Answered("glob") /\ text # <<"*">> => \A path \in Result : Promised(text, path)

\* The matcher's backtracking, which remembers one `**`, loses no path that a
\* covered pattern describes.
GlobComplete ==
  Answered("glob") /\ Covered(text) => \A path \in Paths \ Result : ~Promised(text, path)

-----------------------------------------------------------------------------
(* Paths.                                                                  *)
Inside(path) ==
  LET parts == Parts(path)
  IN /\ path = Join(parts)
     /\ ~Absolute(path) /\ ~Contains(path, "\\")
     /\ \A i \in DOMAIN parts : parts[i] \notin {<<".">>, <<".", ".">>}

\* A drive letter that only comes to the front once "." parts are gone.
HiddenDrive(path) == At(Parts(Flattened(path)), 1) = <<".">> /\ Contains(path, ":")

\* What normalize_relative lets through names a place below the root in the one
\* spelling every table of the plan is keyed by: normalising it again changes
\* nothing.
NormalizedIsCanonical ==
  Answered("normalize") /\ Result # << >> /\ ~HiddenDrive(text) =>
    Inside(Result) /\ Normalize(Result) = Result

\* normalize_relative refuses a path exactly when it is absolute, climbs, or names
\* the root itself: its comment's promise, drive letters included.
DriveLettersRefused ==
  Answered("normalize") => ~Absolute(Result)

\* The directories created for a file are every proper prefix of its path that ends
\* before a separator, each after the one that holds it.
AncestorsExact ==
  Answered("ancestors") =>
    /\ ToSet(Result) = {SubSeq(text, 1, i - 1) : i \in {j \in DOMAIN text : text[j] = "/"}}
    /\ \A i, j \in DOMAIN Result : i < j => IsStrictPrefix(Result[i], Result[j])

-----------------------------------------------------------------------------
(* Payloads.                                                               *)
Name(token) == token # << >> /\ token[1] \in Initials /\ ToSet(token) \subseteq Constituents
\* Where a placeholder or an escape stands: the first closing pair after an opening
\* one, with one name between them.
Placeholder(i, j) ==
  /\ i + 3 <= j /\ j \in DOMAIN text
  /\ SubSeq(text, i, i + 1) = BracePair /\ SubSeq(text, j - 1, j) = <<RightBrace, RightBrace>>
  /\ \A k \in i + 2 .. j - 2 : SubSeq(text, k, k + 1) # <<RightBrace, RightBrace>>
  /\ LET token == Trim(SubSeq(text, i + 2, j - 2))
     IN token = Escape \/ Name(token)
Token(p) == Trim(SubSeq(text, p[1] + 2, p[2] - 2))
Placeholders ==
  {p \in (DOMAIN text) \X (DOMAIN text) : Placeholder(p[1], p[2])}
Faulty == {p \in Placeholders : Token(p) # Escape /\ ValueAt(Values, Token(p)) \in {None, Unwritable}}
Filled(i) ==
  IF \E p \in Placeholders : p[1] = i
  THEN LET p == CHOOSE q \in Placeholders : q[1] = i
       IN IF Token(p) = Escape THEN BracePair ELSE ValueAt(Values, Token(p))
  ELSE IF \E p \in Placeholders : p[1] < i /\ i <= p[2] THEN << >> ELSE <<text[i]>>

\* substitute fills in exactly the placeholders, each once and none out of a value
\* it filled in, leaves braces of the payload's own language as they are, and
\* fails at the first placeholder that has no text.
SubstituteExact ==
  Answered("substitute") =>
    Result =
      IF Faulty = {} THEN Written(FlattenSeq([i \in DOMAIN text |-> Filled(i)]))
      ELSE LET first == CHOOSE p \in Faulty : \A q \in Faulty : p[1] <= q[1]
           IN Error(IF ValueAt(Values, Token(first)) = None THEN "template.parameter.missing"
                    ELSE "template.parameter.invalid")
=============================================================================
