-------------------------------- MODULE Glob --------------------------------
(***************************************************************************)
(* Storage::fnmatch and Storage::rangematch: does a name match a pattern?  *)
(* Storage::list calls it with FNM_PERIOD, and fnmatch calls itself        *)
(* without; no other flag is ever set.  Characters are their ASCII codes,  *)
(* and a position beyond the end of a text reads as EOS.                   *)
(***************************************************************************)
EXTENDS Naturals, Sequences

CONSTANTS
    Patterns,   \* the texts to try, sequences of characters
    Names

EOS == 0   Bang == 33   Star == 42   Dash == 45   Dot == 46
Quest == 63   Open == 91   Escape == 92   Close == 93   Caret == 94

ASSUME GlobAssumption == Patterns \union Names \subseteq Seq(1 .. 127)

VARIABLES
    pattern,
    name

globVars == <<pattern, name>>

GlobInit ==
    /\ pattern \in Patterns
    /\ name \in Names

GlobSpec == GlobInit /\ [][UNCHANGED globVars]_globVars

-----------------------------------------------------------------------------

At(s, i) == IF i \in DOMAIN s THEN s[i] ELSE EOS

\* rangematch: the position after the bracket expression whose inside begins
\* at i, or 0 when test is not in it or it has no end.
RECURSIVE RangeFrom(_, _, _, _, _)
RangeFrom(p, i, test, ok, negate) ==
    LET quoted == At(p, i) = Escape
        j  == IF quoted THEN i + 1 ELSE i          \* where c is
        c  == At(p, j)
        d  == At(p, j + 2)
        k  == IF d = Escape THEN j + 3 ELSE j + 2  \* where c2 is
        c2 == At(p, k)
    IN  IF c = Close /\ ~quoted THEN IF ok = negate THEN 0 ELSE i + 1
        ELSE IF c = EOS THEN 0
        ELSE IF At(p, j + 1) = Dash /\ d \notin {EOS, Close}
        THEN IF c2 = EOS THEN 0
             ELSE RangeFrom(p, k + 1, test, ok \/ (c <= test /\ test <= c2), negate)
        ELSE RangeFrom(p, j + 1, test, ok \/ c = test, negate)

RangeMatch(p, i, test) ==
    LET negate == At(p, i) \in {Bang, Caret}
    IN  RangeFrom(p, IF negate THEN i + 1 ELSE i, test, FALSE, negate)

\* The first position from i on that is not a star.
AfterStars(p, i) == CHOOSE j \in i .. Len(p) + 1 :
    At(p, j) # Star /\ \A k \in i .. j - 1 : p[k] = Star

\* fnmatch(pattern from i on, string from j on); start is where the string
\* began in this call.
RECURSIVE Match(_, _, _, _, _, _)

StarFrom_First(p, i, s, j) == j <= Len(s) /\ Match(p, i, s, j, j, FALSE)
StarFrom(p, i, s, j) == \E k \in j .. Len(s) : Match(p, i, s, k, k, FALSE)

Match(p, i, s, j, start, period) ==
    LET c == At(p, i)
        hidden == period /\ j = start /\ At(s, j) = Dot
        next == AfterStars(p, i)
    IN  CASE c = EOS    -> j > Len(s)
          [] c = Quest  -> j <= Len(s) /\ ~hidden /\ Match(p, i + 1, s, j + 1, start, period)
          [] c = Star   -> ~hidden /\ (next > Len(p) \/ StarFrom(p, next, s, j))
          [] c = Open   -> LET r == RangeMatch(p, i + 1, At(s, j)) IN
                           j <= Len(s) /\ r # 0 /\ Match(p, r, s, j + 1, start, period)
          [] c = Escape -> Match(p, IF i = Len(p) THEN i + 1 ELSE i + 2, s, j, start, period)
          [] OTHER      -> c = At(s, j) /\ Match(p, i + 1, s, j + 1, start, period)

fnmatch(p, s, period) == Match(p, 1, s, 1, 1, period)

-----------------------------------------------------------------------------
(* What a pattern means: a sequence of items, each a star or a set of      *)
(* characters.  A bracket that does not end matches nothing.               *)

CloseOf(p, i) == {k \in i .. Len(p) : p[k] = Close /\ \A l \in i .. k - 1 : p[l] # Close}

\* The members of a bracket expression: pairs around a dash, and what is not
\* part of such a pair.
RECURSIVE Members(_)
Members(q) ==
    CASE q = <<>> -> {}
      [] Len(q) >= 3 /\ q[2] = Dash -> (q[1] .. q[3]) \union Members(SubSeq(q, 4, Len(q)))
      [] OTHER -> {q[1]} \union Members(Tail(q))

Bracket(q) == IF q # <<>> /\ q[1] \in {Bang, Caret} THEN (1 .. 127) \ Members(Tail(q))
              ELSE Members(q)

RECURSIVE Items(_, _)
Items(p, i) ==
    IF i > Len(p) THEN <<>>
    ELSE IF p[i] = Star THEN << [star |-> TRUE, set |-> {}] >> \o Items(p, i + 1)
    ELSE IF p[i] = Open
    THEN IF CloseOf(p, i + 1) = {} THEN << [star |-> FALSE, set |-> {}] >>
         ELSE LET k == CHOOSE k \in CloseOf(p, i + 1) : TRUE
              IN  << [star |-> FALSE, set |-> Bracket(SubSeq(p, i + 1, k - 1))] >>
                     \o Items(p, k + 1)
    ELSE << [star |-> FALSE, set |-> IF p[i] = Quest THEN 1 .. 127 ELSE {p[i]}] >>
            \o Items(p, i + 1)

\* The name can be cut into one part for each item.
Means(items, s) ==
    \E cut \in [0 .. Len(items) -> 0 .. Len(s)] :
        /\ cut[0] = 0 /\ cut[Len(items)] = Len(s)
        /\ \A i \in 1 .. Len(items) :
              IF items[i].star THEN cut[i - 1] <= cut[i]
              ELSE cut[i] = cut[i - 1] + 1 /\ s[cut[i]] \in items[i].set

-----------------------------------------------------------------------------
(* Property.                                                               *)

RECURSIVE Dropped(_)
Dropped(p) == IF p = <<>> THEN p
              ELSE IF p[1] = Escape THEN Dropped(SubSeq(p, 3, Len(p)))
              ELSE <<p[1]>> \o Dropped(Tail(p))

\* A pattern without a backslash matches exactly the names it means, whatever
\* stars, brackets and ranges it is made of, but with FNM_PERIOD a leading star
\* or question mark does not match a leading dot.  A backslash and the character
\* after it match nothing at all: the case ends in a break before its comment
\* FALLTHROUGH (storage.cpp:385-393), and the character is never compared.
MatchesItsMeaning ==
    LET chars == {pattern[i] : i \in DOMAIN pattern}
        hides == At(pattern, 1) \in {Star, Quest} /\ At(name, 1) = Dot
    IN  /\ Escape \notin chars =>
              /\ fnmatch(pattern, name, FALSE) = Means(Items(pattern, 1), name)
              /\ fnmatch(pattern, name, TRUE) = (Means(Items(pattern, 1), name) /\ ~hides)
        /\ {Star, Open} \cap chars = {} =>
              fnmatch(pattern, name, FALSE) = fnmatch(Dropped(pattern), name, FALSE)
=============================================================================
