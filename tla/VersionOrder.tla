---------------------------- MODULE VersionOrder ----------------------------
(***************************************************************************)
(* How two versions of a module compare: the GNU version order of tags     *)
(* (src/x/gnu/sort.go); RefOrder has the order of tags and commits of a    *)
(* repository, which is built on it.                                       *)
(*                                                                         *)
(* A version is a text, a sequence of byte values.                         *)
(***************************************************************************)
EXTENDS Integers, Sequences

CONSTANT
  Texts       \* versions

\* Neither git nor a command line has a NUL in a name.
ASSUME TextsAssumption == Texts \subseteq Seq(1..255)

VARIABLE
  text        \* a version

-----------------------------------------------------------------------------
(* gnu.Compare. *)

IsDigit(c) == c \in 48..57
IsAlpha(c) == c \in (65..90) \cup (97..122)

\* Variant: digits sort as punctuation.
Order_DigitsLast(c) ==
  CASE c = 0 -> 0
    [] IsAlpha(c) -> c
    [] c = 126 -> -1
    [] OTHER -> c + 256

\* Digits and the end of the text lowest but for '~', then letters, then
\* the rest.
Order(c) ==
  CASE IsDigit(c) \/ c = 0 -> 0
    [] IsAlpha(c) -> c
    [] c = 126 -> -1
    [] OTHER -> c + 256

\* The byte at a position; behind the end there are zeros.
Position == Nat \ {0}
At(s, i) == IF i <= Len(s) THEN s[i] ELSE 0
DigitAt(s, i) == i <= Len(s) /\ IsDigit(s[i])
OtherAt(s, i) == i <= Len(s) /\ ~IsDigit(s[i])

\* Where the zeros at a position end.
SkipZeros(s, i) ==
  CHOOSE k \in i..(i + Len(s)) : At(s, k) # 48 /\ \A l \in i..(k - 1) : At(s, l) = 48

\* How many positions from two on both have digits.
CommonDigits(s, i, t, j) ==
  CHOOSE n \in 0..Len(s) :
    /\ ~(DigitAt(s, i + n) /\ DigitAt(t, j + n))
    /\ \A l \in 0..(n - 1) : DigitAt(s, i + l) /\ DigitAt(t, j + l)

\* Two numbers without leading zeros: the longer is greater, equal lengths
\* differ at the first digit that does.
CompareNumbers(s, i, t, j) ==
  LET n == CommonDigits(s, i, t, j)
      differ == {l \in 0..(n - 1) : s[i + l] # t[j + l]}
      first == CHOOSE l \in differ : \A m \in differ : l <= m
  IN CASE DigitAt(s, i + n) -> 1
       [] ~DigitAt(s, i + n) /\ DigitAt(t, j + n) -> -1
       [] ~DigitAt(s, i + n) /\ ~DigitAt(t, j + n) ->
            IF differ = {} THEN 0 ELSE s[i + first] - t[j + first]

\* verrevcmp from the positions p on: the parts without digits byte by
\* byte, then the numbers.
VerRevCmp(s, t) ==
  LET cmp[p \in Position \X Position] ==
        LET i == p[1]
            j == p[2]
            k == SkipZeros(s, i)
            l == SkipZeros(t, j)
            n == CommonDigits(s, k, t, l)
        IN CASE i > Len(s) /\ j > Len(t) -> 0
             [] OtherAt(s, i) \/ OtherAt(t, j) ->
                  IF Order(At(s, i)) # Order(At(t, j))
                  THEN Order(At(s, i)) - Order(At(t, j))
                  ELSE cmp[<<i + 1, j + 1>>]
             [] OTHER ->
                  IF CompareNumbers(s, k, t, l) # 0
                  THEN CompareNumbers(s, k, t, l)
                  ELSE cmp[<<k + n, l + n>>]
  IN cmp

Compare(a, b) == VerRevCmp(a, b)[<<1, 1>>]

-----------------------------------------------------------------------------
(* What the order is good for. *)

Sign(n) == CASE n < 0 -> -1 [] n > 0 -> 1 [] OTHER -> 0

IsNumber(s) == \A i \in 1..Len(s) : IsDigit(s[i])

\* The number that a text of digits stands for.
Value(s) ==
  LET value[n \in 0..Len(s)] ==
        IF n = 0 THEN 0 ELSE 10 * value[n - 1] + (s[n] - 48)
  IN value[Len(s)]

\* gnu.Compare is a total preorder: otherwise the highest version of a list
\* would depend on how the list is searched.  It orders numbers by value,
\* whatever their zeros, and puts '~' before the end of any text and a
\* letter after it.
CompareIsPreorder ==
  text \in Seq(1..255) =>
    /\ \A a \in Texts :
         /\ Compare(text, a) = -Compare(a, text)
         /\ Compare(text, a) <= 0 =>
              \A b \in Texts : Compare(a, b) <= 0 => Compare(text, b) <= 0
         /\ IsNumber(text) /\ IsNumber(a) =>
              Sign(Compare(text, a)) = Sign(Value(text) - Value(a))
    /\ Compare(Append(text, 126), text) < 0
    /\ Compare(Append(text, 97), text) > 0

=============================================================================
