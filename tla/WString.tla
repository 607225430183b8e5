-------------------------------- MODULE WString --------------------------------
(***************************************************************************)
(* wstring_t (src/goods-diff/wstring.h): a wide string is the array chars  *)
(* with its terminating zero, and len counts that zero.  Here a string is  *)
(* that array, <<>> for the null string, whose len is 0 and whose chars    *)
(* are not there.  Two strings are built by the operations of the class.   *)
(***************************************************************************)
EXTENDS Integers, Sequences, SequencesExt

CONSTANTS
  Char,     \* character codes
  MaxLen    \* bound: the length of a text

ASSUME CharAssumption == Char \subseteq Nat \ {0} /\ MaxLen \in Nat

VARIABLES str, arg   \* the string and the argument of its operations

stringVars == <<str, arg>>

Blank == 32
TextOf(s) == IF s = <<>> THEN <<>> ELSE Front(s)   \* what a reader of s sees
Texts == BoundedSeq(Char, MaxLen)

\* chars[i]; the array counts from 0.
At(s, i) == s[i + 1]

-----------------------------------------------------------------------------
(* Operations                                                              *)

\* operator= and the constructors of a text; "" and NULL give the null string.
Assigned(text) == IF text = <<>> THEN <<>> ELSE Append(text, 0)

\* The constructor of [from, till).
Substring(s, from, till) ==
  IF from >= 0 /\ till >= 0 /\ from < till /\ till < Len(s)
  THEN Append(SubSeq(s, from + 1, till), 0)
  ELSE <<>>

Concat(s, t) ==
  IF t = <<>> THEN s ELSE IF s = <<>> THEN t ELSE Front(s) \o t

\* Where the loops of trim stop; the terminator counts as a blank.
Left(s)  == LET solid == {i \in 0..(Len(s) - 1) : At(s, i) > Blank}
            IN IF solid = {} THEN Len(s) ELSE CHOOSE i \in solid : \A j \in solid : i <= j
Right(s) == LET solid == {i \in 0..(Len(s) - 1) : At(s, i) > Blank}
            IN IF solid = {} THEN -1 ELSE CHOOSE i \in solid : \A j \in solid : i >= j

\* Variant: the last character is left out.
TrimShort(s) == Substring(s, Left(s), Right(s))

Trim(s) == Substring(s, Left(s), Right(s) + 1)

Lower(c) == IF c \in 65..90 THEN c + 32 ELSE c
Upper(c) == IF c \in 97..122 THEN c - 32 ELSE c

ToLowerCase(s) == [i \in DOMAIN s |-> Lower(s[i])]
ToUpperCase(s) == [i \in DOMAIN s |-> Upper(s[i])]

\* compareToIgnoreCase: the first difference, which a terminator may be.
CompareToIgnoreCase(s, t) ==
  LET n == IF Len(s) < Len(t) THEN Len(s) ELSE Len(t)
      diff == {i \in 1..n : Upper(s[i]) # Upper(t[i])}
  IN IF diff = {} THEN Len(s) - Len(t)
     ELSE LET i == CHOOSE j \in diff : \A k \in diff : j <= k IN Upper(s[i]) - Upper(t[i])

\* wcscmp and wcsncmp: no difference within n characters, up to a terminator.
SameUpTo(s, t, n) ==
  \A i \in 1..n : (\A j \in 1..(i - 1) : s[j] # 0) => s[i] = t[i]

\* startsWith and endsWith return what the comparison does, not zero when the
\* texts differ.
StartsWith(s, t, offs) ==
  ~(offs >= Len(s) \/ t = <<>>) /\ ~SameUpTo(SubSeq(s, offs + 1, Len(s)), t, Len(t) - 1)
EndsWith(s, t) ==
  ~(Len(s) < Len(t) \/ t = <<>>)
    /\ ~SameUpTo(SubSeq(s, Len(s) - Len(t) + 1, Len(s)), t, Len(t))

\* indexOf of a character; the terminator is not searched.
IndexOfChar(s, c, from) ==
  LET hits == {i \in from..(Len(s) - 2) : At(s, i) = c}
  IN IF hits = {} THEN -1 ELSE CHOOSE i \in hits : \A j \in hits : i <= j

\* lastIndexOf of a character from i; past is what lies behind the array.
LastIndexOf(s, c, i, past) ==
  LET start == IF i > Len(s) THEN Len(s) ELSE i
      hits == {j \in 0..start : (IF j = Len(s) THEN past ELSE At(s, j)) = c}
  IN IF s = <<>> THEN -1
     ELSE IF hits = {} THEN (IF start < 0 THEN start ELSE -1)
     ELSE CHOOSE j \in hits : \A k \in hits : j >= k

\* indexOf of a string: every place where it fits, and one more.
IndexOf(s, t, from) ==
  LET size == Len(t) - 1
      hits == {i \in from..(Len(s) - size) : \A k \in 0..(size - 1) : At(s, i + k) = At(t, k)}
  IN IF s = <<>> \/ t = <<>> \/ hits = {} THEN -1
     ELSE CHOOSE i \in hits : \A j \in hits : i <= j

\* getChars of wide characters.
GetChars(s, size) ==
  IF s = <<>> THEN <<>> ELSE SubSeq(s, 1, IF size < Len(s) THEN size ELSE Len(s) - 1)

-----------------------------------------------------------------------------

\* What the operations make of the two strings.
Built ==
  {Assigned(text) : text \in Texts}
    \cup {Concat(str, arg), Trim(str), ToLowerCase(str), ToUpperCase(str)}
    \cup {Substring(str, from, till) : from \in 0..MaxLen, till \in 0..MaxLen}

Assign ==
  /\ \E s \in {x \in Built : Len(x) <= MaxLen + 1} : str' = s
  /\ arg' = arg

\* operator= of another string.
Copy == arg' = str /\ str' = str

StringInit == str = <<>> /\ arg = <<>>

StringNext == Assign \/ Copy

StringSpec == StringInit /\ [][StringNext]_stringVars

-----------------------------------------------------------------------------
(* Properties                                                              *)

Position(text, pattern, i) ==
  i >= 0 /\ i + Len(pattern) <= Len(text) /\ SubSeq(text, i + 1, i + Len(pattern)) = pattern

Before(s, t) ==   \* s comes before t in the order of character codes
  \/ IsStrictPrefix(s, t)
  \/ \E i \in DOMAIN s \cap DOMAIN t : s[i] < t[i] /\ SubSeq(s, 1, i - 1) = SubSeq(t, 1, i - 1)

UpperText(s) == [i \in DOMAIN TextOf(s) |-> Upper(s[i])]

\* Whatever operations made them, strings of one text are one string, ended by its
\* only zero and null when empty; and joining, cutting, trimming, comparing and
\* searching give what they mean on texts, at both ends of the string.  But
\* lastIndexOf from the end on may find what lies behind the array, and startsWith
\* and endsWith are true where the texts differ.
StringsAgreeWithTexts ==
  LET s == TextOf(str)
      t == TextOf(arg) IN
  /\ str = Assigned(s) /\ ~Contains(s, 0)
  /\ TextOf(Concat(str, arg)) = s \o t
  /\ \E a, b \in 0..Len(s) :
       LET cut == SubSeq(s, a + 1, Len(s) - b) IN
       /\ TextOf(Trim(str)) = cut
       /\ \A i \in 1..Len(s) : i <= a \/ i > Len(s) - b => s[i] <= Blank
       /\ cut # <<>> => cut[1] > Blank /\ Last(cut) > Blank
  /\ CompareToIgnoreCase(str, arg) < 0 <=> Before(UpperText(str), UpperText(arg))
  /\ CompareToIgnoreCase(str, arg) = 0 <=> UpperText(str) = UpperText(arg)
  /\ EndsWith(str, arg) <=> t # <<>> /\ Len(t) <= Len(s) /\ ~IsSuffix(t, s)
  /\ \A size \in 0..MaxLen : IsPrefix(GetChars(str, size), s)
                             /\ Len(GetChars(str, size)) = IF size < Len(s) THEN size ELSE Len(s)
  /\ \A from \in 0..(MaxLen + 1) :
       LET i == IndexOf(str, arg, from) IN
       /\ StartsWith(str, arg, from) <=> t # <<>> /\ from < Len(str) /\ ~Position(s, t, from)
       /\ i >= 0 => i >= from /\ Position(s, t, i)
       /\ t # <<>> => \A j \in from..Len(s) : Position(s, t, j) => i \in 0..j
  /\ \A c \in Char, from \in 0..(MaxLen + 1) :
       LET i == IndexOfChar(str, c, from)
           past == {LastIndexOf(str, c, from, b) : b \in Char \cup {0}} IN
       /\ i = IndexOf(str, Assigned(<<c>>), from)
       /\ \A l \in past :
            /\ l # -1 => l <= from /\ (Position(s, <<c>>, l) \/ l = Len(str))
            /\ \A j \in 0..from : Position(s, <<c>>, j) => l >= j
=============================================================================
