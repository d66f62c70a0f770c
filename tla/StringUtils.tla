------------------------------ MODULE StringUtils ------------------------------
(***************************************************************************)
(* StringUtils (utils/StringUtils.cpp): the loop of split as steps, the    *)
(* other functions as operators on the string it was given.                *)
(*                                                                         *)
(* A string is a sequence of characters.  The code counts positions from   *)
(* 0: position k of s is s[k + 1].                                         *)
(***************************************************************************)
EXTENDS Naturals, Sequences, FiniteSetsExt

CONSTANTS Chars,
          Calls,      \* <<string, delimiter>> of the calls
          MaxParts,   \* parts that memory has room for; the next push_back throws
          npos        \* the largest size_t: more than any string is long

ASSUME StringUtilsAssumption ==
  /\ Calls \subseteq Seq(Chars) \X Seq(Chars)
  /\ MaxParts \in Nat /\ npos \in Nat
  /\ \A call \in Calls : Len(call[1]) < npos

VARIABLES str, delimiter, tmp_str, result, pc

vars == <<str, delimiter, tmp_str, result, pc>>

TypeOK ==
  /\ str \in Seq(Chars) /\ delimiter \in Seq(Chars) /\ tmp_str \in Seq(Chars)
  /\ result \in Seq(Seq(Chars))
  /\ pc \in {"loop", "returned", "threw"}

--------------------------------------------------------------------------------
\* The functions that look into a string.

\* sub stands at position k of s.
Occurs(s, sub, k) ==
  k + Len(sub) <= Len(s) /\ SubSeq(s, k + 1, k + Len(sub)) = sub

\* Mutant: rfind in the place of find.
FoundFromEnd(s, sub, k) ==
  Occurs(s, sub, k) /\ \A j \in (k + 1)..Len(s) : ~Occurs(s, sub, j)

NoneBefore(s, sub, k) == \A j \in 0..(k - 1) : ~Occurs(s, sub, j)

\* s.find(sub) = k.
Found(s, sub, k) == Occurs(s, sub, k) /\ NoneBefore(s, sub, k)

contain(s, sub) == \E k \in 0..Len(s) : Occurs(s, sub, k)

startsWith(source, head) == Occurs(source, head, 0)

\* Mutant: the tail is looked for one position too early.
EndsEarly(source, tail) ==
  Len(tail) < Len(source) /\ Occurs(source, tail, Len(source) - Len(tail) - 1)

endsWith(source, tail) ==
  Len(tail) <= Len(source) /\ Occurs(source, tail, Len(source) - Len(tail))

--------------------------------------------------------------------------------
\* trim.

Plus1(n) == (n + 1) % (npos + 1)

Blanks == {"FF", "VT", "CR", "TAB", "LF", " "}
NotBlank(s) == {k \in 0..(Len(s) - 1) : s[k + 1] \notin Blanks}

find_first_not_of(s) == IF NotBlank(s) = {} THEN npos ELSE Min(NotBlank(s))
find_last_not_of(s)  == IF NotBlank(s) = {} THEN npos ELSE Max(NotBlank(s))

\* What erase(0, n) and erase(n) leave of s.
EraseFirst(s, n) == SubSeq(s, n + 1, Len(s))
KeepFirst(s, n)  == SubSeq(s, 1, Min({n, Len(s)}))

\* Mutant: the end is looked for in str, and erased from what the first erase left.
TrimStale(s) ==
  KeepFirst(EraseFirst(s, find_first_not_of(s)), Plus1(find_last_not_of(s)))

trim(s) ==
  LET input == EraseFirst(s, find_first_not_of(s))
  IN  KeepFirst(input, Plus1(find_last_not_of(input)))

--------------------------------------------------------------------------------
\* isNumber.

Digits == {"0", "1", "2", "3", "4", "5", "6", "7", "8", "9"}
Signs  == {"+", "-"}
Es     == {"e", "E"}   \* in front of an exponent
Before(s, i) == {s[j] : j \in 1..(i - 1)}

\* operator>> (double) takes the character at i into the number it reads.
Takes(s, i) ==
  \/ s[i] \in Digits
  \/ s[i] \in Signs /\ (i = 1 \/ s[i - 1] \in Es)
  \/ s[i] = "." /\ Before(s, i) \cap (Es \cup {"."}) = {}
  \/ s[i] \in Es /\ Before(s, i) \cap Es = {} /\ Before(s, i) \cap Digits # {}

\* The number of characters it takes from s.
Taken(s) == Max({n \in 0..Len(s) : \A i \in 1..n : Takes(s, i)})

\* It fails unless what it took is a number from its first character to its last.  Numbers
\* beyond the range of double, for which it fails too, are left out.
Converts(s) ==
  /\ \E i \in 1..Len(s) : s[i] \in Digits
  /\ s[Len(s)] \notin Signs \cup Es

\* operator>> skips the blanks first.
SkipBlanks(s) == EraseFirst(s, find_first_not_of(s))

\* Mutant: the read of a further character is missing.
StartsWithNumber(s) ==
  LET input == SkipBlanks(s) IN Converts(KeepFirst(input, Taken(input)))

\* sin >> d succeeds, and sin >> c finds nothing but blanks.
isNumber(s) ==
  LET input == SkipBlanks(s)
  IN  /\ Converts(KeepFirst(input, Taken(input)))
      /\ NotBlank(EraseFirst(input, Taken(input))) = {}

--------------------------------------------------------------------------------
\* split.

Init ==
  /\ \E call \in Calls : str = call[1] /\ delimiter = call[2]
  /\ tmp_str = str /\ result = <<>> /\ pc = "loop"

\* Mutant: the delimiter stays in front of the rest.
RestWithDelimiter(k) == SubSeq(tmp_str, k + 1, Len(tmp_str))
\* Mutant: one character is erased, whatever the length of the delimiter.
RestAfterOne(k) == SubSeq(tmp_str, k + 2, Len(tmp_str))

\* What tmp_str.erase(0, pos + delimiter.length()) leaves.
Rest(k) == SubSeq(tmp_str, k + Len(delimiter) + 1, Len(tmp_str))

CutPart ==
  /\ pc = "loop" /\ Len(result) < MaxParts
  /\ \E k \in 0..Len(tmp_str) :
       /\ Found(tmp_str, delimiter, k)
       /\ result' = Append(result, SubSeq(tmp_str, 1, k))
       /\ tmp_str' = Rest(k)
  /\ UNCHANGED <<str, delimiter, pc>>

LastPart ==
  /\ pc = "loop" /\ Len(result) < MaxParts
  /\ ~contain(tmp_str, delimiter)
  /\ result' = Append(result, tmp_str) /\ pc' = "returned"
  /\ UNCHANGED <<str, delimiter, tmp_str>>

\* push_back throws std::bad_alloc.
PushThrows ==
  /\ pc = "loop" /\ Len(result) = MaxParts
  /\ pc' = "threw"
  /\ UNCHANGED <<str, delimiter, tmp_str, result>>

Next == CutPart \/ LastPart \/ PushThrows

Spec == Init /\ [][Next]_vars
\* Nothing keeps the thread that calls split from going on.
FairSpec == Spec /\ WF_vars(Next)

--------------------------------------------------------------------------------

\* The first n parts, a delimiter behind each.
Glued(parts, sep, n) ==
  LET glued[k \in 0..n] == IF k = 0 THEN <<>> ELSE glued[k - 1] \o parts[k] \o sep
  IN  glued[n]

\* The number of parts that ended at a delimiter.
Cuts == IF pc = "returned" THEN Len(result) - 1 ELSE Len(result)

\* split: the parts with a delimiter behind each, and what is left of the string, are
\* the string; once it has returned the last part is what was left.
NothingLost ==
  /\ str = Glued(result, delimiter, Cuts) \o tmp_str
  /\ pc = "returned" => tmp_str = result[Len(result)]

\* split cuts at the leftmost delimiter each time, also where two of them overlap: in
\* a part with its delimiter there is no earlier one, in the last part none at all.
LeftmostCuts ==
  /\ \A i \in 1..Len(result) :
       i < Len(result) \/ pc # "returned" =>
         NoneBefore(result[i] \o delimiter, delimiter, Len(result[i]))
  /\ pc = "returned" => ~contain(result[Len(result)], delimiter)

\* split tells what contain, startsWith and endsWith tell of the same two strings.
AgreesWithQueries ==
  pc = "returned" =>
    /\ contain(str, delimiter) <=> Len(result) > 1
    /\ startsWith(str, delimiter) <=> Len(result) > 1 /\ result[1] = <<>>
    /\ Len(result) > 1 /\ result[Len(result)] = <<>> => endsWith(str, delimiter)
    /\ endsWith(str, delimiter) => Len(result) > 1

\* A delimiter that is not empty never makes more parts than the string has
\* characters and one: if memory has room for those, split does not throw.
RoomSuffices == delimiter # <<>> /\ Len(str) < MaxParts => pc # "threw"

\* A call of split with a delimiter that is not empty comes to its end with a result,
\* if memory has room for as many parts as the string has characters and one.
SplitReturns == delimiter # <<>> /\ Len(str) < MaxParts ~> pc = "returned"

\* trim, as its code has it (StringUtils.cpp:48-49), takes blanks from both ends, all of
\* them, and nothing else.
TrimTakesBlanks ==
  LET t == trim(str)
      IsBlank(s) == NotBlank(s) = {}
  IN  /\ \E i \in 0..Len(str) :
           /\ Occurs(str, t, i)
           /\ IsBlank(SubSeq(str, 1, i)) /\ IsBlank(SubSeq(str, i + Len(t) + 1, Len(str)))
      /\ t # <<>> => {t[1], t[Len(t)]} \cap Blanks = {}

\* trim, as its comment has it (StringUtils.h:20), removes blanks at the end of a line:
\* what is left stands at the start of the string.  The code does not keep to that.
TrimsEndOnly == Occurs(str, trim(str), 0)

\* Digits and at most one point, at least one digit.
Mantissa(s) ==
  /\ \A i \in 1..Len(s) : s[i] \in Digits \cup {"."}
  /\ \E i \in 1..Len(s) : s[i] \in Digits
  /\ Cardinality({i \in 1..Len(s) : s[i] = "."}) <= 1
Unsigned(s) == IF s # <<>> /\ s[1] \in Signs THEN Tail(s) ELSE s
Exponent(s) ==
  s # <<>> => /\ s[1] \in Es
              /\ LET n == Unsigned(Tail(s))
                 IN  n # <<>> /\ \A i \in 1..Len(n) : n[i] \in Digits
Literal(s) ==
  \E i \in 0..Len(s) : /\ Mantissa(SubSeq(s, 1, i))
                       /\ Exponent(SubSeq(s, i + 1, Len(s)))

\* isNumber tells the strings that are one number, but for blanks at both ends: those
\* that trim makes a sign, a mantissa and an exponent of.
NumbersAreWhole == isNumber(str) <=> Literal(Unsigned(trim(str)))
================================================================================
