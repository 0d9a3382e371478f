---------------------------------- MODULE Klib ---------------------------------
(****************************************************************************)
(* Algorithms of the kernel on strings, paths, numbers and bits, as         *)
(* functions: kernel/tools/klib.c, kernel/tools/bitmap.c and the path_*     *)
(* functions of kernel/fs/fs.c.  The loops are recursive operators over the *)
(* position in the string; position Len + 1 is the terminating 0.           *)
(*                                                                          *)
(* The variable is the input of a call; every input within the bounds is    *)
(* a state.                                                                 *)
(****************************************************************************)
EXTENDS Integers, Sequences

LOCAL S == INSTANCE SequencesExt

CONSTANTS
  MaxText,  \* bound: the longest string
  Bits,     \* the width of an integer
  BitCount  \* bits of the bitmap

ASSUME KlibAssumption == MaxText \in Nat /\ Bits \in Nat \ {0} /\ BitCount \in Nat

VARIABLE input

Sign == {"/", "1", "2"}
Strings == UNION {[1..n -> Sign] : n \in 0..MaxText}
Integer == -(2 ^ (Bits - 1))..(2 ^ (Bits - 1) - 1)

NoInput == [kind |-> "none"]

KlibInit == input = NoInput

CallText ==
  /\ input = NoInput
  /\ \E s, t \in Strings, n \in 1..(MaxText + 1) : input' = [kind |-> "text", s |-> s, t |-> t, n |-> n]

CallInt ==
  /\ input = NoInput
  /\ \E n \in Integer, b \in {2, 8, 10, 16} : input' = [kind |-> "int", n |-> n, base |-> b]

CallBits ==
  /\ input = NoInput
  /\ \E z \in SUBSET (0..(BitCount - 1)), n \in 1..3 : input' = [kind |-> "bits", ones |-> z, n |-> n]

Return == input # NoInput /\ input' = NoInput

KlibNext == CallText \/ CallInt \/ CallBits \/ Return

-----------------------------------------------------------------------------
RECURSIVE BackToSlash(_, _), CopyUpTo(_, _, _), Agreeing(_, _, _), Digits(_, _),
          SkipPast(_, _, _), ToNum(_, _), Search(_, _, _)

\* while (*s != '/' ... && s >= name) s--
BackToSlash(s, i) == IF i >= 1 /\ (i > Len(s) \/ s[i] # "/") THEN BackToSlash(s, i - 1) ELSE i

get_file_name(s) == SubSeq(s, BackToSlash(s, Len(s) + 1) + 1, Len(s))

\* while ((size-- > 0) && *s): what is copied, and size then.
CopyUpTo(s, i, n) ==
  IF n > 0 /\ i <= Len(s) THEN CopyUpTo(s, i + 1, n - 1) ELSE <<i - 1, n - 1>>

\* MUTANT of kernel_strncpy: the text always ends behind what was copied.
kernel_strncpy_Behind(s, n) ==
  LET end == CopyUpTo(s, 1, n)
  IN [text |-> SubSeq(s, 1, end[1]), bytes |-> end[1] + 1]

\* The string that dest holds then, and how many bytes were written.  If size
\* is 0 in the end the 0 overwrites the last character, or the byte before dest.
kernel_strncpy(s, n) ==
  LET end == CopyUpTo(s, 1, n)
  IN IF end[2] = 0 THEN [text |-> SubSeq(s, 1, end[1] - 1), bytes |-> end[1]]
     ELSE [text |-> SubSeq(s, 1, end[1]), bytes |-> end[1] + 1]

\* The first position where two strings differ or one ends.
Agreeing(s, t, i) ==
  IF i <= Len(s) /\ i <= Len(t) /\ s[i] = t[i] THEN Agreeing(s, t, i + 1) ELSE i

kernel_all_strcmp(s, t) ==
  LET i == Agreeing(s, t, 1)
  IN (i > Len(s) /\ i > Len(t)) \/ (i <= Len(s) /\ i <= Len(t) /\ s[i] = t[i])

\* The size is not counted down, and not 0 in any call; the result is 0, which
\* says equal, also when either string has ended.
kernel_strcmp(s, t) ==
  LET i == Agreeing(s, t, 1)
  IN i > Len(s) \/ i > Len(t) \/ s[i] = t[i]

\* The digits from the last to the first.
Digits(n, base) == <<n % base>> \o IF n \div base = 0 THEN <<>> ELSE Digits(n \div base, base)

\* A sign or none, and the digits in buf; they are turned round from buf + 1
\* on if num is not positive, which is the first digit if there is no sign.
kernel_itoa(num, base) ==
  LET minus == num < 0 /\ base = 10
      d     == Digits(IF minus THEN -num ELSE num % 2 ^ Bits, base)
  IN [minus |-> minus,
      digits |-> IF num > 0 \/ minus THEN S!Reverse(d) ELSE <<d[1]>> \o S!Reverse(Tail(d))]

\* while (*c && (*c++ == '/')), or != '/'.
SkipPast(s, i, slash) ==
  IF i > Len(s) THEN i
  ELSE IF (s[i] = "/") = slash THEN SkipPast(s, i + 1, slash) ELSE i + 1

\* <<>> is the null pointer.
path_next_child(s) == SubSeq(s, SkipPast(s, SkipPast(s, 1, TRUE), FALSE), Len(s))

path_begin_with(s, t) == Agreeing(s, t, 1) > Len(t)

\* path_to_num of a string of digits.
ToNum(s, i) == IF i = 0 THEN 0 ELSE ToNum(s, i - 1) * 10 + (IF s[i] = "1" THEN 1 ELSE 2)

path_to_num(s) == ToNum(s, Len(s))

\* The inner loop looks at the first bit again, and so at n - 1 bits.
Search(ones, at, n) ==
  IF at >= BitCount THEN -1
  ELSE IF at \in ones THEN Search(ones, at + 1, n)
  ELSE LET used == {k \in at..(at + n - 2) : k \in ones}
       IN IF used # {} THEN Search(ones, at + 1, n)
          ELSE IF at + n - 1 > BitCount THEN -1 ELSE at

\* MUTANT of bitmap_alloc_nbits: the bit behind the run is set too.
bitmap_alloc_nbits_Far(ones, n) ==
  LET i == Search(ones, 0, n)
  IN <<i, IF i = -1 THEN ones ELSE ones \cup {k \in i..(i + n) : k < BitCount}>>

\* bitmap_alloc_nbits(bitmap, 0, n): the index, and the bits that are set
\* then.
bitmap_alloc_nbits(ones, n) ==
  LET i == Search(ones, 0, n)
  IN <<i, IF i = -1 THEN ones ELSE ones \cup {k \in i..(i + n - 1) : k < BitCount}>>

-----------------------------------------------------------------------------
Slashes(s) == {i \in 1..Len(s) : s[i] = "/"}

\* What is behind the first name of a path, if there is anything.
Children(s) ==
  {SubSeq(s, b + 2, Len(s)) : b \in {e \in 1..(Len(s) - 2) :
      /\ s[e] # "/" /\ s[e + 1] = "/"
      /\ \A i, j \in 1..e : i < j /\ s[i] # "/" => s[j] # "/"}}

\* The value of digits, the first one counting most.
ValueOf(d, base) == LET f[k \in 0..Len(d)] == IF k = 0 THEN 0 ELSE f[k - 1] * base + d[k]
                    IN f[Len(d)]

TextAgrees(s, t, n) ==
  /\ LET f == get_file_name(s)
     IN /\ S!IsSuffix(f, s) /\ Slashes(f) = {}
        /\ f = s \/ s[Len(s) - Len(f)] = "/"
  /\ LET d == kernel_strncpy(s, n)
     IN CASE Len(s) < n - 1 -> d = [text |-> s, bytes |-> Len(s) + 1]
          [] Len(s) = n - 1 -> d = [text |-> SubSeq(s, 1, n - 2), bytes |-> n - 1]
          [] OTHER -> d = [text |-> SubSeq(s, 1, n), bytes |-> n + 1]
  /\ kernel_all_strcmp(s, t) <=> s = t
  /\ kernel_strcmp(s, t) <=> S!IsPrefix(s, t) \/ S!IsPrefix(t, s)
  /\ path_begin_with(s, t) <=> S!IsPrefix(t, s)
  /\ Children(s) = {path_next_child(s)} \ {<<>>}
  /\ Slashes(s) = {} =>
       path_to_num(s) = ValueOf([i \in 1..Len(s) |-> IF s[i] = "1" THEN 1 ELSE 2], 10)

IntAgrees(n, base) ==
  LET a == kernel_itoa(n, base)
      d == IF n < 0 /\ base # 10 THEN Append(Tail(a.digits), a.digits[1]) ELSE a.digits
  IN /\ \A k \in 1..Len(d) : d[k] \in 0..(base - 1)
     /\ Len(d) > 1 => d[1] # 0
     /\ a.minus <=> n < 0 /\ base = 10
     /\ ValueOf(d, base) = IF a.minus THEN -n ELSE n % 2 ^ Bits

\* The bits from k on that the search looks at.
Room(ones, k, n) ==
  \A j \in k..(k + (IF n = 1 THEN 0 ELSE n - 2)) : j < BitCount /\ j \notin ones

BitsAgree(ones, n) ==
  LET r == bitmap_alloc_nbits(ones, n)
      hits == {k \in 0..(BitCount - 1) : Room(ones, k, n)}
  IN IF hits = {} THEN r = <<-1, ones>>
     ELSE /\ r[1] \in hits /\ \A k \in hits : r[1] <= k
          /\ r[2] = ones \cup {k \in r[1]..(r[1] + n - 1) : k < BitCount}

\* The loops compute what their names say, with the exceptions that the code
\* has: kernel_strncpy cuts the last character of a text that just fits and
\* writes one byte too many when the text is longer; kernel_strcmp ignores its
\* size and takes a prefix for equal; kernel_itoa shows the digit of the units
\* first for a negative number in another base than 10; and
\* bitmap_alloc_nbits never looks at the last bit of a run of two or more.
AlgorithmsAgree ==
  CASE input.kind = "text" -> TextAgrees(input.s, input.t, input.n)
    [] input.kind = "int"  -> IntAgrees(input.n, input.base)
    [] input.kind = "bits" -> BitsAgree(input.ones, input.n)
    [] OTHER               -> TRUE
=============================================================================
