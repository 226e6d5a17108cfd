------------------------------ MODULE Library -------------------------------
(***************************************************************************)
(* Algorithms that the kernel is built on: memory and strings              *)
(* (kernel/string.c), the elements of a path and the names in a directory  *)
(* (skipelem(), dirlink(), namecmp() of kernel/fs.c) and printed numbers   *)
(* (printint() of kernel/printf.c).  Memory is a sequence of characters; a *)
(* string ends at the first NUL.  The functions are applied to every       *)
(* memory that can be written a character at a time.                       *)
(***************************************************************************)
EXTENDS Integers, Sequences, SequencesExt

CONSTANTS
  DIRSIZ,
  MaxLen,     \* longest memory
  UINT        \* number of values of a uint

NUL == "0"
Chars == {"a", "b", "/", NUL}

VARIABLE mem

vars == <<mem>>
Init == mem = <<>>
Next == (\E c \in Chars : Len(mem) < MaxLen /\ mem' = Append(mem, c)) \/ mem' = <<>>
Spec == Init /\ [][Next]_vars

At(m, i) == IF i \in DOMAIN m THEN m[i] ELSE NUL
Least(S) == CHOOSE i \in S : \A j \in S : i <= j
strlen(m, i) == Least({ n \in 0 .. Len(m) + 1 : At(m, i + n) = NUL })
Text(m, i) == SubSeq(m, i, i + strlen(m, i) - 1)

(* The order in which memmove() copies the bytes 0 .. n-1. *)
CopyOrder(d, s, n) ==
  IF s < d /\ s + n > d THEN [k \in 1 .. n |-> n - k] ELSE [k \in 1 .. n |-> k - 1]
memmove(m, d, s, n) ==
  FoldLeft(LAMBDA now, k : [now EXCEPT ![d + k] = now[s + k]], m, CopyOrder(d, s, n))

(* Are the strings equal in their first n characters? *)
strncmp(p, q, n) ==
  LET stop == Least({ k \in 0 .. n : k = n \/ At(p, k + 1) = NUL \/ At(p, k + 1) # At(q, k + 1) })
  IN stop = n \/ At(p, stop + 1) = At(q, stop + 1)

(* The n bytes at dst. *)
strncpy(t, n) ==
  LET z == Least({ k \in 1 .. n + 1 : k = n + 1 \/ At(t, k) = NUL })
  IN [k \in 1 .. n |-> IF k < z THEN At(t, k) ELSE NUL]
safestrcpy(dst, t, n) ==
  LET z == Least({ k \in 1 .. n : k = n \/ At(t, k) = NUL })
  IN IF n <= 0 THEN dst
     ELSE [k \in DOMAIN dst |-> IF k < z THEN At(t, k) ELSE IF k = z THEN NUL ELSE dst[k]]

(* skipelem(): the position of the rest of the path, or 0, and name[],     *)
(* which had contents from earlier.                                        *)
SkipSlashes(path, i) == Least({ j \in i .. Len(path) + 1 : At(path, j) # "/" })
skipelem(path, i, name) ==
  LET s == SkipSlashes(path, i)
      e == Least({ j \in s .. Len(path) + 1 : At(path, j) \in {"/", NUL} })
      len == e - s
  IN IF At(path, s) = NUL THEN [next |-> 0, name |-> name]
     ELSE [next |-> SkipSlashes(path, e),
           name |-> [k \in 1 .. DIRSIZ |-> IF k <= len THEN path[s + k - 1]
                                           ELSE IF k = len + 1 THEN NUL ELSE name[k]]]

RECURSIVE Walk(_, _, _)
(* The names that namex() looks up. *)
Walk(path, i, name) ==
  LET r == skipelem(path, i, name) IN
  IF r.next = 0 THEN <<>> ELSE <<r.name>> \o Walk(path, r.next, r.name)

namecmp(s, t) == strncmp(s, t, DIRSIZ)
dirent(name) == strncpy(name, DIRSIZ)

RECURSIVE Digits(_, _)
Digits(x, base) == IF x < base THEN <<x>> ELSE Append(Digits(x \div base, base), x % base)
printint(xx, base, sign) ==
  LET neg == sign /\ xx < 0
      x == (IF neg THEN -xx ELSE xx) % UINT
  IN [minus |-> neg, digits |-> Digits(x, base)]

-----------------------------------------------------------------------------
(* memmove() gives the old bytes, also where source and destination        *)
(* overlap.                                                                *)
MovesRight ==
  \A d, s \in DOMAIN mem : \A n \in 0 .. Len(mem) + 1 - (IF d > s THEN d ELSE s) :
    memmove(mem, d, s, n) = [i \in DOMAIN mem |-> IF i \in d .. d + n - 1 THEN mem[s + i - d] ELSE mem[i]]

(* safestrcpy() ends the string, within n bytes, and leaves the rest. *)
CopiesRight ==
  \A i \in DOMAIN mem, n \in 1 .. DIRSIZ :
    LET t == Text(mem, i)
        r == safestrcpy([k \in 1 .. DIRSIZ |-> "x"], t, n)
    IN /\ Text(r, 1) = SubSeq(t, 1, Least({n - 1, Len(t)}))
       /\ \A k \in n + 1 .. DIRSIZ : r[k] = "x"

(* The elements of a path are the texts between its slashes, cut at DIRSIZ *)
(* characters, whatever an earlier element left in name[]; an entry made   *)
(* for one of them is found by another exactly when these are equal.       *)
NamesRight ==
  LET path == Text(mem, 1)
      first == { i \in DOMAIN path : path[i] # "/" /\ (i = 1 \/ path[i - 1] = "/") }
      order == SetToSortSeq(first, <)
      Elem(i) == LET e == Least({ j \in i .. Len(path) + 1 : At(path, j) \in {"/", NUL} })
                 IN SubSeq(path, i, IF e - i > DIRSIZ THEN i + DIRSIZ - 1 ELSE e - 1)
      names == Walk(path, 1, [k \in 1 .. DIRSIZ |-> "x"])
  IN /\ Len(names) = Len(order)
     /\ \A k \in DOMAIN order : Text(names[k], 1) = Elem(order[k])
     /\ \A j, k \in DOMAIN order :
          namecmp(names[j], dirent(names[k])) <=> Elem(order[j]) = Elem(order[k])

(* The digits printed are those of the number, without leading zeros and   *)
(* with its sign: also for the least int, whose negation overflows.        *)
PrintsRight ==
  mem = <<>> =>
  \A xx \in -(UINT \div 2) .. UINT \div 2 - 1, base \in {10, 16}, sign \in BOOLEAN :
    LET r == printint(xx, base, sign)
        value == FoldLeft(LAMBDA v, d : v * base + d, 0, r.digits)
    IN /\ (IF r.minus THEN -value ELSE value) = IF sign THEN xx ELSE xx % UINT
       /\ \A k \in DOMAIN r.digits : r.digits[k] \in 0 .. base - 1
       /\ Len(r.digits) > 1 => r.digits[1] # 0

(* The four together. *)
LibraryRight == MovesRight /\ CopiesRight /\ NamesRight /\ PrintsRight
=============================================================================
