-------------------------------- MODULE Grep --------------------------------
(***************************************************************************)
(* user/grep.c: the loop of grep(), which reads its input in pieces and    *)
(* cuts them into lines, and the matcher.  A step is one read().           *)
(***************************************************************************)
EXTENDS Integers, Sequences, FiniteSets, SequencesExt

CONSTANTS
  BUFSIZE,           \* sizeof(buf)
  MaxText, MaxRe     \* longest input and pattern

NL == "nl"
Letters == {"a", "b"}
ReChars == {"a", ".", "*", "^", "$"}

VARIABLES
  re, text,      \* the pattern, and the whole input
  pos,           \* characters of text that have been read
  buf,           \* buf[0 .. m-1]
  out,           \* the lines written
  done

vars == <<re, text, pos, buf, out, done>>

Init ==
  /\ re \in SeqOf(ReChars, MaxRe) /\ text \in SeqOf(Letters \cup {NL}, MaxText)
  /\ pos = 0 /\ buf = <<>> /\ out = <<>> /\ done = FALSE

RECURSIVE matchhere(_, _), matchstar(_, _, _)
(* The beginning of t; 0 ends both strings. *)
matchhere(r, t) ==
  CASE r = <<>> -> TRUE
    [] Len(r) > 1 /\ r[2] = "*" -> matchstar(r[1], SubSeq(r, 3, Len(r)), t)
    [] r = <<"$">> -> t = <<>>
    [] OTHER -> t # <<>> /\ (r[1] = "." \/ r[1] = t[1]) /\ matchhere(Tail(r), Tail(t))


matchstar(c, r, t) ==
  matchhere(r, t) \/ (t # <<>> /\ (t[1] = c \/ c = ".") /\ matchstar(c, r, Tail(t)))

match(r, t) ==
  IF r # <<>> /\ r[1] = "^" THEN matchhere(Tail(r), t)
  ELSE \E i \in 1 .. Len(t) + 1 : matchhere(r, SubSeq(t, i, Len(t)))

(* The complete lines of s, and what follows the last of them. *)
Ends(s) == { i \in DOMAIN s : s[i] = NL }
LineTo(s, i) == SubSeq(s, 1 + (CHOOSE j \in Ends(s) \cup {0} : j < i /\ \A k \in Ends(s) : k < i => k <= j), i - 1)
LinesOf(s) == LET ends == SetToSortSeq(Ends(s), <) IN [k \in DOMAIN ends |-> LineTo(s, ends[k])]
Unfinished(s) == LineTo(s, Len(s) + 1)

(* n = read(fd, buf+m, sizeof(buf)-m-1) *)
Read(n) ==
  LET more == buf \o SubSeq(text, pos + 1, pos + n) IN
  /\ pos' = pos + n
  /\ out' = out \o SelectSeq(LinesOf(more), LAMBDA l : match(re, l))
  /\ buf' = Unfinished(more)
  /\ UNCHANGED <<re, text, done>>

Room == BUFSIZE - Len(buf) - 1
Left == Len(text) - pos
Step ==
  /\ ~done
  /\ \/ \E n \in 1 .. (IF Room < Left THEN Room ELSE Left) : Read(n)
     \/ (Room = 0 \/ Left = 0) /\ done' = TRUE /\ UNCHANGED <<re, text, pos, buf, out>>

Next == Step \/ (done /\ UNCHANGED vars)
Spec == Init /\ [][Next]_vars

-----------------------------------------------------------------------------
(* What a pattern means: an optional "^", then items, each a character or  *)
(* "." with or without a star, then an optional "$"; it matches where some *)
(* number of copies of each starred item gives a piece of the line.        *)
Body(r) == IF r # <<>> /\ r[1] = "^" THEN Tail(r) ELSE r
StarAt(b) ==       \* positions of the stars that are operators
  { k \in DOMAIN b : /\ b[k] = "*"
                     /\ LET first == CHOOSE j \in 1 .. k : (\A i \in j .. k : b[i] = "*")
                                                         /\ (j = 1 \/ b[j - 1] # "*")
                        IN IF first = 1 THEN k % 2 = 0 ELSE (k - first) % 2 = 0 }
Anchored(b) == b # <<>> /\ b[Len(b)] = "$"
Items(b) ==
  LET at == SetToSortSeq((DOMAIN b \ StarAt(b)) \ (IF Anchored(b) THEN {Len(b)} ELSE {}), <)
  IN [k \in DOMAIN at |-> [c |-> b[at[k]], star |-> at[k] + 1 \in StarAt(b)]]

Means(r, t) ==
  LET b == Body(r)
      it == Items(b)
      Counts == { f \in [DOMAIN it -> 0 .. Len(t)] : \A k \in DOMAIN it : it[k].star \/ f[k] = 1 }
      Spelled(f) == FoldLeft(LAMBDA s, k : s \o [j \in 1 .. f[k] |-> it[k].c], <<>>, [k \in DOMAIN it |-> k])
      Fits(p, i) == \A k \in DOMAIN p : p[k] = "." \/ p[k] = t[i + k]
  IN \E i \in 0 .. (IF b # r THEN 0 ELSE Len(t)), f \in Counts :
       LET p == Spelled(f) IN
       /\ i + Len(p) <= Len(t)
       /\ Anchored(b) => i + Len(p) = Len(t)
       /\ Fits(p, i)

(* However the input is cut into pieces, grep has written exactly those of *)
(* the complete lines read so far that the pattern matches, in order; and  *)
(* it stops early only at a line that does not fit into its buffer.        *)
GrepRight ==
  LET read == SubSeq(text, 1, pos) IN
  /\ out = SelectSeq(LinesOf(read), LAMBDA l : Means(re, l))
  /\ buf = Unfinished(read)
  /\ done => pos = Len(text) \/ Len(Unfinished(read)) = BUFSIZE - 1
=============================================================================
