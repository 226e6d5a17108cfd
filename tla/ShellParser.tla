----------------------------- MODULE ShellParser ----------------------------
(***************************************************************************)
(* The parser of the shell, user/sh.c: from the characters of a line to    *)
(* the tree of struct cmd, and the strings in it once nulterminate() has   *)
(* cut them out of the line.  A string is a pair of positions, as in the   *)
(* code.  A parser returns the tree and where it stopped, or its panic;    *)
(* malloc() does not fail.                                                 *)
(***************************************************************************)
EXTENDS Integers, Sequences, FiniteSets, SequencesExt

CONSTANTS
  MAXARGS,
  MaxLine     \* longest line

NUL == "0"
Word == {"a"}
Blank == {" "}
Symbols == {"<", "|", ">", "&", ";", "(", ")"}
Chars == Word \cup Blank \cup Symbols

VARIABLE line

vars == <<line>>

-----------------------------------------------------------------------------
(* The characters of s, and the 0 that ends it. *)
Char(s, i) == IF i \in DOMAIN s THEN s[i] ELSE NUL

(* The first position from i on whose character is not in set. *)
Past(s, i, set) == CHOOSE j \in i .. Len(s) + 1 :
  Char(s, j) \notin set /\ \A k \in i .. j - 1 : s[k] \in set

(* Mutant of TokenEnd: ">>" is two tokens. *)
Mut_TokenEnd(s, b) ==
  CASE Char(s, b) = NUL -> b
    [] Char(s, b) \in Symbols -> b + 1
    [] OTHER -> Past(s, b, Word)

TokenEnd(s, b) ==
  CASE Char(s, b) = NUL -> b
    [] Char(s, b) = ">" /\ Char(s, b + 1) = ">" -> b + 2
    [] Char(s, b) \in Symbols -> b + 1
    [] OTHER -> Past(s, b, Word)

(* The token from b to eq: its kind, its ends and where the next one starts. *)
Token(s, b, eq) ==
  [ret |-> CASE Char(s, b) \in Word -> "a" [] eq = b + 2 -> "+" [] OTHER -> Char(s, b),
   q |-> b, eq |-> eq, next |-> Past(s, eq, Blank)]
TokenAt(s, b) == Token(s, b, TokenEnd(s, b))
gettoken(s, i) == TokenAt(s, Past(s, i, Blank))

peek(s, i, toks) == Char(s, Past(s, i, Blank)) \in toks

execcmd(argv) == [type |-> "EXEC", argv |-> argv]
redircmd(sub, redir) == [type |-> "REDIR", cmd |-> sub, redir |-> redir]
pipecmd(left, right) == [type |-> "PIPE", left |-> left, right |-> right]
listcmd(left, right) == [type |-> "LIST", left |-> left, right |-> right]
backcmd(sub) == [type |-> "BACK", cmd |-> sub]

Redirected(cmd, redirs) == FoldLeft(redircmd, cmd, redirs)

Panic == [ok |-> FALSE]
Parsed(cmd, i) == [ok |-> TRUE, cmd |-> cmd, next |-> i]
Str(t) == <<t.q, t.eq>>

RECURSIVE parseline(_, _), parsepipe(_, _), parseredirs(_, _, _), Args(_, _, _, _), Back(_, _, _)

(* The redirections at i, after those already found. *)
RedirTo(s, redirs, mode, file) ==
  IF file.ret # "a" THEN Panic
  ELSE parseredirs(s, file.next, Append(redirs, [mode |-> mode, file |-> Str(file)]))
Redirection(s, redirs, tok) == RedirTo(s, redirs, tok.ret, gettoken(s, tok.next))
parseredirs(s, i, redirs) ==
  IF peek(s, i, {"<", ">"}) THEN Redirection(s, redirs, gettoken(s, i))
  ELSE [ok |-> TRUE, redirs |-> redirs, next |-> i]

(* A block: its body, ")", and its redirections. *)
BlockRedirs(cmd, r) == IF r.ok THEN Parsed(Redirected(cmd, r.redirs), r.next) ELSE Panic
BlockEnd(s, body) ==
  IF ~body.ok \/ ~peek(s, body.next, {")"}) THEN Panic
  ELSE BlockRedirs(body.cmd, parseredirs(s, gettoken(s, body.next).next, <<>>))
parseblock(s, i) == BlockEnd(s, parseline(s, gettoken(s, i).next))

(* The loop of parseexec(). *)
MoreArgs(s, argv, r) == IF r.ok THEN Args(s, r.next, argv, r.redirs) ELSE Panic
Arg(s, i, argv, redirs, tok) ==
  IF tok.ret = NUL THEN Parsed(Redirected(execcmd(argv), redirs), i)
  ELSE IF tok.ret # "a" \/ Len(argv) + 1 >= MAXARGS THEN Panic
  ELSE MoreArgs(s, Append(argv, Str(tok)), parseredirs(s, tok.next, redirs))
Args(s, i, argv, redirs) ==
  IF peek(s, i, {"|", ")", "&", ";"}) THEN Parsed(Redirected(execcmd(argv), redirs), i)
  ELSE Arg(s, i, argv, redirs, gettoken(s, i))

parseexec(s, i) ==
  IF peek(s, i, {"("}) THEN parseblock(s, i) ELSE MoreArgs(s, <<>>, parseredirs(s, i, <<>>))

(* The command cmd, made from the one that was parsed last. *)
Joined(cmd, right) == IF right.ok THEN Parsed(cmd, right.next) ELSE Panic

PipeTail(s, left) ==
  IF ~left.ok \/ ~peek(s, left.next, {"|"}) THEN left
  ELSE LET right == parsepipe(s, gettoken(s, left.next).next)
       IN Joined(pipecmd(left.cmd, right.cmd), right)
parsepipe(s, i) == PipeTail(s, parseexec(s, i))

(* The loop for "&". *)
Back(s, i, cmd) ==
  IF peek(s, i, {"&"}) THEN Back(s, gettoken(s, i).next, backcmd(cmd)) ELSE Parsed(cmd, i)
Backed(s, first) == IF first.ok THEN Back(s, first.next, first.cmd) ELSE Panic

LineTail(s, left) ==
  IF ~left.ok \/ ~peek(s, left.next, {";"}) THEN left
  ELSE LET right == parseline(s, gettoken(s, left.next).next)
       IN Joined(listcmd(left.cmd, right.cmd), right)
parseline(s, i) == LineTail(s, Backed(s, parsepipe(s, i)))

RECURSIVE Strings(_)
(* The strings of a tree, which nulterminate() visits. *)
Strings(cmd) ==
  CASE cmd.type = "EXEC" -> Range(cmd.argv)
    [] cmd.type = "REDIR" -> Strings(cmd.cmd) \cup {cmd.redir.file}
    [] cmd.type \in {"PIPE", "LIST"} -> Strings(cmd.left) \cup Strings(cmd.right)
    [] cmd.type = "BACK" -> Strings(cmd.cmd)

nulterminate(s, cmd) ==
  [i \in DOMAIN s |-> IF \E t \in Strings(cmd) : t[2] = i THEN NUL ELSE s[i]]

(* The tree, and the line that its strings point into. *)
Complete(s, r) ==
  IF ~r.ok \/ Past(s, r.next, Blank) # Len(s) + 1 THEN Panic
  ELSE [ok |-> TRUE, cmd |-> r.cmd, buf |-> nulterminate(s, r.cmd)]
parsecmd(s) == Complete(s, parseline(s, 1))

-----------------------------------------------------------------------------
(* The lines that the shell reads, a character at a time. *)
Init == line = <<>>
Type(c) == Len(line) < MaxLine /\ line' = Append(line, c)
getcmd == line' = <<>>
Next == (\E c \in Chars : Type(c)) \/ getcmd
Spec == Init /\ [][Next]_vars

-----------------------------------------------------------------------------
(* The language of the shell, from its grammar alone:                      *)
(*   line ::= pipe "&"* [";" line]        pipe ::= exec ["|" pipe]         *)
(*   exec ::= "(" line ")" redir*  |  (word | redir)*                      *)
(*   redir ::= ("<" | ">" | ">>") word                                     *)
(* A token is a word of maximal length or a symbol; of a run of ">" every  *)
(* two make one.                                                           *)
Run(s, i) == CHOOSE k \in 0 .. i - 1 :
  (\A j \in i - k .. i - 1 : s[j] = ">") /\ (k = i - 1 \/ s[i - k - 1] # ">")

Starts(s) == { i \in DOMAIN s :
  CASE s[i] = ">" -> Run(s, i) % 2 = 0
    [] s[i] \in Word -> i = 1 \/ s[i - 1] \notin Word
    [] OTHER -> s[i] \in Symbols }

Tokens(s) ==
  LET Ends(i) == { j \in i + 1 .. Len(s) + 1 :
        CASE s[i] = ">" -> j = IF Char(s, i + 1) = ">" THEN i + 2 ELSE i + 1
          [] s[i] \in Word -> Char(s, j) \notin Word /\ \A k \in i .. j - 1 : s[k] \in Word
          [] OTHER -> j = i + 1 }
      Tok(i) == LET j == CHOOSE j \in Ends(i) : TRUE IN
                [kind |-> IF s[i] \in Word THEN "a" ELSE IF j = i + 2 THEN "+" ELSE s[i],
                 str |-> <<i, j>>]
      Order == SetToSortSeq(Starts(s), <)
  IN [k \in DOMAIN Order |-> Tok(Order[k])]

Redir(t) == t.kind \in {"<", ">", "+"}

(* The redirections in ts, and its other words. *)
RedirsIn(ts) ==
  LET at == SetToSortSeq({ k \in DOMAIN ts : Redir(ts[k]) }, <)
  IN [k \in DOMAIN at |-> [mode |-> ts[at[k]].kind, file |-> ts[at[k] + 1].str]]
ArgsIn(ts) ==
  LET at == SetToSortSeq({ k \in DOMAIN ts : ts[k].kind = "a" /\ (k = 1 \/ ~Redir(ts[k - 1])) }, <)
  IN [k \in DOMAIN at |-> ts[at[k]].str]
WordsAndRedirs(ts) == \A k \in DOMAIN ts :
  \/ ts[k].kind = "a"
  \/ Redir(ts[k]) /\ k < Len(ts) /\ ts[k + 1].kind = "a"

RECURSIVE Lines(_), Pipes(_)
From(ts, k) == SubSeq(ts, k, Len(ts))
UpTo(ts, k) == SubSeq(ts, 1, k)
At(ts, sym) == { k \in DOMAIN ts : ts[k].kind = sym }

(* The trees of an exec, a pipe and a line: all that the grammar allows. *)
Execs(ts) ==
  (IF WordsAndRedirs(ts) /\ Len(ArgsIn(ts)) < MAXARGS
     THEN {Redirected(execcmd(ArgsIn(ts)), RedirsIn(ts))} ELSE {})
  \cup UNION { { Redirected(c, RedirsIn(From(ts, k + 1))) : c \in Lines(SubSeq(ts, 2, k - 1)) } :
               k \in { k \in At(ts, ")") : /\ ts[1].kind = "(" /\ WordsAndRedirs(From(ts, k + 1))
                                           /\ ArgsIn(From(ts, k + 1)) = <<>> } }
Pipes(ts) ==
  Execs(ts) \cup UNION { { pipecmd(l, r) : l \in Execs(UpTo(ts, k - 1)), r \in Pipes(From(ts, k + 1)) } :
                         k \in At(ts, "|") }
Backs(ts) ==
  UNION { { IF k = 0 THEN c ELSE FoldLeft(LAMBDA d, j : backcmd(d), c, [j \in 1 .. k |-> j]) :
              c \in Pipes(UpTo(ts, Len(ts) - k)) } :
          k \in { k \in 0 .. Len(ts) : \A j \in Len(ts) - k + 1 .. Len(ts) : ts[j].kind = "&" } }
Lines(ts) ==
  Backs(ts) \cup UNION { { listcmd(l, r) : l \in Backs(UpTo(ts, k - 1)), r \in Lines(From(ts, k + 1)) } :
                         k \in At(ts, ";") }

Text(s, t) == SubSeq(s, t[1], t[2] - 1)
Agree(r, Trees) ==
  /\ r.ok <=> Trees # {}
  /\ r.ok => /\ Trees = {r.cmd}
             /\ \A t \in Strings(r.cmd) :
                  Text(r.buf, t) = Text(line, t) /\ Char(r.buf, t[2]) = NUL

(* The parser accepts exactly the lines of the grammar, each has one tree, *)
(* and it is the one that the parser returns; and the zeros that end the   *)
(* strings, written when the tree is complete, leave every string of it as *)
(* it was typed.                                                           *)
ParseRight == Agree(parsecmd(line), Lines(Tokens(line)))
=============================================================================
