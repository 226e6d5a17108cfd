-------------------------------- MODULE MCFs --------------------------------
(* Instances of Fs for TLC. *)
EXTENDS Fs, TLC

Abs(s) == [abs |-> TRUE, elems |-> s]
Rel(s) == [abs |-> FALSE, elems |-> s]

(* A call with one path. *)
C(op, type, path) == [op |-> op, type |-> type, path |-> path, new |-> Abs(<<>>), write |-> FALSE]

(* Directory /a, file /a/b, which may also be /b: names that several calls *)
(* make, look up and remove at once, and a current directory that may go.  *)
AllCalls ==
  { C("mkdir", "dir", Abs(<<"a">>)), C("creat", "file", Abs(<<"a", "b">>)),
    C("unlink", "", Abs(<<"a">>)), C("unlink", "", Rel(<<"b">>)), C("unlink", "", Abs(<<".">>)),
    C("chdir", "", Abs(<<"a">>)), C("exec", "", Rel(<<"b">>)),
    [C("link", "", Rel(<<"b">>)) EXCEPT !.new = Abs(<<"b">>)],
    [C("open", "", Abs(<<"a">>)) EXCEPT !.write = TRUE] }

(* One process makes all of the calls, the other those that race. *)
MCCalls == [p \in Procs |-> IF p = First THEN AllCalls ELSE
  {c \in AllCalls : c.op \in {"creat", "unlink", "chdir", "mkdir"} /\ c.path.elems # <<".">>}]

(* A directory inside another, and a process in it that looks up "..". *)
DotDotCalls == [p \in Procs |->
  { C("mkdir", "dir", Rel(<<"a">>)), C("chdir", "", Rel(<<"a">>)),
    C("unlink", "", Abs(<<"a", "a">>)), C("unlink", "", Abs(<<"a">>)),
    C("open", "", Rel(<<"..">>)) }]
=============================================================================
