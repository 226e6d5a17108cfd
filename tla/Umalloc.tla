------------------------------ MODULE Umalloc -------------------------------
(***************************************************************************)
(* The allocator of user programs, user/umalloc.c: a circular list of free *)
(* blocks in the order of their addresses, each with a header.  The unit   *)
(* is the header; base is at address 0, below the heap.  Sizes are in      *)
(* units, header included, and small enough for their uint and for sbrk(). *)
(* What the code leaves in a header that is none any more is erased here.  *)
(***************************************************************************)
EXTENDS Integers, FiniteSets

CONSTANTS
  HEAP,       \* last unit that sbrk() can give
  CHUNK,      \* least number of units that morecore() asks for
  Requests    \* numbers of units

VARIABLES
  h,          \* s.ptr and s.size of the headers, freep, and the break
  used,       \* history: the blocks that the program has, address and size
  other,      \* history: units that the program took with its own sbrk()
  refused     \* history: the request that has just been refused, or 0

vars == <<h, used, other, refused>>

base == 0
Null == -1

Init ==
  /\ h = [ptr |-> [a \in 0 .. HEAP |-> Null], size |-> [a \in 0 .. HEAP |-> 0], freep |-> Null, brk |-> 1]
  /\ used = {} /\ other = {} /\ refused = 0

RECURSIVE FindPlace(_, _, _)
(* The free block after which bp belongs. *)
FindPlace(m, p, bp) ==
  LET next == m.ptr[p] IN
  IF (bp > p /\ bp < next) \/ (p >= next /\ (bp > p \/ bp < next)) THEN p
  ELSE FindPlace(m, next, bp)

(* Mutant of JoinAbove: bp is never joined to the block above it. *)
Mut_JoinAbove(m, p, bp) == [m EXCEPT !.ptr[bp] = m.ptr[p]]

(* bp in front of the block above it, or joined to it. *)
JoinAbove(m, p, bp) ==
  LET next == m.ptr[p] IN
  IF bp + m.size[bp] = next
    THEN [m EXCEPT !.size[bp] = @ + m.size[next], !.ptr[bp] = m.ptr[next],
                   !.size[next] = 0, !.ptr[next] = Null]
    ELSE [m EXCEPT !.ptr[bp] = next]

(* bp behind p, or joined to it. *)
JoinBelow(m, p, bp) ==
  IF p + m.size[p] = bp THEN [m EXCEPT !.size[p] = @ + m.size[bp], !.ptr[p] = m.ptr[bp],
                                       !.size[bp] = 0, !.ptr[bp] = Null]
  ELSE [m EXCEPT !.ptr[p] = bp]

free(m, bp) ==
  LET p == FindPlace(m, m.freep, bp) IN
  [JoinBelow(JoinAbove(m, p, bp), p, bp) EXCEPT !.freep = p]

(* sbrk() fails when memory is short. *)
CanGrow(m, n) == m.brk + n <= HEAP + 1

CoreFor(nu) == IF nu < CHUNK THEN CHUNK ELSE nu
morecore(m, nu) ==
  LET n == CoreFor(nu) IN
  free([m EXCEPT !.brk = @ + n, !.size[m.brk] = n], m.brk)

(* n units of the block p: all of it, or its end. *)
Taken(m, prevp, p, n) ==
  LET rest == m.size[p] - n IN
  IF rest = 0 THEN [heap |-> [m EXCEPT !.ptr[prevp] = m.ptr[p], !.ptr[p] = Null, !.freep = prevp], addr |-> p]
  ELSE [heap |-> [m EXCEPT !.size[p] = rest, !.size[p + rest] = n, !.freep = prevp], addr |-> p + rest]

RECURSIVE Search(_, _, _, _)
(* The loop of malloc(). *)
Search(m, prevp, p, n) ==
  IF m.size[p] >= n THEN Taken(m, prevp, p, n)
  ELSE IF p # m.freep THEN Search(m, p, m.ptr[p], n)
  ELSE IF ~CanGrow(m, CoreFor(n)) THEN [heap |-> m, addr |-> Null]
  ELSE LET more == morecore(m, n) IN Search(more, more.freep, more.ptr[more.freep], n)

malloc(m, n) ==
  LET m0 == IF m.freep # Null THEN m
            ELSE [m EXCEPT !.ptr[base] = base, !.size[base] = 0, !.freep = base]
  IN Search(m0, m0.freep, m0.ptr[m0.freep], n)

Malloc(n) ==
  LET r == malloc(h, n) IN
  /\ h' = r.heap
  /\ used' = IF r.addr = Null THEN used ELSE used \cup {<<r.addr, n>>}
  /\ refused' = IF r.addr = Null THEN n ELSE 0
  /\ UNCHANGED other

FreeOne(b) ==
  /\ h' = free(h, b[1]) /\ used' = used \ {b} /\ refused' = 0
  /\ UNCHANGED other

(* The program moves the break itself. *)
Sbrk ==
  /\ CanGrow(h, 1)
  /\ h' = [h EXCEPT !.brk = @ + 1] /\ other' = other \cup {h.brk} /\ refused' = 0
  /\ UNCHANGED used

Next == (\E n \in Requests : Malloc(n)) \/ (\E b \in used : FreeOne(b)) \/ Sbrk

Spec == Init /\ [][Next]_vars

-----------------------------------------------------------------------------
Units(b) == b[1] .. b[1] + b[2] - 1

RECURSIVE ListFrom(_, _)
(* The headers that the list reaches, starting after base. *)
ListFrom(a, seen) == IF a \in seen THEN seen ELSE ListFrom(h.ptr[a], seen \cup {a})

(* Every unit below the break belongs to exactly one free block, block of  *)
(* the program or sbrk() of its own: nothing is handed out twice or lost,  *)
(* whatever the order of malloc() and free().  The free list is one cycle  *)
(* through base in the order of the addresses, no two free blocks touch,   *)
(* freep is on it, the header of each block in use still has its size, and *)
(* a request is refused only when no free block is large enough.           *)
HeapRight ==
  h.freep # Null =>
  LET List == ListFrom(base, {})
      FreeBlocks == { <<a, h.size[a]>> : a \in List \ {base} }
      Above(a) == { b \in List : b > a }
  IN /\ h.freep \in List
     /\ \A a \in List : h.ptr[a] = IF Above(a) = {} THEN base
                                   ELSE CHOOSE b \in Above(a) : \A c \in Above(a) : b <= c
     /\ \A u \in 1 .. h.brk - 1 :
          Cardinality({ b \in FreeBlocks \cup used : u \in Units(b) }) = IF u \in other THEN 0 ELSE 1
     /\ \A b \in FreeBlocks \cup used : b[2] > 0 /\ Units(b) \subseteq 1 .. h.brk - 1
     /\ \A b \in FreeBlocks : b[1] + b[2] \notin List
     /\ \A b \in used : h.size[b[1]] = b[2]
     /\ refused > 0 => \A b \in FreeBlocks : b[2] < refused
=============================================================================
