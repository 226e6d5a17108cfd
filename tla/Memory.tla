------------------------------- MODULE Memory -------------------------------
(***************************************************************************)
(* User memory: the page allocator kernel/kalloc.c, page tables and user   *)
(* memory kernel/vm.c, and what allocates and frees them: sbrk(), fork(),  *)
(* exec() and the end of a process (kernel/proc.c, exec.c, sysfile.c).     *)
(*                                                                         *)
(* A system call is one action: page tables are private to a process, and  *)
(* the calls meet only in the free list.  How much memory is left when a   *)
(* call starts is arbitrary, so every kalloc() fails in some behaviour.    *)
(* The memory is a record m that the operators take and return: the free   *)
(* list, the pages seen as page tables and as data, and the panic.         *)
(***************************************************************************)
EXTENDS Integers, Sequences, FiniteSets, SequencesExt

CONSTANTS
  Procs, First,        \* processes; the one that exists at the start
  LEVELS, FAN,         \* page-table levels and entries (Sv39: 3 and 512)
  PGSIZE,              \* bytes of a page
  MinPages, MaxPages,  \* physical pages that kinit() frees
  Amounts,             \* arguments of sbrk()
  Programs,            \* what exec() finds in a file
  Copies,              \* addresses and lengths of copyout()
  MaxCalls             \* number of system calls

MAXVA == FAN ^ LEVELS               \* in pages
TRAMPOLINE == MAXVA - 1
TRAPFRAME == MAXVA - 2
UINTS == 2 ^ 16                     \* the values of a uint, more than any size
Pages == 1 .. MaxPages
TrampolinePage == 0                 \* kernel text, not from kalloc()

VARIABLES
  m,             \* the memory: free, tab, val, why
  pagetable, sz, trapframe,   \* struct proc; pagetable 0: no process
  image,         \* history: what the process should find, byte by byte
  calls

vars == <<m, pagetable, sz, trapframe, image, calls>>

NoPTE == [v |-> FALSE, leaf |-> FALSE, u |-> FALSE, pa |-> 0]
Table(pte) == [k \in 0 .. FAN - 1 |-> pte]
Fill(x) == [k \in 0 .. PGSIZE - 1 |-> x]

PGROUNDUP(n) == ((n + PGSIZE - 1) \div PGSIZE) * PGSIZE

(* memset(): a page of bytes x, and what it is as a page table. *)
Zeroed(s, pg) == [s EXCEPT !.tab[pg] = Table(NoPTE), !.val[pg] = Fill("0")]
Junk(s, pg) == [s EXCEPT !.tab[pg] = Table([NoPTE EXCEPT !.v = TRUE, !.leaf = TRUE]),
                         !.val[pg] = Fill("junk")]

(* kalloc(): the first page of the free list, or no page: 0. *)
Top(s) == IF s.free = <<>> THEN 0 ELSE Head(s.free)
kalloc(s) == IF s.free = <<>> THEN s ELSE Junk([s EXCEPT !.free = Tail(@)], Head(s.free))

kfree(s, pg) ==
  IF pg \notin Pages THEN [s EXCEPT !.why = "kfree"]
  ELSE Junk([s EXCEPT !.free = <<pg>> \o @], pg)

(* Failed assertions; the first one counts. *)
Fails(s, why) == [s EXCEPT !.why = IF @ = "" THEN why ELSE @]

-----------------------------------------------------------------------------
(* The index of virtual page v at a level. *)
PX(level, v) == (v \div FAN ^ level) % FAN

(* walk(): the page-table page that has the PTE of v, 0 if there is none   *)
(* and none can be made, and the memory then.                              *)
RECURSIVE Walk(_, _, _, _, _)
Walk(s, t, level, v, alloc) ==
  LET k == PX(level, v)
      pte == s.tab[t][k]
  IN
  IF level = 0 THEN [m |-> s, t |-> t]
  ELSE IF pte.v THEN Walk(s, pte.pa, level - 1, v, alloc)
  ELSE IF ~alloc \/ s.free = <<>> THEN [m |-> s, t |-> 0]
  ELSE LET new == Top(s) IN
       Walk([Zeroed(kalloc(s), new) EXCEPT !.tab[t][k] = [NoPTE EXCEPT !.v = TRUE, !.pa = new]],
            new, level - 1, v, alloc)

walk(s, root, v, alloc) ==
  IF v >= MAXVA THEN [m |-> Fails(s, "walk"), t |-> 0] ELSE Walk(s, root, LEVELS - 1, v, alloc)

(* The PTE of v in the page-table page t; the PTE of v, without allocating. *)
PteIn(s, t, v) == IF t = 0 THEN NoPTE ELSE s.tab[t][PX(0, v)]
PteOf(s, root, v) == PteIn(s, walk(s, root, v, FALSE).t, v)

(* Mutant of walkaddr(): PTE_U is not tested. *)
Mut_walkaddr(s, root, v) == IF v >= MAXVA THEN 0 ELSE PteOf(s, root, v).pa

(* walkaddr(): the page of a user address, 0 if not mapped. *)
UserPage(pte) == IF pte.v /\ pte.u THEN pte.pa ELSE 0
walkaddr(s, root, v) == IF v >= MAXVA THEN 0 ELSE UserPage(PteOf(s, root, v))

(* mappages() of one page, given what walk() has returned. *)
MapAt(w, v, pa, u) ==
  IF w.t = 0 THEN [m |-> w.m, ok |-> FALSE]
  ELSE IF w.m.tab[w.t][PX(0, v)].v THEN [m |-> Fails(w.m, "mappages: remap"), ok |-> FALSE]
  ELSE [m |-> [w.m EXCEPT !.tab[w.t][PX(0, v)] =
                [v |-> TRUE, leaf |-> TRUE, u |-> u, pa |-> pa]],
        ok |-> TRUE]
mappages(s, root, v, pa, u) == MapAt(walk(s, root, v, TRUE), v, pa, u)

(* uvmunmap() of n pages from v; t has the PTE of the first. *)
RECURSIVE uvmunmap(_, _, _, _, _)
UnmapAt(s, root, v, n, do_free, t) ==
  LET pte == s.tab[t][PX(0, v)] IN
  IF t = 0 THEN Fails(s, "uvmunmap: walk")
  ELSE IF ~pte.v THEN Fails(s, "uvmunmap: not mapped")
  ELSE IF ~pte.leaf THEN Fails(s, "uvmunmap: not a leaf")
  ELSE uvmunmap([(IF do_free THEN kfree(s, pte.pa) ELSE s) EXCEPT !.tab[t][PX(0, v)] = NoPTE],
                root, v + 1, n - 1, do_free)
uvmunmap(s, root, v, n, do_free) ==
  IF n = 0 \/ s.why # "" THEN s
  ELSE UnmapAt(s, root, v, n, do_free, walk(s, root, v, FALSE).t)

(* uvmdealloc(): the memory, and the size it returns. *)
uvmdealloc(s, root, oldsz, newsz) ==
  IF newsz >= oldsz THEN [m |-> s, sz |-> oldsz]
  ELSE [m |-> uvmunmap(s, root, PGROUNDUP(newsz) \div PGSIZE,
                       (PGROUNDUP(oldsz) - PGROUNDUP(newsz)) \div PGSIZE, TRUE),
        sz |-> newsz]

(* The loop of uvmalloc() at address a: on failure all is undone. *)
RECURSIVE Grow(_, _, _, _, _)
GrownBy(root, a, oldsz, newsz, mem, map) ==
  IF map.ok THEN Grow(map.m, root, a + PGSIZE, oldsz, newsz)
  ELSE [m |-> uvmdealloc(kfree(map.m, mem), root, a, oldsz).m, sz |-> 0]
Grow(s, root, a, oldsz, newsz) ==
  IF a >= newsz THEN [m |-> s, sz |-> newsz]
  ELSE IF Top(s) = 0 THEN [m |-> uvmdealloc(s, root, a, oldsz).m, sz |-> 0]
  ELSE GrownBy(root, a, oldsz, newsz, Top(s),
               mappages(Zeroed(kalloc(s), Top(s)), root, a \div PGSIZE, Top(s), TRUE))

uvmalloc(s, root, oldsz, newsz) ==
  IF newsz < oldsz THEN [m |-> s, sz |-> oldsz]
  ELSE Grow(s, root, PGROUNDUP(oldsz), PGROUNDUP(oldsz), newsz)

(* freewalk() of the table t, and of its entries from k on. *)
RECURSIVE freewalk(_, _, _)
freewalk(s, t, k) ==
  LET pte == s.tab[t][k] IN
  IF k = FAN THEN kfree(s, t)
  ELSE IF pte.v /\ pte.leaf THEN Fails(s, "freewalk: leaf")
  ELSE freewalk(IF pte.v THEN freewalk(s, pte.pa, 0) ELSE s, t, k + 1)

uvmfree(s, root, size) ==
  freewalk(uvmunmap(s, root, 0, PGROUNDUP(size) \div PGSIZE, TRUE), root, 0)

(* uvmcopy(): pages v .. n-1 of the old table into the new one. *)
RECURSIVE CopyPages(_, _, _, _, _)
Copied(old, new, v, n, mem, map) ==
  IF map.ok THEN CopyPages(map.m, old, new, v + 1, n)
  ELSE [m |-> uvmunmap(kfree(map.m, mem), new, 0, v, TRUE), ok |-> FALSE]
CopyPage(s, old, new, v, n, pte) ==
  IF ~pte.v THEN [m |-> Fails(s, "uvmcopy: page not present"), ok |-> FALSE]
  ELSE IF Top(s) = 0 THEN [m |-> uvmunmap(s, new, 0, v, TRUE), ok |-> FALSE]
  ELSE Copied(old, new, v, n, Top(s),
              mappages([kalloc(s) EXCEPT !.val[Top(s)] = s.val[pte.pa], !.tab[Top(s)] = s.tab[pte.pa]],
                       new, v, Top(s), pte.u))
CopyPages(s, old, new, v, n) ==
  IF v = n THEN [m |-> s, ok |-> TRUE] ELSE CopyPage(s, old, new, v, n, PteOf(s, old, v))

uvmcopy(s, old, new, size) == CopyPages(s, old, new, 0, PGROUNDUP(size) \div PGSIZE)

uvmclear(s, root, v) == [s EXCEPT !.tab[walk(s, root, v, FALSE).t][PX(0, v)].u = FALSE]

(* How many of len bytes at address a are in its page; the page after it. *)
Chunk(a, len) == Min({len, PGSIZE - (a % PGSIZE)})
NextPage(a) == (a \div PGSIZE + 1) * PGSIZE

(* copyout() of len bytes x to address a, a page at a time: a page that is *)
(* not the user's (pa 0) stops it, with the pages before it written.       *)
RECURSIVE copyout(_, _, _, _, _)
CopyoutTo(s, root, a, x, len, pa) ==
  IF pa = 0 THEN [m |-> s, ok |-> FALSE]
  ELSE copyout([s EXCEPT !.val[pa] = [k \in DOMAIN @ |->
                  IF a % PGSIZE <= k /\ k < (a % PGSIZE) + Chunk(a, len) THEN x ELSE @[k]]],
               root, NextPage(a), x, len - Chunk(a, len))
copyout(s, root, a, x, len) ==
  IF len = 0 THEN [m |-> s, ok |-> TRUE]
  ELSE CopyoutTo(s, root, a, x, len, walkaddr(s, root, a \div PGSIZE))

Nothing == [ok |-> FALSE, b |-> <<>>]
Before(part, rest) == [ok |-> rest.ok, b |-> part \o rest.b]
Part(s, pa, a, len) == [k \in 1 .. Chunk(a, len) |-> s.val[pa][(a % PGSIZE) + k - 1]]

(* copyin(): the len bytes at address a, or none. *)
RECURSIVE copyin(_, _, _, _)
CopyinFrom(s, root, a, len, pa) ==
  IF pa = 0 THEN Nothing
  ELSE Before(Part(s, pa, a, len), copyin(s, root, NextPage(a), len - Chunk(a, len)))
copyin(s, root, a, len) ==
  IF len = 0 THEN [ok |-> TRUE, b |-> <<>>]
  ELSE CopyinFrom(s, root, a, len, walkaddr(s, root, a \div PGSIZE))

(* copyinstr(): bytes from a up to a zero byte, at most max, or none. *)
RECURSIVE copyinstr(_, _, _, _)
CopyinstrPart(s, root, a, max, part) ==
  IF "0" \in Range(part)
    THEN [ok |-> TRUE, b |-> SubSeq(part, 1, SelectInSeq(part, LAMBDA c : c = "0") - 1)]
  ELSE Before(part, copyinstr(s, root, NextPage(a), max - Chunk(a, max)))
CopyinstrFrom(s, root, a, max, pa) ==
  IF pa = 0 THEN Nothing ELSE CopyinstrPart(s, root, a, max, Part(s, pa, a, max))
copyinstr(s, root, a, max) ==
  IF max = 0 THEN Nothing
  ELSE CopyinstrFrom(s, root, a, max, walkaddr(s, root, a \div PGSIZE))

-----------------------------------------------------------------------------
(* proc_pagetable(): a table with the trampoline and the trapframe tf, or 0. *)
FrameMapped(root, frame) ==
  IF frame.ok THEN [m |-> frame.m, root |-> root]
  ELSE [m |-> uvmfree(uvmunmap(frame.m, root, TRAMPOLINE, 1, FALSE), root, 0), root |-> 0]
TrampMapped(root, tf, tramp) ==
  IF tramp.ok THEN FrameMapped(root, mappages(tramp.m, root, TRAPFRAME, tf, FALSE))
  ELSE [m |-> uvmfree(tramp.m, root, 0), root |-> 0]
proc_pagetable(s, tf) ==
  IF Top(s) = 0 THEN [m |-> s, root |-> 0]
  ELSE TrampMapped(Top(s), tf, mappages(Zeroed(kalloc(s), Top(s)), Top(s), TRAMPOLINE,
                                        TrampolinePage, FALSE))

proc_freepagetable(s, root, size) ==
  uvmfree(uvmunmap(uvmunmap(s, root, TRAMPOLINE, 1, FALSE), root, TRAPFRAME, 1, FALSE),
          root, size)

(* freeproc(): the trapframe tf and the page table, those that exist. *)
freeproc(s, tf, root, size) ==
  LET s1 == IF tf = 0 THEN s ELSE kfree(s, tf) IN
  IF root = 0 THEN s1 ELSE proc_freepagetable(s1, root, size)

(* Mutant of allocproc(): a failed proc_pagetable() keeps the trapframe. *)
Mut_Allocated(tf, pt) == [m |-> pt.m, tf |-> IF pt.root = 0 THEN 0 ELSE tf, root |-> pt.root]

(* allocproc(): a trapframe and a page table, or neither (root 0). *)
Allocated(tf, pt) ==
  IF pt.root = 0 THEN [m |-> freeproc(pt.m, tf, 0, 0), tf |-> 0, root |-> 0]
  ELSE [m |-> pt.m, tf |-> tf, root |-> pt.root]
allocproc(s) ==
  IF Top(s) = 0 THEN [m |-> s, tf |-> 0, root |-> 0]
  ELSE Allocated(Top(s), proc_pagetable(kalloc(s), Top(s)))

(* growproc(): p->sz is copied into a uint, so a shrink below 0 wraps to a *)
(* large size, which uvmdealloc() ignores.  ok: what it returns.           *)
Raised(size, up) == [m |-> up.m, sz |-> IF up.sz = 0 THEN size ELSE up.sz, ok |-> up.sz # 0]
Lowered(down) == [m |-> down.m, sz |-> down.sz, ok |-> TRUE]
growproc(s, root, size, n) ==
  IF n > 0 THEN Raised(size, uvmalloc(s, root, size, (size + n) % UINTS))
  ELSE IF n < 0 THEN Lowered(uvmdealloc(s, root, size, (size + n) % UINTS))
  ELSE [m |-> s, sz |-> size, ok |-> TRUE]

(* loadseg(): the pages of a segment's filesz bytes, in place. *)
RECURSIVE loadseg(_, _, _, _)
LoadPage(s, root, seg, i, pa) ==
  IF pa = 0 THEN [m |-> Fails(s, "loadseg"), ok |-> FALSE]
  ELSE IF ~seg.read THEN [m |-> s, ok |-> FALSE]
  ELSE loadseg([s EXCEPT !.val[pa] = [k \in DOMAIN @ |-> IF i + k < seg.filesz THEN seg.tag ELSE @[k]]],
               root, seg, i + PGSIZE)
loadseg(s, root, seg, i) ==
  IF i >= seg.filesz THEN [m |-> s, ok |-> TRUE]
  ELSE LoadPage(s, root, seg, i, walkaddr(s, root, (seg.va + i) \div PGSIZE))

(* The loop of exec() over the segments: the memory and size it ends with. *)
RECURSIVE Load(_, _, _, _)
Loaded(root, size, segs, loaded) ==
  IF loaded.ok THEN Load(loaded.m, root, size, Tail(segs))
  ELSE [m |-> loaded.m, sz |-> size, ok |-> FALSE]
LoadAt(root, size, segs, grown) ==
  IF grown.sz = 0 THEN [m |-> grown.m, sz |-> size, ok |-> FALSE]
  ELSE IF Head(segs).va % PGSIZE # 0 THEN [m |-> grown.m, sz |-> grown.sz, ok |-> FALSE]
  ELSE Loaded(root, grown.sz, segs, loadseg(grown.m, root, Head(segs), 0))
Load(s, root, size, segs) ==
  IF segs = <<>> THEN [m |-> s, sz |-> size, ok |-> TRUE]
  ELSE IF Head(segs).memsz < Head(segs).filesz THEN [m |-> s, sz |-> size, ok |-> FALSE]
  ELSE LoadAt(root, size, segs, uvmalloc(s, root, size, Head(segs).va + Head(segs).memsz))

(* exec(): a new page table with the program, a guard page and a stack with *)
(* the arguments; the old one is freed only when nothing can fail any more. *)
(* old: the trapframe, page table and size that the process has.           *)
Unchanged(s, old) == [m |-> s, root |-> old.root, sz |-> old.sz, ok |-> FALSE]
bad(s, old, new, size) == Unchanged(proc_freepagetable(s, new, size), old)
Commit(old, prog, new, size, args) ==
  IF ~prog.fit \/ ~args.ok THEN bad(args.m, old, new, size)
  ELSE [m |-> proc_freepagetable([args.m EXCEPT !.val[old.tf] = Fill(prog.name)], old.root, old.sz),
        root |-> new, sz |-> size, ok |-> TRUE]
PushArgs(old, prog, new, base, stack) ==
  IF stack.sz = 0 THEN bad(stack.m, old, new, base)
  ELSE Commit(old, prog, new, stack.sz,
              copyout(uvmclear(stack.m, new, base \div PGSIZE), new, stack.sz - 1, "args", 1))
MakeStack(old, prog, new, load) ==
  IF ~load.ok THEN bad(load.m, old, new, load.sz)
  ELSE PushArgs(old, prog, new, PGROUNDUP(load.sz),
                uvmalloc(load.m, new, PGROUNDUP(load.sz), PGROUNDUP(load.sz) + 2 * PGSIZE))
LoadProgram(old, prog, pt) ==
  IF pt.root = 0 THEN Unchanged(pt.m, old)
  ELSE MakeStack(old, prog, pt.root, Load(pt.m, pt.root, 0, prog.segs))
exec(s, old, prog) ==
  IF prog.elf THEN LoadProgram(old, prog, proc_pagetable(s, old.tf)) ELSE Unchanged(s, old)

(* The pages of the arguments in sys_exec(): one per argument; it stops    *)
(* when there is no page or when the last argument cannot be fetched.      *)
RECURSIVE ArgPages(_, _, _)
ArgPages(s, prog, pages) ==
  IF Len(pages) = prog.args THEN [m |-> s, pages |-> pages, ok |-> prog.fetch]
  ELSE IF Top(s) = 0 THEN [m |-> s, pages |-> pages, ok |-> FALSE]
  ELSE ArgPages(kalloc(s), prog, Append(pages, Top(s)))

FreeAll(s, pages) == FoldLeft(kfree, s, pages)

-----------------------------------------------------------------------------
(* What a process should find: its bytes up to the end of its last page,   *)
(* "guard" where it may not look, and its registers.                       *)
NoImage == [mem |-> <<>>, regs |-> "none"]
Bytes(n, F(_)) == [k \in 1 .. n |-> F(k - 1)]
Resized(mem, n) == [k \in 1 .. PGROUNDUP(n) |-> IF k <= Len(mem) THEN mem[k] ELSE "0"]

(* The image of a program: its segments, a guard page, a stack. *)
ProgramImage(prog) ==
  LET base == PGROUNDUP(Max({ sg.va + sg.memsz : sg \in Range(prog.segs) }))
      Holds(a) == { k \in DOMAIN prog.segs : prog.segs[k].va <= a
                      /\ a < prog.segs[k].va + prog.segs[k].filesz }
      Byte(a) == IF Holds(a) # {} THEN prog.segs[Max(Holds(a))].tag
                 ELSE IF a = base + 2 * PGSIZE - 1 THEN "args"
                 ELSE IF base <= a /\ a < base + PGSIZE THEN "guard" ELSE "0"
  IN [mem |-> Bytes(base + 2 * PGSIZE, Byte), regs |-> prog.name]

(* Byte a of the image, "none" outside it; how many of len bytes at a the  *)
(* process may use.                                                        *)
ImageAt(im, a) == IF a < Len(im.mem) THEN im.mem[a + 1] ELSE "none"
Usable(im, a, len) ==
  Max({ n \in 0 .. len : \A k \in a .. a + n - 1 : ImageAt(im, k) \notin {"guard", "none"} })

Live(p) == pagetable[p] # 0
Running(p) == m.why = "" /\ Live(p) /\ calls < MaxCalls /\ calls' = calls + 1

(* kinit() and userinit(): n free pages, and the first process, with a page *)
(* of code.                                                                *)
Kinit(n) == [total |-> n, free |-> [k \in 1 .. n |-> n + 1 - k], why |-> "",
             tab |-> [pg \in Pages |-> Table(NoPTE)], val |-> [pg \in Pages |-> Fill("junk")]]
InitCode == [k \in 0 .. PGSIZE - 1 |-> IF k = 0 THEN "init" ELSE "0"]
Userinit(a) ==
  /\ m = [mappages(Zeroed(kalloc(a.m), Top(a.m)), a.root, 0, Top(a.m), TRUE).m
            EXCEPT !.val[Top(a.m)] = InitCode, !.val[a.tf] = Fill("init")]
  /\ pagetable = [p \in Procs |-> IF p = First THEN a.root ELSE 0]
  /\ trapframe = [p \in Procs |-> IF p = First THEN a.tf ELSE 0]

Init ==
  /\ \E n \in MinPages .. MaxPages : Userinit(allocproc(Kinit(n)))
  /\ sz = [p \in Procs |-> IF p = First THEN PGSIZE ELSE 0]
  /\ image = [p \in Procs |-> IF p = First
                THEN [mem |-> Bytes(PGSIZE, LAMBDA k : InitCode[k]), regs |-> "init"]
                ELSE NoImage]
  /\ calls = 0

(* sys_sbrk(); g: what growproc() did. *)
SbrkDone(p, n, g) ==
  /\ m' = g.m
  /\ sz' = [sz EXCEPT ![p] = g.sz]
  /\ image' = [image EXCEPT ![p].mem = IF g.ok /\ sz[p] + n >= 0 THEN Resized(@, sz[p] + n) ELSE @]
  /\ UNCHANGED <<pagetable, trapframe>>
Sbrk(p, n) == Running(p) /\ SbrkDone(p, n, growproc(m, pagetable[p], sz[p], n))

(* fork(): process q is made, or nothing is. *)
ForkFails(s) == m' = s /\ UNCHANGED <<pagetable, trapframe, sz, image>>
ForkDone(p, q, a, copy) ==
  IF ~copy.ok THEN ForkFails(freeproc(copy.m, a.tf, a.root, 0))
  ELSE /\ m' = [copy.m EXCEPT !.val[a.tf] = m.val[trapframe[p]]]
       /\ pagetable' = [pagetable EXCEPT ![q] = a.root]
       /\ trapframe' = [trapframe EXCEPT ![q] = a.tf]
       /\ sz' = [sz EXCEPT ![q] = sz[p]]
       /\ image' = [image EXCEPT ![q] = image[p]]
ForkCopy(p, q, a) ==
  IF a.root = 0 THEN ForkFails(a.m)
  ELSE ForkDone(p, q, a, uvmcopy(a.m, pagetable[p], a.root, sz[p]))
Fork(p, q) == Running(p) /\ ~Live(q) /\ ForkCopy(p, q, allocproc(m))

(* sys_exec(): the pages of the arguments are freed in the end. *)
ExecDone(p, prog, pages, e) ==
  /\ m' = FreeAll(e.m, pages)
  /\ pagetable' = [pagetable EXCEPT ![p] = e.root]
  /\ sz' = [sz EXCEPT ![p] = e.sz]
  /\ image' = IF e.ok THEN [image EXCEPT ![p] = ProgramImage(prog)] ELSE image
  /\ UNCHANGED trapframe
ExecArgs(p, prog, old, arg) ==
  ExecDone(p, prog, arg.pages, IF arg.ok THEN exec(arg.m, old, prog) ELSE Unchanged(arg.m, old))
Exec(p, prog) ==
  /\ Running(p)
  /\ ExecArgs(p, prog, [tf |-> trapframe[p], root |-> pagetable[p], sz |-> sz[p]],
              ArgPages(m, prog, <<>>))

(* freeproc() of a process that its parent has waited for. *)
Reap(p) ==
  /\ Running(p) /\ p # First
  /\ m' = freeproc(m, trapframe[p], pagetable[p], sz[p])
  /\ pagetable' = [pagetable EXCEPT ![p] = 0]
  /\ trapframe' = [trapframe EXCEPT ![p] = 0]
  /\ sz' = [sz EXCEPT ![p] = 0]
  /\ image' = [image EXCEPT ![p] = NoImage]

(* A system call that copies data to the process. *)
Copyout(p, c) ==
  /\ Running(p)
  /\ m' = copyout(m, pagetable[p], c.a, c.x, c.len).m
  /\ image' = [image EXCEPT ![p].mem = [k \in DOMAIN @ |->
        IF c.a < k /\ k <= c.a + Usable(image[p], c.a, c.len) THEN c.x ELSE @[k]]]
  /\ UNCHANGED <<pagetable, sz, trapframe>>

Next ==
  \E p \in Procs :
    \/ \E n \in Amounts : Sbrk(p, n)
    \/ \E q \in Procs : Fork(p, q)
    \/ \E prog \in Programs : Exec(p, prog)
    \/ Reap(p)
    \/ \E c \in Copies : Copyout(p, c)

Spec == Init /\ [][Next]_vars

-----------------------------------------------------------------------------
(* The pages of a table and of what it maps, the trampoline left out. *)
RECURSIVE PagesOf(_, _)
PagesOf(t, level) ==
  LET Under(pte) == IF ~pte.v \/ pte.pa = TrampolinePage THEN <<>>
                    ELSE IF level = 0 THEN <<pte.pa>> ELSE PagesOf(pte.pa, level - 1)
  IN <<t>> \o FlattenSeq([k \in 1 .. FAN |-> Under(m.tab[t][k - 1])])

(* Every page of memory is on the free list or belongs to one process, as  *)
(* page table, trapframe or user memory, and to it once: no call leaks a   *)
(* page or frees one twice, also when it fails half way (uvmalloc(),       *)
(* uvmcopy(), proc_pagetable(), the bad: labels of exec() and sys_exec()), *)
(* and no assertion of vm.c fails.                                         *)
PagesAccounted ==
  LET all == m.free \o FlattenSeq(SetToSeq({ PagesOf(pagetable[p], LEVELS - 1) :
                                             p \in { q \in Procs : Live(q) } }))
  IN /\ m.why = ""
     /\ Len(all) = m.total
     /\ Range(all) = 1 .. m.total

(* What copyin() (in) and copyinstr() (str) of PGSIZE + 1 bytes at address *)
(* a give, compared with the image; zeros: where a string may end.         *)
CopiesRight(im, a, in, str, zeros) ==
  /\ in.ok = (Usable(im, a, PGSIZE + 1) = PGSIZE + 1)
  /\ in.ok => in.b = SubSeq(im.mem, a + 1, a + PGSIZE + 1)
  /\ str.ok = (zeros # {} /\ Usable(im, a, PGSIZE + 1) > Min(zeros))
  /\ str.ok => str.b = SubSeq(im.mem, a + 1, a + Min(zeros))

(* A process finds in its memory exactly what it should: a failed call     *)
(* leaves the old contents (exec() is all or nothing, sbrk() and fork()    *)
(* are undone), a fork shares no page, new memory is zero, and the guard   *)
(* page and what lies beyond the size cannot be read by copyin() or by     *)
(* copyinstr(), which agree with the bytes one by one.                     *)
MemoryRight ==
  \A p \in { q \in Procs : Live(q) } :
    LET im == image[p]
        size == Len(im.mem)
    IN
    /\ size = PGROUNDUP(sz[p])
    /\ PteOf(m, pagetable[p], TRAPFRAME) = [v |-> TRUE, leaf |-> TRUE, u |-> FALSE, pa |-> trapframe[p]]
    /\ m.val[trapframe[p]] = Fill(im.regs)
    /\ \A v \in size \div PGSIZE .. MAXVA - 3 : PteOf(m, pagetable[p], v) = NoPTE
    /\ \A a \in 0 .. size :
         CopiesRight(im, a, copyin(m, pagetable[p], a, PGSIZE + 1),
                     copyinstr(m, pagetable[p], a, PGSIZE + 1),
                     { k \in 0 .. PGSIZE : ImageAt(im, a + k) = "0" })

=============================================================================
