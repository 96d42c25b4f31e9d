------------------------------- MODULE Memory -------------------------------
(***************************************************************************)
(* Who holds which page: the reference counts of kernel/memory/physical.c, *)
(* address spaces with lazy pages and copy on write (kernel/memory/        *)
(* virtual.c and usercopy.c, arch/arm64/mmu/virtual.c), and the shared     *)
(* memory objects of kernel/syscalls/shm.c that lend their pages to them.  *)
(*                                                                         *)
(* One action is one critical section of shm_lock or buddy_lock, with what *)
(* a process does to its own address space around it.  A copy-on-write     *)
(* fault reads the count, remaps, and gives the old page back in steps of  *)
(* their own, and fork() takes one step per area and per page: the other   *)
(* holders of a page may do anything in between.                           *)
(* Page-table pages below the directory are left out; that a mapping may   *)
(* fail for want of one is a fault.  Calls that fail and put everything    *)
(* back are left out.                                                      *)
(***************************************************************************)
EXTENDS Naturals, FiniteSets, Sequences, SequencesExt

CONSTANTS
  PageCount,     \* pages of the arena
  RefMax,        \* largest refcount (0xFFFF)
  Spaces,        \* address spaces, one per process
  Threads,       \* threads of a process that may fault at the same time, 1 .. Threads
  AnonPages,     \* user pages USER_MMAP_START .. USER_MMAP_END, as 1 .. AnonPages
  ShmPages,      \* user pages USER_SHM_START .. USER_SHM_END, after those
  Slots,         \* shm_objects[]
  Names,         \* names of objects
  Files,         \* open file descriptions
  SHM_GLOBAL_MAX_PAGES,
  MaxIds,        \* bound: objects ever created
  MaxCalls,      \* bound: calls of mmap(), munmap(), fork(), close() and the shm_ calls
  MaxWrites,     \* bound: writes to memory
  MaxFaults,     \* bound: allocations of kernel memory and of tables that fail
  Calls          \* which of the optional calls programs make

MemoryAssumption ==
  /\ PageCount \in Nat /\ RefMax \in Nat \ {0}
  /\ Threads \in Nat \ {0} /\ AnonPages \in Nat /\ ShmPages \in Nat
  /\ SHM_GLOBAL_MAX_PAGES \in Nat
  /\ Calls \subseteq {"mmap", "munmap", "shm", "copy_to_user", "mprotect", "remap_fails"}

Pages == 1 .. PageCount
UserPages == 1 .. AnonPages + ShmPages
ShmRange == AnonPages + 1 .. AnonPages + ShmPages
NoPage == 0
NoSpace == 0
NoId == 0
Actors == Spaces \X (1 .. Threads)

VARIABLES
  page_infos,        \* page_infos[].refcount; a page with none is free
  data,              \* what is in a page: the number of the last write, or 0
  status,            \* of a space: "dead", "building" (in fork_vm_space) or "alive"
  pgdir,             \* page of the page directory
  vma_list,          \* areas of a space
  pte,               \* page tables: the page, and whether user mode may write it
  image,             \* what the process should find in its private pages (0 elsewhere)
  at,                \* where each thread is
  objects, shm_next_id, shm_global_pages,
  files,             \* open descriptions of objects: slot, and the processes holding it
  writes, faults, calls  \* writes so far, faults and calls left

spaces == <<status, pgdir, vma_list, pte, image>>
shm == <<objects, shm_next_id, shm_global_pages, files>>
bounds == <<writes, faults, calls>>
vars == <<page_infos, data, spaces, at, shm, bounds>>

Unmapped == [page |-> NoPage, write |-> FALSE]
FreeObject == [used |-> FALSE, unlinked |-> FALSE, id |-> NoId, name |-> "", phys |-> <<>>,
               mappings |-> 0, handles |-> 0]
ClosedFile == [slot |-> 0, holders |-> {}]
Idle == [pc |-> "user", page |-> 0, old |-> NoPage, refs |-> 0, kernel |-> FALSE,
         space |-> NoSpace, todo |-> {}, from |-> 0, to |-> 0]

Areas == [start : UserPages, end : 2 .. AnonPages + ShmPages + 1, write : BOOLEAN,
          shared : BOOLEAN, lazy : BOOLEAN, shm_id : 0 .. MaxIds]

TypeOK ==
  /\ page_infos \in [Pages -> 0 .. RefMax]
  /\ data \in [Pages -> 0 .. MaxWrites]
  /\ status \in [Spaces -> {"dead", "building", "alive"}]
  /\ pgdir \in [Spaces -> Pages \cup {NoPage}]
  /\ \A s \in Spaces : vma_list[s] \subseteq Areas
  /\ pte \in [Spaces -> [UserPages -> [page : Pages \cup {NoPage}, write : BOOLEAN]]]
  /\ image \in [Spaces -> [UserPages -> 0 .. MaxWrites]]
  /\ DOMAIN at = Actors
  /\ DOMAIN objects = Slots /\ DOMAIN files = Files
  /\ shm_next_id \in 1 .. MaxIds + 1 /\ shm_global_pages \in 0 .. SHM_GLOBAL_MAX_PAGES
  /\ writes \in 0 .. MaxWrites /\ faults \in 0 .. MaxFaults /\ calls \in 0 .. MaxCalls

-----------------------------------------------------------------------------
(* physical.c, as operators on page_infos.  Every block here is one page.  *)

FreePages(infos) == {p \in Pages : infos[p] = 0}

(* The n free pages that n calls of allocate_page() find first. *)
LowestFree(infos, n) == SubSeq(SetToSortSeq(FreePages(infos), <), 1, n)
buddy_alloc(infos, ps) == [p \in Pages |-> IF p \in ToSet(ps) THEN 1 ELSE infos[p]]

(* buddy_alloc() clears what it hands out. *)
Cleared(ps) == [p \in Pages |-> IF p \in ToSet(ps) THEN 0 ELSE data[p]]

(* page_ref_inc() of each page of a set: not of a free page, nor past the  *)
(* largest count.                                                          *)
CanShare(ps) == \A p \in ps : page_infos[p] \in 1 .. RefMax - 1
page_ref_inc(infos, ps) == [p \in Pages |-> IF p \in ps THEN infos[p] + 1 ELSE infos[p]]

(* free_page() of a page; one that is free already is left alone. *)
free_page(infos, p) == [infos EXCEPT ![p] = IF @ = 0 THEN 0 ELSE @ - 1]

(* free_page() of each page of a sequence. *)
FreeAll(infos, ps) == FoldLeft(free_page, infos, ps)

-----------------------------------------------------------------------------
Goto(a, rec) == at' = [at EXCEPT ![a] = rec]
Alive(a) == status[a[1]] = "alive"
InUser(a) == Alive(a) /\ at[a].pc = "user"

(* A thread in user mode makes a system call. *)
Calling(a) ==
  /\ InUser(a)
  /\ calls > 0
  /\ calls' = calls - 1

PagesOf(area) == area.start .. area.end - 1
(* find_vma(), as the set of at most one area. *)
find_vma(s, v) == {m \in vma_list[s] : v \in PagesOf(m)}
FirstArea(areas) == CHOOSE m \in areas : \A k \in areas : m.start <= k.start

Resident(s, vs) == {v \in vs : pte[s][v].page # NoPage}
PhysOf(s, vs) ==
  [i \in 1 .. Cardinality(Resident(s, vs)) |->
     pte[s][SetToSortSeq(Resident(s, vs), <)[i]].page]
Blank(s, vs) == [image EXCEPT ![s] = [v \in UserPages |-> IF v \in vs THEN 0 ELSE @[v]]]
Without(s, vs) == [pte EXCEPT ![s] = [v \in UserPages |-> IF v \in vs THEN Unmapped ELSE @[v]]]
Mapped(page, write) == [page |-> page, write |-> write]

(* Where vm_find_free_range() and shm_find_free_vaddr() put n pages. *)
Gaps(s, range, n) ==
  {v \in range : v + n - 1 \in range /\ \A w \in v .. v + n - 1 : find_vma(s, w) = {}}
FirstGap(s, range, n) == CHOOSE v \in Gaps(s, range, n) : \A w \in Gaps(s, range, n) : v <= w

-----------------------------------------------------------------------------
(* Private memory: a lazy mapping is an area only, any other one gets its  *)
(* pages at once.                                                          *)
sys_mmap(a, n, lazy) ==
  LET s == a[1]
      v == FirstGap(s, 1 .. AnonPages, n)
      ps == LowestFree(page_infos, n)
  IN  /\ "mmap" \in Calls
      /\ Calling(a)
      /\ Gaps(s, 1 .. AnonPages, n) # {}
      /\ vma_list' = [vma_list EXCEPT ![s] = @ \cup
           {[start |-> v, end |-> v + n, write |-> TRUE, shared |-> FALSE, lazy |-> lazy,
             shm_id |-> NoId]}]
      /\ IF lazy
           THEN UNCHANGED <<page_infos, data, pte>>
           ELSE /\ n <= Cardinality(FreePages(page_infos))
                /\ page_infos' = buddy_alloc(page_infos, ps)
                /\ data' = Cleared(ps)
                /\ pte' = [pte EXCEPT ![s] = [w \in UserPages |->
                     IF w \in v .. v + n - 1 THEN Mapped(ps[w - v + 1], TRUE) ELSE @[w]]]
      /\ UNCHANGED <<status, pgdir, image, at, shm, writes, faults>>

(* The first touch of a lazy page. *)
handle_lazy_anon_fault(a, v) ==
  LET s == a[1]
      new == LowestFree(page_infos, 1)
  IN  /\ InUser(a)
      /\ pte[s][v] = Unmapped
      /\ FreePages(page_infos) # {}
      /\ \E m \in find_vma(s, v) :
           m.lazy /\ pte' = [pte EXCEPT ![s][v] = Mapped(new[1], m.write)]
      /\ page_infos' = buddy_alloc(page_infos, new)
      /\ data' = Cleared(new)
      /\ UNCHANGED <<status, pgdir, vma_list, image, at, shm, bounds>>

(* What a write to page v of space s does once it is let through. *)
Store(s, v) ==
  /\ writes < MaxWrites
  /\ writes' = writes + 1
  /\ data' = [data EXCEPT ![pte[s][v].page] = writes + 1]
  /\ image' = IF \E m \in find_vma(s, v) : m.shared THEN image
               ELSE [image EXCEPT ![s][v] = writes + 1]

(* A store instruction. *)
UserWrite(a, v) ==
  /\ InUser(a)
  /\ pte[a[1]][v].write
  /\ Store(a[1], v)
  /\ UNCHANGED <<page_infos, status, pgdir, vma_list, pte, at, shm, faults, calls>>

(* copy_to_user() goes through the kernel's own mapping, whatever the page *)
(* table lets user mode do; a page with other holders is copied first.     *)
prepare_user_page(a, v) ==
  LET p == pte[a[1]][v].page
  IN  /\ "copy_to_user" \in Calls
      /\ InUser(a)
      /\ p # NoPage
      /\ \E m \in find_vma(a[1], v) :
           /\ m.write
           /\ Goto(a, [Idle EXCEPT !.page = v, !.kernel = TRUE, !.pc =
                IF ~m.shared /\ page_infos[p] > 1 THEN "fault" ELSE "copy"])
      /\ UNCHANGED <<page_infos, data, spaces, shm, bounds>>

(* handle_cow_fault() up to the count of the page: after a store to a page *)
(* that user mode may not write, or for copy_to_user().                    *)
handle_cow_fault(a, v) ==
  LET p == pte[a[1]][v].page
  IN  /\ \/ InUser(a) /\ ~pte[a[1]][v].write
         \/ at[a].pc = "fault" /\ at[a].page = v
      /\ p # NoPage
      /\ \E m \in find_vma(a[1], v) : m.write /\ ~m.shared
      /\ Goto(a, [at[a] EXCEPT !.pc = "cow", !.page = v, !.old = p,
                               !.refs = page_infos[p]])
      /\ UNCHANGED <<page_infos, data, spaces, shm, bounds>>

(* The fault is dealt with: the instruction is repeated, or the kernel     *)
(* copies.                                                                 *)
Resolved(a) ==
  Goto(a, IF at[a].kernel THEN [Idle EXCEPT !.pc = "copy", !.page = at[a].page]
          ELSE Idle)

(* The only holder keeps the page. *)
CowReuse(a) ==
  /\ at[a].pc = "cow"
  /\ at[a].refs = 1
  /\ pte' = [pte EXCEPT ![a[1]][at[a].page].write =
                          pte[a[1]][at[a].page].page # NoPage]
  /\ Resolved(a)
  /\ UNCHANGED <<page_infos, data, status, pgdir, vma_list, image, shm, bounds>>

(* Any other one gets a copy in its place. *)
CowCopy(a) ==
  LET new == LowestFree(page_infos, 1)
  IN  /\ at[a].pc = "cow"
      /\ at[a].refs > 1
      /\ FreePages(page_infos) # {}
      /\ page_infos' = buddy_alloc(page_infos, new)
      /\ data' = [data EXCEPT ![new[1]] = data[at[a].old]]
      /\ pte' = [pte EXCEPT ![a[1]][at[a].page] = Mapped(new[1], TRUE)]
      /\ Goto(a, [at[a] EXCEPT !.pc = "drop"])
      /\ UNCHANGED <<status, pgdir, vma_list, image, shm, bounds>>

CowDrop(a) ==
  /\ at[a].pc = "drop"
  /\ page_infos' = free_page(page_infos, at[a].old)
  /\ Resolved(a)
  /\ UNCHANGED <<data, spaces, shm, bounds>>

(* No page for the copy, or the page is gone: the fault is not resolved.   *)
(* When remap_user_page() finds no table after it has unmapped the old     *)
(* page, that one stays unmapped.                                          *)
CowFails(a) ==
  /\ at[a].pc = "cow"
  /\ at[a].refs # 1
  /\ \/ /\ at[a].refs = 0 \/ FreePages(page_infos) = {}
        /\ UNCHANGED <<pte, faults>>
     \/ /\ "remap_fails" \in Calls /\ faults > 0
        /\ faults' = faults - 1
        /\ pte' = [pte EXCEPT ![a[1]][at[a].page] = Unmapped]
  /\ Goto(a, Idle)
  /\ UNCHANGED <<page_infos, data, status, pgdir, vma_list, image, shm, writes, calls>>

copy_user_pages(a) ==
  LET v == at[a].page
  IN  /\ at[a].pc = "copy"
      /\ IF pte[a[1]][v].page = NoPage \/ writes = MaxWrites
           THEN UNCHANGED <<data, image, writes>>
           ELSE Store(a[1], v)
      /\ Goto(a, Idle)
      /\ UNCHANGED <<page_infos, status, pgdir, vma_list, pte, shm, faults, calls>>

-----------------------------------------------------------------------------
(* Shared memory objects, under shm_lock. *)

(* pages and phys of an object, and the budget, as shm_resize_locked()     *)
(* leaves them; a mapped object does not shrink.                           *)
Fits(o, n) ==
  LET old == Len(o.phys)
  IN  IF n <= old THEN n = old \/ o.mappings = 0
      ELSE /\ n - old <= SHM_GLOBAL_MAX_PAGES - shm_global_pages
           /\ n - old <= Cardinality(FreePages(page_infos))

shm_resize_locked(slot, o, n) ==
  LET old == Len(o.phys)
      new == LowestFree(page_infos, n - old)
  IN  IF n <= old
        THEN /\ objects' = [objects EXCEPT ![slot] = [o EXCEPT !.phys = SubSeq(@, 1, n)]]
             /\ page_infos' = FreeAll(page_infos, SubSeq(o.phys, n + 1, old))
             /\ shm_global_pages' = shm_global_pages - (old - n)
             /\ UNCHANGED data
        ELSE /\ objects' = [objects EXCEPT ![slot] = [o EXCEPT !.phys = @ \o new]]
             /\ page_infos' = buddy_alloc(page_infos, new)
             /\ shm_global_pages' = shm_global_pages + (n - old)
             /\ data' = Cleared(new)

Disposable(o) == o.used /\ o.unlinked /\ o.mappings = 0 /\ o.handles = 0

(* shm_try_destroy_locked() of an object as o: it goes, or stays as o. *)
shm_try_destroy_locked(slot, o) ==
  IF Disposable(o)
    THEN /\ objects' = [objects EXCEPT ![slot] = FreeObject]
         /\ page_infos' = FreeAll(page_infos, o.phys)
         /\ shm_global_pages' = shm_global_pages - Len(o.phys)
    ELSE /\ objects' = [objects EXCEPT ![slot] = o]
         /\ UNCHANGED <<page_infos, shm_global_pages>>

Down(n) == IF n > 0 THEN n - 1 ELSE 0
WithId(id) == {i \in Slots : objects[i].used /\ objects[i].id = id}
WithName(name) == {i \in Slots : objects[i].used /\ ~objects[i].unlinked /\ objects[i].name = name}
FreeSlots == {i \in Slots : ~objects[i].used}

shm_retain_mapping(id) ==
  objects' = [i \in Slots |-> IF i \in WithId(id)
                              THEN [objects[i] EXCEPT !.mappings = @ + 1] ELSE objects[i]]

shm_release_mapping(id) ==
  \/ /\ WithId(id) = {}
     /\ UNCHANGED <<objects, page_infos, shm_global_pages>>
  \/ \E i \in WithId(id) :
       shm_try_destroy_locked(i, [objects[i] EXCEPT !.mappings = Down(@)])

(* An existing object is opened, cut to nothing first if asked to. *)
OpenExisting(a, name, truncate) ==
  /\ Calling(a)
  /\ \E i \in WithName(name) :
       LET o == [objects[i] EXCEPT !.handles = @ + 1]
       IN  /\ IF truncate
                THEN Fits(o, 0) /\ shm_resize_locked(i, o, 0)
                ELSE /\ objects' = [objects EXCEPT ![i] = o]
                     /\ UNCHANGED <<page_infos, data, shm_global_pages>>
           /\ Goto(a, [Idle EXCEPT !.pc = "install", !.from = i])
  /\ UNCHANGED <<spaces, shm_next_id, files, writes, faults>>

OpenNew(a, name, n) ==
  LET i == CHOOSE k \in FreeSlots : \A j \in FreeSlots : k <= j
      o == [FreeObject EXCEPT !.used = TRUE, !.id = shm_next_id, !.name = name, !.handles = 1]
  IN  /\ Calling(a)
      /\ WithName(name) = {} /\ FreeSlots # {}
      /\ shm_next_id <= MaxIds
      /\ Fits(o, n)
      /\ shm_next_id' = shm_next_id + 1
      /\ shm_resize_locked(i, o, n)
      /\ Goto(a, [Idle EXCEPT !.pc = "install", !.from = i])
      /\ UNCHANGED <<spaces, files, writes, faults>>

(* The descriptor, after shm_lock was released; without memory for it the  *)
(* handle goes back.                                                       *)
shm_install_handle(a) ==
  /\ at[a].pc = "install"
  /\ Goto(a, Idle)
  /\ \/ /\ \E f \in Files :
             /\ files[f] = ClosedFile
             /\ files' = [files EXCEPT ![f] = [slot |-> at[a].from, holders |-> {a[1]}]]
        /\ UNCHANGED <<page_infos, objects, shm_global_pages, faults>>
     \/ /\ IF \A f \in Files : files[f] # ClosedFile
             THEN UNCHANGED faults ELSE faults > 0 /\ faults' = faults - 1
        /\ shm_try_destroy_locked(at[a].from,
             [objects[at[a].from] EXCEPT !.handles = Down(@)])
        /\ UNCHANGED files
  /\ UNCHANGED <<data, spaces, shm_next_id, writes, calls>>

(* close() or exit gives up a description; the last holder, *)
close_file(a, f) ==
  LET s == a[1]
      last == files[f].holders = {s}
  IN  /\ \/ Calling(a)
         \/ at[a].pc = "exit" /\ UNCHANGED calls
      /\ s \in files[f].holders
      /\ files' = [files EXCEPT ![f] =
           IF last THEN ClosedFile ELSE [@ EXCEPT !.holders = @ \ {s}]]
      /\ IF last THEN Goto(a, [at[a] EXCEPT !.pc = "close", !.from = files[f].slot])
         ELSE UNCHANGED at
      /\ UNCHANGED <<page_infos, data, spaces, objects, shm_next_id, shm_global_pages,
                     writes, faults>>

(* file_ref_lock released, gives up the handle. *)
shm_file_close(a) ==
  /\ at[a].pc = "close"
  /\ shm_try_destroy_locked(at[a].from, [objects[at[a].from] EXCEPT !.handles = Down(@)])
  /\ Goto(a, IF at[a].space = NoSpace THEN Idle
             ELSE [at[a] EXCEPT !.pc = "exit", !.from = 0])
  /\ UNCHANGED <<data, spaces, shm_next_id, files, bounds>>

shm_file_truncate(a, f, n) ==
  LET i == files[f].slot
  IN  /\ Calling(a)
      /\ a[1] \in files[f].holders
      /\ n # Len(objects[i].phys) /\ Fits(objects[i], n)
      /\ shm_resize_locked(i, objects[i], n)
      /\ UNCHANGED <<spaces, at, shm_next_id, files, writes, faults>>

sys_shm_unlink(a, name) ==
  /\ Calling(a)
  /\ \E i \in WithName(name) :
       shm_try_destroy_locked(i, [objects[i] EXCEPT !.unlinked = TRUE, !.name = ""])
  /\ UNCHANGED <<data, spaces, at, shm_next_id, files, writes, faults>>

(* A shared mapping lends the pages of the object, a private one copies    *)
(* them.                                                                   *)
shm_map_fd(a, f, n, write, shared) ==
  LET s == a[1]
      i == files[f].slot
      o == objects[i]
      v == FirstGap(s, ShmRange, n)
      ps == IF shared THEN SubSeq(o.phys, 1, n) ELSE LowestFree(page_infos, n)
      source(p) == o.phys[CHOOSE k \in 1 .. n : ps[k] = p]
  IN  /\ Calling(a)
      /\ s \in files[f].holders
      /\ n <= Len(o.phys)
      /\ Gaps(s, ShmRange, n) # {}
      /\ vma_list' = [vma_list EXCEPT ![s] = @ \cup
           {[start |-> v, end |-> v + n, write |-> write, shared |-> shared, lazy |-> FALSE,
             shm_id |-> IF shared THEN o.id ELSE NoId]}]
      /\ IF shared
           THEN /\ CanShare(ToSet(ps))
                /\ page_infos' = page_ref_inc(page_infos, ToSet(ps))
                /\ objects' = [objects EXCEPT ![i].mappings = @ + 1]
                /\ UNCHANGED data
           ELSE /\ n <= Cardinality(FreePages(page_infos))
                /\ page_infos' = buddy_alloc(page_infos, ps)
                /\ data' = [p \in Pages |-> IF p \in ToSet(ps) THEN data[source(p)] ELSE data[p]]
                /\ UNCHANGED objects
      /\ pte' = [pte EXCEPT ![s] = [w \in UserPages |->
           IF w \in v .. v + n - 1 THEN Mapped(ps[w - v + 1], write) ELSE @[w]]]
      /\ image' = [image EXCEPT ![s] = [w \in UserPages |->
           IF ~shared /\ w \in v .. v + n - 1 THEN data[o.phys[w - v + 1]] ELSE @[w]]]
      /\ UNCHANGED <<status, pgdir, at, shm_next_id, shm_global_pages, files, writes, faults>>

(* sys_shm_unmap(), of exactly one shared area: its pages first. *)
sys_shm_unmap(a, m) ==
  /\ Calling(a)
  /\ m \in vma_list[a[1]] /\ m.shared
  /\ page_infos' = FreeAll(page_infos, PhysOf(a[1], PagesOf(m)))
  /\ pte' = Without(a[1], PagesOf(m))
  /\ Goto(a, [Idle EXCEPT !.pc = "shm_unmap", !.todo = {m}])
  /\ UNCHANGED <<data, status, pgdir, vma_list, image, shm, writes, faults>>

(* ... then the object is let go, and the area. *)
ShmUnmapped(a) ==
  /\ at[a].pc = "shm_unmap"
  /\ \E m \in at[a].todo :
       /\ shm_release_mapping(m.shm_id)
       /\ vma_list' = [vma_list EXCEPT ![a[1]] = @ \ {m}]
  /\ Goto(a, Idle)
  /\ UNCHANGED <<data, status, pgdir, pte, image, shm_next_id, files, bounds>>

-----------------------------------------------------------------------------
(* munmap() takes one area after the other. *)

Overlaps(m, from, to) == m.start < to /\ from < m.end

sys_munmap(a, from, to) ==
  /\ "munmap" \in Calls
  /\ Calling(a)
  /\ from < to
  /\ \A m \in vma_list[a[1]] :
       m.shared /\ Overlaps(m, from, to) => from <= m.start /\ m.end <= to
  /\ Goto(a, [Idle EXCEPT !.pc = "unmap", !.from = from, !.to = to])
  /\ UNCHANGED <<page_infos, data, spaces, shm, writes, faults>>

(* What is left of an area, to the left and to the right of what goes. *)
Remains(m, from, to) ==
  {k \in {[m EXCEPT !.end = IF from < @ THEN from ELSE @],
          [m EXCEPT !.start = IF to > @ THEN to ELSE @]} : k.start < k.end}

(* An area cut in two needs memory for the second half: without it the     *)
(* call ends there.                                                        *)
vm_unmap_range(a) ==
  LET s == a[1]
      from == at[a].from
      to == at[a].to
      hit == {m \in vma_list[s] : Overlaps(m, from, to)}
      m == FirstArea(hit)
      gone == PagesOf(m) \cap (from .. to - 1)
      rest == Remains(m, from, to)
  IN  /\ at[a].pc = "unmap"
      /\ \/ /\ hit = {}
            /\ Goto(a, Idle)
            /\ UNCHANGED <<page_infos, vma_list, pte, image, faults>>
         \/ /\ hit # {} /\ Cardinality(rest) = 2 /\ faults > 0
            /\ faults' = faults - 1
            /\ Goto(a, Idle)
            /\ UNCHANGED <<page_infos, vma_list, pte, image>>
         \/ /\ hit # {}
            /\ page_infos' = FreeAll(page_infos, PhysOf(s, gone))
            /\ pte' = Without(s, gone)
            /\ image' = Blank(s, gone)
            /\ vma_list' = [vma_list EXCEPT ![s] = (@ \ {m}) \cup rest]
            /\ IF rest = {} /\ m.shared
                 THEN Goto(a, [at[a] EXCEPT !.pc = "unshare", !.todo = {m}])
                 ELSE UNCHANGED at
            /\ UNCHANGED faults
      /\ UNCHANGED <<data, status, pgdir, shm, writes, calls>>

Unshare(a) ==
  /\ at[a].pc = "unshare"
  /\ \E m \in at[a].todo : shm_release_mapping(m.shm_id)
  /\ Goto(a, [at[a] EXCEPT !.pc = "unmap", !.todo = {}])
  /\ UNCHANGED <<data, spaces, shm_next_id, files, bounds>>

(* mprotect() of exactly one area.  What the area was besides readable and *)
(* writable is forgotten.                                                  *)
sys_mprotect(a, m, write) ==
  LET s == a[1]
  IN  /\ "mprotect" \in Calls
      /\ Calling(a)
      /\ m \in vma_list[s]
      /\ vma_list' = [vma_list EXCEPT ![s] =
           (@ \ {m}) \cup {[m EXCEPT !.write = write, !.shared = FALSE]}]
      /\ pte' = [pte EXCEPT ![s] = [v \in UserPages |->
           IF v \in Resident(s, PagesOf(m)) THEN [@[v] EXCEPT !.write = write] ELSE @[v]]]
      /\ UNCHANGED <<page_infos, data, status, pgdir, image, at, shm, writes, faults>>

-----------------------------------------------------------------------------
Dead == {s \in Spaces : status[s] = "dead"}

(* fork(): create_vm_space(), then the areas in order. *)
fork_vm_space(a) ==
  LET new == LowestFree(page_infos, 1)
      c == CHOOSE s \in Dead : \A r \in Dead : s <= r
  IN  /\ Calling(a)
      /\ Dead # {}
      /\ FreePages(page_infos) # {}
      /\ page_infos' = buddy_alloc(page_infos, new)
      /\ data' = Cleared(new)
      /\ status' = [status EXCEPT ![c] = "building"]
      /\ pgdir' = [pgdir EXCEPT ![c] = new[1]]
      /\ Goto(a, [Idle EXCEPT !.pc = "fork", !.space = c, !.todo = vma_list[a[1]]])
      /\ UNCHANGED <<vma_list, pte, image, shm, writes, faults>>

(* Mutant: the child's area does not count as a mapping. *)
ForkArea_Unretained(a) ==
  LET m == FirstArea(at[a].todo)
  IN  /\ at[a].pc = "fork" /\ at[a].todo # {}
      /\ vma_list' = [vma_list EXCEPT ![at[a].space] = @ \cup {m}]
      /\ Goto(a, [at[a] EXCEPT !.pc = "clone", !.page = m.start])
      /\ UNCHANGED <<page_infos, data, status, pgdir, pte, image, shm, bounds>>

(* create_vma() of the next area, and shm_retain_mapping(). *)
ForkArea(a) ==
  LET m == FirstArea(at[a].todo)
  IN  /\ at[a].pc = "fork" /\ at[a].todo # {}
      /\ \/ /\ faults > 0
            /\ faults' = faults - 1
            /\ Goto(a, [at[a] EXCEPT !.pc = "destroy"])
            /\ UNCHANGED <<vma_list, objects>>
         \/ /\ vma_list' = [vma_list EXCEPT ![at[a].space] = @ \cup {m}]
            /\ IF m.shared THEN shm_retain_mapping(m.shm_id) ELSE UNCHANGED objects
            /\ Goto(a, [at[a] EXCEPT !.pc = "clone", !.page = m.start])
            /\ UNCHANGED faults
      /\ UNCHANGED <<page_infos, data, status, pgdir, pte, image, shm_next_id,
                     shm_global_pages, files, writes, calls>>

(* The page after this one, or the next area. *)
NextPage(a, m) ==
  Goto(a, IF at[a].page + 1 < m.end THEN [at[a] EXCEPT !.page = @ + 1]
          ELSE [at[a] EXCEPT !.pc = "fork", !.todo = @ \ {m}])

(* Mutant: the parent may go on writing. *)
vm_clone_resident_page_Writable(a) ==
  LET m == FirstArea(at[a].todo)
      v == at[a].page
      p == pte[a[1]][v].page
      c == at[a].space
  IN  /\ at[a].pc = "clone"
      /\ IF p = NoPage THEN UNCHANGED <<page_infos, pte>>
         ELSE /\ CanShare({p})
              /\ page_infos' = page_ref_inc(page_infos, {p})
              /\ pte' = [pte EXCEPT ![c][v] = Mapped(p, m.shared /\ m.write)]
      /\ NextPage(a, m)
      /\ UNCHANGED <<data, status, pgdir, vma_list, image, shm, bounds>>

(* Both get the page, neither may write it unless it is shared.  Without a *)
(* table for it in the child the count goes back, and a parent that is     *)
(* alone with it again may write it.                                       *)
vm_clone_resident_page(a) ==
  LET m == FirstArea(at[a].todo)
      v == at[a].page
      p == pte[a[1]][v].page
      c == at[a].space
      cow == m.write /\ ~m.shared
  IN  /\ at[a].pc = "clone"
      /\ \/ /\ p = NoPage
            /\ NextPage(a, m)
            /\ UNCHANGED <<page_infos, pte, faults>>
         \/ /\ p # NoPage /\ ~CanShare({p})
            /\ Goto(a, [at[a] EXCEPT !.pc = "destroy"])
            /\ UNCHANGED <<page_infos, pte, faults>>
         \/ /\ p # NoPage /\ CanShare({p})
            /\ page_infos' = page_ref_inc(page_infos, {p})
            /\ pte' = [pte EXCEPT ![a[1]][v].write = @ /\ ~cow,
                                  ![c][v] = Mapped(p, m.shared /\ m.write)]
            /\ NextPage(a, m)
            /\ UNCHANGED faults
         \/ /\ p # NoPage /\ CanShare({p}) /\ faults > 0
            /\ faults' = faults - 1
            /\ pte' = [pte EXCEPT ![a[1]][v].write =
                         IF cow THEN page_infos[p] = 1 ELSE @]
            /\ Goto(a, [at[a] EXCEPT !.pc = "destroy"])
            /\ UNCHANGED page_infos
      /\ UNCHANGED <<data, status, pgdir, vma_list, image, shm, writes, calls>>

(* The rest of sys_fork(): copy_process_files(), and the child may run. *)
Forked(a) ==
  LET c == at[a].space
  IN  /\ at[a].pc = "fork" /\ at[a].todo = {}
      /\ status' = [status EXCEPT ![c] = "alive"]
      /\ image' = [image EXCEPT ![c] = image[a[1]]]
      /\ files' = [f \in Files |-> IF a[1] \in files[f].holders
                     THEN [files[f] EXCEPT !.holders = @ \cup {c}] ELSE files[f]]
      /\ Goto(a, Idle)
      /\ UNCHANGED <<page_infos, data, pgdir, vma_list, pte, objects, shm_next_id,
                     shm_global_pages, bounds>>

-----------------------------------------------------------------------------
(* A process ends with its last thread: the files are closed, then the     *)
(* address space goes.                                                     *)
Exit(a) ==
  /\ InUser(a)
  /\ \A b \in Actors : b[1] = a[1] => at[b].pc = "user"
  /\ at' = [b \in Actors |-> IF b = a THEN [Idle EXCEPT !.pc = "exit", !.space = a[1]]
                             ELSE IF b[1] = a[1] THEN [Idle EXCEPT !.pc = "gone"] ELSE at[b]]
  /\ UNCHANGED <<page_infos, data, spaces, shm, bounds>>

FilesClosed(a) ==
  /\ at[a].pc = "exit"
  /\ \A f \in Files : a[1] \notin files[f].holders
  /\ Goto(a, [at[a] EXCEPT !.pc = "destroy"])
  /\ UNCHANGED <<page_infos, data, spaces, shm, bounds>>

(* destroy_vm_space(): the pages, the directory, *)
arm64_user_vm_destroy(a) ==
  LET c == at[a].space
  IN  /\ at[a].pc = "destroy"
      /\ page_infos' = FreeAll(page_infos, Append(PhysOf(c, UserPages), pgdir[c]))
      /\ pte' = Without(c, UserPages)
      /\ pgdir' = [pgdir EXCEPT ![c] = NoPage]
      /\ vma_list' = [vma_list EXCEPT ![c] = {}]
      /\ Goto(a, [at[a] EXCEPT !.pc = "release", !.todo = vma_list[c]])
      /\ UNCHANGED <<data, status, image, shm, bounds>>

(* and the areas.  A failed fork() returns to its caller. *)
vm_release_vmas(a) ==
  LET m == FirstArea(at[a].todo)
      c == at[a].space
  IN  /\ at[a].pc = "release"
      /\ IF at[a].todo # {}
           THEN /\ Goto(a, [at[a] EXCEPT !.todo = @ \ {m}])
                /\ IF m.shared THEN shm_release_mapping(m.shm_id)
                   ELSE UNCHANGED <<objects, page_infos, shm_global_pages>>
                /\ UNCHANGED <<status, image>>
           ELSE /\ status' = [status EXCEPT ![c] = "dead"]
                /\ image' = Blank(c, UserPages)
                /\ at' = [b \in Actors |-> IF b = a \/ b[1] = c THEN Idle ELSE at[b]]
                /\ UNCHANGED <<objects, page_infos, shm_global_pages>>
      /\ UNCHANGED <<data, pgdir, vma_list, pte, shm_next_id, files, bounds>>

-----------------------------------------------------------------------------
(* One process is running, nothing is mapped. *)
Init ==
  LET first == CHOOSE s \in Spaces : \A r \in Spaces : s <= r
  IN  /\ page_infos = [p \in Pages |-> IF p = 1 THEN 1 ELSE 0]
      /\ data = [p \in Pages |-> 0]
      /\ status = [s \in Spaces |-> IF s = first THEN "alive" ELSE "dead"]
      /\ pgdir = [s \in Spaces |-> IF s = first THEN 1 ELSE NoPage]
      /\ vma_list = [s \in Spaces |-> {}]
      /\ pte = [s \in Spaces |-> [v \in UserPages |-> Unmapped]]
      /\ image = [s \in Spaces |-> [v \in UserPages |-> 0]]
      /\ at = [a \in Actors |-> Idle]
      /\ objects = [i \in Slots |-> FreeObject]
      /\ shm_next_id = 1 /\ shm_global_pages = 0
      /\ files = [f \in Files |-> ClosedFile]
      /\ writes = 0 /\ faults = MaxFaults /\ calls = MaxCalls

Faulting(a) ==
  \/ \E v \in UserPages :
       handle_lazy_anon_fault(a, v) \/ UserWrite(a, v)
       \/ prepare_user_page(a, v) \/ handle_cow_fault(a, v)
  \/ CowReuse(a) \/ CowCopy(a) \/ CowDrop(a) \/ CowFails(a) \/ copy_user_pages(a)

Mapping(a) ==
  \/ \E n \in 1 .. AnonPages, lazy \in BOOLEAN : sys_mmap(a, n, lazy)
  \/ \E from \in UserPages, to \in 2 .. AnonPages + ShmPages + 1 : sys_munmap(a, from, to)
  \/ vm_unmap_range(a) \/ Unshare(a) \/ ShmUnmapped(a)
  \/ \E m \in vma_list[a[1]] :
       sys_shm_unmap(a, m) \/ (\E write \in BOOLEAN : sys_mprotect(a, m, write))

Sharing(a) ==
  \/ \E name \in Names :
       \/ \E truncate \in BOOLEAN : OpenExisting(a, name, truncate)
       \/ \E n \in 0 .. ShmPages : OpenNew(a, name, n)
       \/ sys_shm_unlink(a, name)
  \/ shm_install_handle(a) \/ shm_file_close(a)
  \/ \E f \in Files :
       \/ close_file(a, f)
       \/ \E n \in 0 .. ShmPages : shm_file_truncate(a, f, n)
       \/ \E n \in 1 .. ShmPages, write, shared \in BOOLEAN : shm_map_fd(a, f, n, write, shared)

Living(a) ==
  \/ fork_vm_space(a) \/ ForkArea(a) \/ vm_clone_resident_page(a) \/ Forked(a)
  \/ Exit(a) \/ FilesClosed(a) \/ arm64_user_vm_destroy(a) \/ vm_release_vmas(a)

Next == \E a \in Actors : Faulting(a) \/ Mapping(a) \/ Sharing(a) \/ Living(a)

Spec == Init /\ [][Next]_vars

-----------------------------------------------------------------------------
(* Properties. *)

At(pc) == {a \in Actors : at[a].pc = pc}

(* Who holds a page: page directories, page tables, objects, and a         *)
(* copy-on-write fault that still has to give it back.                     *)
Holders(p) ==
  Cardinality({s \in Spaces : pgdir[s] = p})
  + Cardinality({<<s, v>> \in Spaces \X UserPages : pte[s][v].page = p})
  + Cardinality({i \in Slots : p \in ToSet(objects[i].phys)})
  + Cardinality({a \in At("drop") : at[a].old = p})

(* The areas that map an object, those being taken down included. *)
AreasOf(id) ==
  Cardinality({<<s, m>> \in Spaces \X UNION {vma_list[s] : s \in Spaces} :
                 m \in vma_list[s] /\ m.shared /\ m.shm_id = id})
  + Cardinality({<<a, m>> \in (At("release") \cup At("unshare"))
                               \X UNION {at[a].todo : a \in Actors} :
                   m \in at[a].todo /\ m.shared /\ m.shm_id = id})

(* At every moment, in the middle of fork(), exit, munmap() and a fault as *)
(* well, a page has as many references as it has holders, an object as     *)
(* many mappings as areas and as many handles as descriptions, and the     *)
(* budget is what the objects have: nothing leaks, and nothing is freed    *)
(* under a holder, whichever step failed.                                  *)
Accounted ==
  /\ \A p \in Pages : page_infos[p] = Holders(p)
  /\ \A i \in Slots : objects[i].used =>
       /\ objects[i].mappings = AreasOf(objects[i].id)
       /\ objects[i].handles = Cardinality({f \in Files : files[f].slot = i})
                               + Cardinality({a \in At("install") \cup At("close") : at[a].from = i})
  /\ shm_global_pages = FoldFunction(+, 0, [i \in Slots |-> Len(objects[i].phys)])

(* A process finds in private memory what it wrote there, or its parent    *)
(* before fork(), and nothing anybody else wrote; what it may write there  *)
(* without a fault is its own.  Shared memory is the object's pages, and   *)
(* the object is there as long as it is mapped, whatever was unlinked,     *)
(* closed or truncated meanwhile.                                          *)
Isolated ==
  \A s \in Spaces : status[s] = "alive" =>
    \A m \in vma_list[s] : \A v \in PagesOf(m) :
      LET p == pte[s][v].page
      IN  IF m.shared
            THEN /\ WithId(m.shm_id) # {}
                 /\ p # NoPage => \A i \in WithId(m.shm_id) :
                      v - m.start < Len(objects[i].phys)
                      /\ p = objects[i].phys[v - m.start + 1]
            ELSE /\ image[s][v] = IF p = NoPage THEN 0 ELSE data[p]
                 /\ pte[s][v].write => page_infos[p] = 1
=============================================================================
