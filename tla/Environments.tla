---------------------------- MODULE Environments ----------------------------
(***************************************************************************)
(* The life of an environment (src/kern/env.c): the kernel maps its shared *)
(* region, kmain creates one environment and runs it, the environment maps *)
(* and unmaps pages (module VmaUnmap), and is destroyed by a system call   *)
(* or an exception.  env_destroy never returns: the monitor runs for ever. *)
(*                                                                         *)
(* Root indexes below UserTop are the environment's own, those from        *)
(* UserTop on are copied from kern_pml4, and env_free_page_tables stops at *)
(* KernelVma.  What is mapped from KernelVma on is left out: nothing in    *)
(* env.c follows it.  So is the entry at USER_PML4, by which every root    *)
(* leads back to itself.  The areas that load_icode makes are in VmaList.  *)
(***************************************************************************)
EXTENDS VmaUnmap

CONSTANTS KernPml4,     \* the frame of kern_pml4, taken by boot_alloc
          PagesArray,   \* the frame of pages[], mapped for all at SharedVa
          SharedVa,     \* USER_PAGES
          UserTop,      \* PML4_INDEX(USER_TOP)
          KernelVma,    \* PML4_INDEX(KERNEL_VMA)
          NEnv,         \* NENV, a power of two
          GenShift,     \* ENVGENSHIFT
          EnvIds        \* values of the argument of sys_env_destroy

ASSUME EnvironmentsAssumption ==
    /\ {KernPml4, PagesArray} \subseteq Reserved /\ KernPml4 # PagesArray
    /\ UserTop \in Index /\ KernelVma \in Index /\ UserTop < KernelVma
    /\ SharedVa \in [1..Depth -> Index]
    /\ SharedVa[1] >= UserTop /\ SharedVa[1] < KernelVma
    /\ \A a \in Vas : a[1] < UserTop
    /\ NEnv \in Nat \ {0} /\ GenShift \in Nat /\ NEnv <= 2^GenShift
    /\ EnvIds \subseteq Int

VARIABLES envs,     \* slots: status, id and parent of every env; free:
                    \* env_free_list; cur: curenv, -1 for NULL
          stack     \* the page load_icode takes "for the initial stack"

envVars == <<mem, call, envs, stack>>

-----------------------------------------------------------------------------
(* mem_init maps the kernel's shared region.  Counts are not maintained for *)
(* what is mapped there, but the tables are pages with a count of 1.        *)

\* The result of page_walk is not looked at: without a table NULL is written through,
\* which ends the boot.
boot_map_region(m, at, frame) ==
    LET w == page_walk([m EXCEPT !.root = KernPml4], at, "normal")
        n == [w.m EXCEPT !.root = m.root]
    IN IF w.table = NULL THEN [n EXCEPT !.fl.panic = TRUE]
       ELSE SetEntry(n, w.table, w.index, [page |-> frame, huge |-> FALSE])

Booted == boot_map_region([fl   |-> page_init,
                           ref  |-> [p \in Pages |-> 0],
                           lent |-> {},
                           tab  |-> [p \in Pages |-> NoEntries],
                           root |-> NULL,
                           tlb  |-> {}], SharedVa, PagesArray)
KernelTables == Booted.lent

env_init == [slots |-> [i \in 0..(NEnv - 1) |-> [status |-> "free", id |-> 0, parent |-> 0]],
             free  |-> [i \in 1..NEnv |-> i - 1],
             cur   |-> -1]

EnvInit == /\ mem = Booted
           /\ call = Idle
           /\ envs = env_init
           /\ stack = NULL

-----------------------------------------------------------------------------
(* Creating and running. *)

env_setup_vm_CopiesTooLittle(m, new) ==
    LET t == new.page
    IN [m EXCEPT !.fl = new.fl, !.lent = @ \cup {t}, !.ref[t] = @ + 1, !.root = t,
                 !.tab[t] = [i \in Index |-> IF i <= UserTop THEN Empty ELSE m.tab[KernPml4][i]]]
\* The root table takes the page `new' that page_alloc found.  The entry at USER_PML4,
\* which then leads from the root back to itself (env.c:158), is left out: it is above
\* KernelVma, where no address of Vas and no loop of env_free comes.
env_setup_vm(m, new) ==
    LET t == new.page
    IN [m EXCEPT !.fl = new.fl,
                 !.lent = @ \cup {t},
                 !.ref[t] = @ + 1,
                 !.root = t,
                 !.tab[t] = [i \in Index |-> IF i < UserTop THEN Empty
                                             ELSE m.tab[KernPml4][i]]]

\* The index of the slot and a generation that makes the id new.
NewId(slot) ==
    LET next == envs.slots[slot].id + 2^GenShift
    IN next - (next % NEnv) + slot

env_alloc(e) ==
    envs' = [envs EXCEPT !.slots[e] = [status |-> "runnable", id |-> NewId(e), parent |-> 0],
                         !.free = Tail(@)]

\* The page that load_icode takes is neither mapped nor remembered.
load_icode(m, new) ==
    /\ mem' = [m EXCEPT !.fl = new.fl, !.lent = @ \cup {new.page}]
    /\ stack' = new.page

\* Any failure is a panic: no free slot, no page for the root, none for the stack.
env_create ==
    LET root == page_alloc(mem.fl, FALSE)
        page == page_alloc(root.fl, FALSE)
    IN /\ envs.cur = -1 /\ stack = NULL
       /\ IF envs.free = <<>> \/ root.page = NULL \/ page.page = NULL
          THEN /\ mem' = [mem EXCEPT !.fl.panic = TRUE]
               /\ UNCHANGED <<envs, stack>>
          ELSE /\ env_alloc(Head(envs.free))
               /\ load_icode(env_setup_vm(mem, root), page)
       /\ UNCHANGED call

env_run(e) ==
    /\ envs.slots[e].status = "runnable"
    /\ envs' = [envs EXCEPT !.cur = e, !.slots[e].status = "running"]
    /\ UNCHANGED <<mem, call, stack>>

-----------------------------------------------------------------------------
(* Destroying. *)

\* The loop over the first `max' entries of a table: Give gives up what a present entry
\* leads to.  Then the table goes.
FreeEntries(m, table, max, Give(_, _)) ==
    LET freed[i \in 0..max] ==
          IF i = 0 THEN m
          ELSE LET n == freed[i - 1]
               IN IF Present(n.tab[table][i - 1]) THEN Give(n, i - 1) ELSE n
    IN page_decref(freed[max], table)

\* env_free_page_tables calls itself: the calls for depth 0, 1, 2 and 3.
free_page_table_TableStays(m, t) ==
    LET kept == [m EXCEPT !.ref[t] = @ + 1]
    IN FreeEntries(kept, t, HugeSize,
                   LAMBDA n, i : SetEntry(page_decref(n, n.tab[t][i].page), t, i, Empty))
free_page_table(m, t) ==
    FreeEntries(m, t, HugeSize,
                LAMBDA n, i : SetEntry(page_decref(n, n.tab[t][i].page), t, i, Empty))
free_directory(m, t) ==
    FreeEntries(m, t, HugeSize, LAMBDA n, i : free_page_table(n, n.tab[t][i].page))
free_pointers(m, t) ==
    FreeEntries(m, t, HugeSize, LAMBDA n, i : free_directory(n, n.tab[t][i].page))
env_free_page_tables(m, t) ==
    FreeEntries(m, t, KernelVma, LAMBDA n, i : free_pointers(n, n.tab[t][i].page))

\* Loading kern_pml4 empties the TLB.
env_free(e) ==
    LET freed == env_free_page_tables([mem EXCEPT !.tlb = {}], mem.root)
    IN /\ mem' = [freed EXCEPT !.root = NULL]
       /\ envs' = [envs EXCEPT !.slots[e].status = "free", !.free = <<e>> \o @]

\* The monitor runs for ever: curenv is not running, so no other action is enabled.
env_destroy(e) == env_free(e) /\ UNCHANGED <<call, stack>>

\* The slot an id stands for, as a set of at most one.
envid2env(id) ==
    IF id = 0 THEN {envs.cur}
    ELSE {e \in {id % NEnv} :
            /\ envs.slots[e].status # "free" /\ envs.slots[e].id = id
            /\ e = envs.cur \/ envs.slots[e].parent = envs.slots[envs.cur].id}

\* For an id without environment the call returns -E_BAD_ENV and changes nothing.
sys_env_destroy(id) == \E e \in envid2env(id) : env_destroy(e)

\* An access outside the areas, a protection violation, any other exception, and
\* a string that user_mem_assert refuses.
Exception == env_destroy(envs.cur)

-----------------------------------------------------------------------------
Alive == envs.cur # -1 /\ envs.slots[envs.cur].status = "running"

EnvNext ==
    /\ ~mem.fl.panic
    /\ \/ env_create
       \/ \E e \in DOMAIN envs.slots : env_run(e)
       \/ Alive /\ UnmapNext /\ UNCHANGED <<envs, stack>>
       \/ Alive /\ ~call.busy /\ (Exception \/ \E id \in EnvIds : sys_env_destroy(id))

EnvSpec == EnvInit /\ [][EnvNext]_envVars

-----------------------------------------------------------------------------
(* Correctness. *)

Destroyed == envs.cur # -1 /\ envs.slots[envs.cur].status = "free"

\* While the environment lives, the count of every page is the number of entries
\* below its root that point to it, the kernel's shared tables included.
CountsWhileAlive == Alive => RefsExact

\* What kern_pml4 leads to from UserTop on, and what every table of it says, is the
\* same for the environment, whatever it maps and unmaps (env.c:142): all but the entry
\* at USER_PML4, which is left out.
SharedPartSame ==
    Alive => /\ \A i \in Index : i >= UserTop => mem.tab[mem.root][i] = mem.tab[KernPml4][i]
             /\ \A t \in KernelTables \cup {KernPml4} : t = KernPml4 \/ mem.tab[t] = Booted.tab[t]
             /\ Translation(mem, SharedVa) = PagesArray

\* After env_free every frame of the environment is on the free list, once, be it a
\* table or a page, and no frame that boot_alloc took; the list is well linked.  Only
\* the unused stack page is lost (and the kernel's tables, see KernelTablesKept).
NothingKept ==
    Destroyed =>
        /\ ListSound(mem.fl) /\ ~mem.fl.panic
        /\ mem.lent \subseteq {stack} \cup KernelTables
        /\ UNION {Unit(mem.fl, p) : p \in mem.fl.avail \cup mem.lent} = Pages \ Reserved
        /\ \A p, q \in mem.fl.avail \cup mem.lent :
             p # q => Unit(mem.fl, p) \cap Unit(mem.fl, q) = {}

\* The tables that kern_pml4 leads to are the kernel's, and shared (env.c:143): they
\* are never given back.
KernelTablesKept == KernelTables \subseteq mem.lent
=============================================================================
