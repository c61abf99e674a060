-------------------------------- MODULE Paging --------------------------------
(***************************************************************************)
(* The page tables and the page map of mm/memory.c, as operators on one     *)
(* value m:                                                                 *)
(*     m.map[p]     mem_map: how often page p is in use                     *)
(*     m.dir[t][v]  the page table behind v in t's part of pg_dir, or 0     *)
(*     m.pte[t][v]  the page table entry: page, writable bit, dirty bit     *)
(*     m.val[p]     what the page contains                                  *)
(* Tasks, virtual pages and pages are numbers, for the code takes the last  *)
(* of several tasks or pages.  Of each page-directory entry one page is     *)
(* modelled, so every virtual page has a page table of its own.  A page's   *)
(* contents are named after who made them: 0 (get_free_page), a task that   *)
(* wrote to it, or the executable it was read from.  A free page counts as  *)
(* cleared: get_free_page clears it before anybody sees it.                 *)
(***************************************************************************)
EXTENDS Integers, FiniteSets, FiniteSetsExt

CONSTANTS Task,        \* the slots of task[]; task 0 is not modelled
          VPage,       \* the virtual pages of a task, 64 MB in the code
          NR_PAGES     \* PAGING_PAGES

ASSUME PagingAssumption ==
    /\ Task \subseteq Nat \ {0} /\ IsFiniteSet(Task)
    /\ VPage \subseteq Nat /\ IsFiniteSet(VPage)
    /\ NR_PAGES \in Nat

Page == 1 .. NR_PAGES

Entry      == [page : 0 .. NR_PAGES, writable : BOOLEAN, dirty : BOOLEAN]
NotPresent == [page |-> 0, writable |-> FALSE, dirty |-> FALSE]

Present(m, t, v) == m.pte[t][v].page # 0

\* page | 7: present, writable, and clean.
PageOr7(p) == [page |-> p, writable |-> TRUE, dirty |-> FALSE]

FreePages(m) == {p \in Page : m.map[p] = 0}

\* get_free_page: the last free page, cleared.
NewPage(m) == CHOOSE p \in FreePages(m) : \A q \in p + 1 .. NR_PAGES : m.map[q] # 0

GetFreePage(m) == [m EXCEPT !.map[NewPage(m)] = 1]

Cleared(m) == [m EXCEPT !.val = [p \in Page |-> IF m.map[p] = 0 THEN 0 ELSE m.val[p]]]

free_page(m, p) == Cleared([m EXCEPT !.map[p] = @ - 1])

(***************************************************************************)
(* The page table behind v, allocated when there is none.                   *)
(***************************************************************************)
HasTable(m, t, v)  == m.dir[t][v] # 0
CanTable(m, t, v)  == HasTable(m, t, v) \/ FreePages(m) # {}
WithTable(m, t, v) ==
    IF HasTable(m, t, v) THEN m
    ELSE [GetFreePage(m) EXCEPT !.dir[t][v] = NewPage(m)]

put_page(m, t, v, p) ==
    [WithTable(m, t, v) EXCEPT !.pte[t][v] = PageOr7(p)]

(***************************************************************************)
(* un_wp_page: the only user of a page may write to it; another one gets a  *)
(* copy, whose dirty bit is clear.                                          *)
(***************************************************************************)
OnlyUser(m, t, v) == m.map[m.pte[t][v].page] = 1

CanUnWp(m, t, v) == OnlyUser(m, t, v) \/ FreePages(m) # {}

un_wp_page(m, t, v) ==
    LET old == m.pte[t][v].page  new == NewPage(m)
    IN  IF OnlyUser(m, t, v)
        THEN [m EXCEPT !.pte[t][v].writable = TRUE]
        ELSE [free_page(GetFreePage(m), old) EXCEPT
                 !.val[new] = m.val[old], !.pte[t][v] = PageOr7(new)]

(***************************************************************************)
(* free_page_tables: all pages of a task and its page tables.               *)
(***************************************************************************)
Tables(m, t) == {v \in VPage : HasTable(m, t, v)}

free_page_tables(m, t) ==
    Cleared([m EXCEPT
        !.map = [p \in Page |->
                    m.map[p] - Cardinality({v \in VPage : m.pte[t][v].page = p})
                             - Cardinality({v \in VPage : m.dir[t][v] = p})],
        !.dir[t] = [v \in VPage |-> 0],
        !.pte[t] = [v \in VPage |-> NotPresent]])

(***************************************************************************)
(* copy_page_tables: c gets page tables of its own and t's pages, write-    *)
(* protected for both.  The directory entries are copied in order, each     *)
(* page table is the last free page then.  When the pages do not suffice,   *)
(* copy_mem frees what c has got; t's pages stay write-protected.           *)
(***************************************************************************)
Protected(e) == [e EXCEPT !.writable = FALSE]

\* Mutant: the parent's pages stay writable.
Writable(e) == e

ParentEntry(e) == Protected(e)

Later(S, x)   == Cardinality({y \in S : y > x})
Earlier(S, x) == Cardinality({y \in S : y < x})

CountedForChild(m, t, p) ==
    m.map[p] + Cardinality({v \in VPage : m.pte[t][v].page = p})

CanCopy(m, t) == Cardinality(Tables(m, t)) <= Cardinality(FreePages(m))

copy_page_tables(m, t, c) ==
    LET table(v) == CHOOSE p \in FreePages(m) :
                        Later(FreePages(m), p) = Earlier(Tables(m, t), v)
        taken == {table(v) : v \in Tables(m, t)}
    IN  [map |-> [p \in Page |->
                     IF p \in taken THEN 1 ELSE CountedForChild(m, t, p)],
         dir |-> [m.dir EXCEPT ![c] = [v \in VPage |->
                     IF v \in Tables(m, t) THEN table(v) ELSE 0]],
         pte |-> [m.pte EXCEPT ![c] = [v \in VPage |-> Protected(m.pte[t][v])],
                               ![t] = [v \in VPage |-> ParentEntry(m.pte[t][v])]],
         val |-> m.val]

copy_page_tables_fails(m, t) ==
    [m EXCEPT !.pte[t] = [v \in VPage |->
                             IF Earlier(Tables(m, t), v) < Cardinality(FreePages(m))
                             THEN Protected(m.pte[t][v]) ELSE m.pte[t][v]]]

(***************************************************************************)
(* try_to_share: u's page, when present and clean, becomes t's too, write-  *)
(* protected for both.                                                      *)
(***************************************************************************)
\* Mutant: dirty pages are shared too.
IsPresent(m, u, v) == Present(m, u, v)

PresentAndClean(m, u, v) == Present(m, u, v) /\ ~m.pte[u][v].dirty

try_to_share(m, t, v, u) ==
    LET e == Protected(m.pte[u][v])
    IN  [WithTable(m, t, v) EXCEPT !.pte[u][v] = e, !.pte[t][v] = e,
                                   !.map[e.page] = @ + 1]
===============================================================================
