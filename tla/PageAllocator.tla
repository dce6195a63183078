---------------------------- MODULE PageAllocator ----------------------------
(***************************************************************************)
(* bits/page_allocator.c: a lock-free allocator of pages.  Freed pages are *)
(* a stack whose top is exchanged atomically; every page ever mapped is    *)
(* also on a second list, through which the allocator frees everything     *)
(* when it is destroyed.  Each action is one access to shared memory.      *)
(***************************************************************************)
EXTENDS Naturals, FiniteSets

CONSTANTS
    Threads,
    MaxPages,   \* pages the system can map before mmap fails
    MaxHeld     \* bound: pages a thread holds at once

ASSUME PagesAssumption == Threads # {} /\ MaxPages \in Nat

Pages == 1 .. MaxPages
Null == 0
Links == 0 .. MaxPages

VARIABLES
    free_list, all_pages,   \* the two list heads
    next_free, next_any,    \* the header of each page
    mapped,                 \* pages 1 .. mapped are mapped
    pc,
    header,                 \* the local `header` of alloc and free
    seen,                   \* header->next_free or the old head, as read
    held,                   \* the pages that a thread got and has not freed
    unmapped,               \* the pages that destruction has unmapped
    aba                     \* history: an exchange succeeded on a stale link

vars == <<free_list, all_pages, next_free, next_any, mapped, pc, header,
          seen, held, unmapped, aba>>

Goto(t, label) == pc' = [pc EXCEPT ![t] = label]

Init ==
    /\ free_list = Null
    /\ all_pages = Null
    /\ next_free = [p \in Pages |-> Null]
    /\ next_any = [p \in Pages |-> Null]
    /\ mapped = 0
    /\ pc = [t \in Threads |-> "idle"]
    /\ header = [t \in Threads |-> Null]
    /\ seen = [t \in Threads |-> Null]
    /\ held = [t \in Threads |-> {}]
    /\ unmapped = {}
    /\ aba = FALSE

----------------------------------------------------------------------------
(* page_allocator_alloc *)

\* Load the top of the free list; with none, go on to map a page.
AllocLoad(t) ==
    /\ \/ pc[t] = "idle" /\ Cardinality(held[t]) < MaxHeld
       \/ pc[t] = "load"
    /\ header' = [header EXCEPT ![t] = free_list]
    /\ Goto(t, IF free_list = Null THEN "map" ELSE "link")
    /\ UNCHANGED <<free_list, all_pages, next_free, next_any, mapped, seen,
                   held, unmapped, aba>>

\* Read the link of that page to build the exchange.
AllocReadLink(t) ==
    /\ pc[t] = "link"
    /\ seen' = [seen EXCEPT ![t] = next_free[header[t]]]
    /\ Goto(t, "pop")
    /\ UNCHANGED <<free_list, all_pages, next_free, next_any, mapped, header,
                   held, unmapped, aba>>

\* Mutant: the top is stored without comparing it first.
AllocPopBlind(t) ==
    /\ pc[t] = "pop"
    /\ free_list' = seen[t]
    /\ aba' = (aba \/ (free_list = header[t] /\ next_free[header[t]] # seen[t]))
    /\ Goto(t, "unlink")
    /\ UNCHANGED <<all_pages, next_free, next_any, mapped, header, seen, held,
                   unmapped>>

AllocPop(t) ==
    /\ pc[t] = "pop"
    /\ free_list = header[t]
    /\ free_list' = seen[t]
    /\ aba' = (aba \/ next_free[header[t]] # seen[t])
    /\ Goto(t, "unlink")
    /\ UNCHANGED <<all_pages, next_free, next_any, mapped, header, seen, held,
                   unmapped>>

\* A weak exchange may also fail when the values are equal.
AllocPopFail(t) ==
    /\ pc[t] = "pop"
    /\ Goto(t, "load")
    /\ UNCHANGED <<free_list, all_pages, next_free, next_any, mapped, header,
                   seen, held, unmapped, aba>>

\* The page leaves the list: clear its link and return it.
AllocReturn(t) ==
    /\ pc[t] = "unlink"
    /\ next_free' = [next_free EXCEPT ![header[t]] = Null]
    /\ held' = [held EXCEPT ![t] = @ \cup {header[t]}]
    /\ header' = [header EXCEPT ![t] = Null]
    /\ seen' = [seen EXCEPT ![t] = Null]
    /\ Goto(t, "idle")
    /\ UNCHANGED <<free_list, all_pages, next_any, mapped, unmapped, aba>>

AllocMap(t) ==
    /\ pc[t] = "map"
    /\ mapped < MaxPages
    /\ mapped' = mapped + 1
    /\ header' = [header EXCEPT ![t] = mapped + 1]
    /\ seen' = [seen EXCEPT ![t] = all_pages]
    /\ Goto(t, "record")
    /\ UNCHANGED <<free_list, all_pages, next_free, next_any, held, unmapped,
                   aba>>

\* mmap fails: alloc returns NULL.
AllocMapFails(t) ==
    /\ pc[t] = "map"
    /\ mapped = MaxPages
    /\ Goto(t, "idle")
    /\ UNCHANGED <<free_list, all_pages, next_free, next_any, mapped, header,
                   seen, held, unmapped, aba>>

\* Mutant: the link is not renewed after a failed exchange.
AllocRecordStaleLink(t) ==
    /\ pc[t] = "record"
    /\ all_pages' = header[t]
    /\ next_any' = [next_any EXCEPT ![header[t]] = seen[t]]
    /\ held' = [held EXCEPT ![t] = @ \cup {header[t]}]
    /\ header' = [header EXCEPT ![t] = Null]
    /\ seen' = [seen EXCEPT ![t] = Null]
    /\ Goto(t, "idle")
    /\ UNCHANGED <<free_list, next_free, mapped, unmapped, aba>>

\* Link the new page before the head that was read and exchange the head.
AllocRecord(t) ==
    /\ pc[t] = "record"
    /\ all_pages = seen[t]
    /\ all_pages' = header[t]
    /\ next_any' = [next_any EXCEPT ![header[t]] = seen[t]]
    /\ held' = [held EXCEPT ![t] = @ \cup {header[t]}]
    /\ header' = [header EXCEPT ![t] = Null]
    /\ seen' = [seen EXCEPT ![t] = Null]
    /\ Goto(t, "idle")
    /\ UNCHANGED <<free_list, next_free, mapped, unmapped, aba>>

\* A failed exchange loads the head it found.
AllocRecordFail(t) ==
    /\ pc[t] = "record"
    /\ seen' = [seen EXCEPT ![t] = all_pages]
    /\ UNCHANGED <<free_list, all_pages, next_free, next_any, mapped, pc,
                   header, held, unmapped, aba>>

----------------------------------------------------------------------------
(* page_allocator_free, called with a page that the thread holds. *)

FreeLoad(t, p) ==
    /\ pc[t] = "idle"
    /\ p \in held[t]
    /\ held' = [held EXCEPT ![t] = @ \ {p}]
    /\ header' = [header EXCEPT ![t] = p]
    /\ seen' = [seen EXCEPT ![t] = free_list]
    /\ Goto(t, "relink")
    /\ UNCHANGED <<free_list, all_pages, next_free, next_any, mapped,
                   unmapped, aba>>

FreeLink(t) ==
    /\ pc[t] = "relink"
    /\ next_free' = [next_free EXCEPT ![header[t]] = seen[t]]
    /\ Goto(t, "push")
    /\ UNCHANGED <<free_list, all_pages, next_any, mapped, header, seen, held,
                   unmapped, aba>>

\* Mutant: the top is stored without comparing it first.
FreePushBlind(t) ==
    /\ pc[t] = "push"
    /\ free_list' = header[t]
    /\ header' = [header EXCEPT ![t] = Null]
    /\ seen' = [seen EXCEPT ![t] = Null]
    /\ Goto(t, "idle")
    /\ UNCHANGED <<all_pages, next_free, next_any, mapped, held, unmapped, aba>>

FreePush(t) ==
    /\ pc[t] = "push"
    /\ free_list = seen[t]
    /\ free_list' = header[t]
    /\ header' = [header EXCEPT ![t] = Null]
    /\ seen' = [seen EXCEPT ![t] = Null]
    /\ Goto(t, "idle")
    /\ UNCHANGED <<all_pages, next_free, next_any, mapped, held, unmapped,
                   aba>>

FreePushFail(t) ==
    /\ pc[t] = "push"
    /\ seen' = [seen EXCEPT ![t] = free_list]
    /\ Goto(t, "relink")
    /\ UNCHANGED <<free_list, all_pages, next_free, next_any, mapped, header,
                   held, unmapped, aba>>

----------------------------------------------------------------------------
\* The pages reached from p in at most n links of a list.
Reached(next, p) ==
    LET reach[n \in 0 .. MaxPages] ==
            IF n = 0 THEN {p} \ {Null}
            ELSE reach[n - 1] \cup ({next[q] : q \in reach[n - 1]} \ {Null})
    IN  reach[MaxPages]

\* page_allocator_destroy: unmap what the list of all pages reaches.
Destroy ==
    /\ \A t \in Threads : pc[t] = "idle"
    /\ unmapped' = Reached(next_any, all_pages)
    /\ all_pages' = Null
    /\ pc' = [t \in Threads |-> "ended"]
    /\ UNCHANGED <<free_list, next_free, next_any, mapped, header, seen, held,
                   aba>>

Ended == (\A t \in Threads : pc[t] = "ended") /\ UNCHANGED vars

Step(t) ==
    \/ AllocLoad(t)
    \/ AllocReadLink(t)
    \/ AllocPop(t)
    \/ AllocPopFail(t)
    \/ AllocReturn(t)
    \/ AllocMap(t)
    \/ AllocMapFails(t)
    \/ AllocRecord(t)
    \/ AllocRecordFail(t)
    \/ \E p \in held[t] : FreeLoad(t, p)
    \/ FreeLink(t)
    \/ FreePush(t)
    \/ FreePushFail(t)

Next ==
    \/ \E t \in Threads : Step(t)
    \/ Destroy
    \/ Ended

Spec == Init /\ [][Next]_vars

----------------------------------------------------------------------------
\* The page a thread owns outright: held, or on its way out of or into the
\* free list.
Owned(t) ==
    held[t] \cup
        (IF pc[t] \in {"unlink", "relink", "push", "record"} THEN {header[t]} ELSE {})

\* page_allocator.h: a thread-safe allocator.  No page is held by two
\* threads, and none that is held is on the free list.
PagesExclusive ==
    /\ \A s, t \in Threads : s # t => Owned(s) \cap Owned(t) = {}
    /\ \A t \in Threads : Owned(t) \cap Reached(next_free, free_list) = {}

\* The pop never goes wrong except by succeeding on a stale link.
ExclusiveUnlessStale == ~aba => PagesExclusive

\* Every mapped page is on the list of all pages, exactly from the exchange
\* that records it on, in particular when two threads map pages at once; so
\* destruction unmaps every page that was handed out.
Ending == \A t \in Threads : pc[t] = "ended"

AllPagesComplete ==
    IF Ending
    THEN unmapped = 1 .. mapped
    ELSE Reached(next_any, all_pages) =
        (1 .. mapped) \ {header[t] : t \in {u \in Threads : pc[u] = "record"}}

\* A page neither on the free list nor owned is lost; none is unless an
\* exchange has succeeded on a stale link.
NoPageLost ==
    ~aba => 1 .. mapped \subseteq
                Reached(next_free, free_list) \cup UNION {Owned(t) : t \in Threads}
=============================================================================
