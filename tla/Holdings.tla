------------------------------ MODULE Holdings ------------------------------
(***************************************************************************)
(* The NFT holdings app.mjs serves: fetchNftHoldings of agent/lib/         *)
(* blockscout.mjs behind the cache of TtlCache.  A walk asks Blockscout    *)
(* for one page after another, for one token standard after the other, and *)
(* folds the items by contract as they come.  fetchTokenHoldings is the    *)
(* case of one standard.                                                   *)
(*                                                                         *)
(* A page is represented by the contract of its one item.                  *)
(***************************************************************************)
EXTENDS TtlCache, Sequences

CONSTANTS
    Contracts,       \* contracts of which the wallet holds items
    Pages,           \* Pages[s]: what Blockscout lists for the s-th standard
    MaxPages         \* MAX_PAGES

ASSUME PagesAssumption ==
    /\ Pages \in Seq(Seq(Contracts) \ {<<>>})
    /\ Pages # <<>>
    /\ MaxPages \in Nat \ {0}

VARIABLE
    walk             \* [Walks -> how far a walk has come, and what it folded]

pagedVars == <<vars, walk>>

NoItems == [c \in Contracts |-> 0]
AtFirstPage == [standard |-> 1, page |-> 1, instances |-> NoItems]

PagedInit == Init /\ walk = [w \in Walks |-> AtFirstPage]

\* Mutant: a collection met again starts its count afresh.
FoldedAfresh(w, c) == [walk[w].instances EXCEPT ![c] = 1]

\* The collections with one more item of contract c.
Folded(w, c) == [walk[w].instances EXCEPT ![c] = @ + 1]

\* The page that walk w waits for, and whether it names a next one.
Item(w) == Pages[walk[w].standard][walk[w].page]
NamesNext(w) == walk[w].page < Len(Pages[walk[w].standard])

\* Mutant: the cap is taken one page late.
MorePagesLate(w) == NamesNext(w) /\ walk[w].page <= MaxPages

\* The loop goes on while there is a cursor and the cap is not reached.
MorePages(w) == NamesNext(w) /\ walk[w].page < MaxPages

MoreStandards(w) == walk[w].standard < Len(Pages)

Advanced(w) == IF MorePages(w) THEN [walk[w] EXCEPT !.page = @ + 1]
               ELSE [walk[w] EXCEPT !.standard = @ + 1, !.page = 1]

\* A page answers, and another one is asked for.
PageAnswered(w) ==
    /\ walks[w].status = "running"
    /\ MorePages(w) \/ MoreStandards(w)
    /\ walk' = [walk EXCEPT ![w] = [Advanced(w) EXCEPT !.instances = Folded(w, Item(w))]]
    /\ UNCHANGED vars

\* The last page of the last standard answers: the walk is over.  At the cap
\* its list is short; unlike the sentinel, the routes do not ask to be told.
LastPageAnswered(w) ==
    /\ ~MorePages(w) /\ ~MoreStandards(w)
    /\ walk' = [walk EXCEPT ![w].instances = Folded(w, Item(w))]
    /\ WalkSucceeds(w)

\* Mutant: what came before the page that failed is returned.
PageFailedShort(w) ==
    /\ WalkSucceeds(w)
    /\ UNCHANGED walk

\* A page is refused or times out: the whole walk fails, whatever came before.
PageFailed(w) ==
    /\ WalkFails(w)
    /\ walk' = [walk EXCEPT ![w] = AtFirstPage]

PagedNext ==
    \/ (Tick \/ Invalidate) /\ UNCHANGED walk
    \/ \E c \in Callers : (Hit(c) \/ Join(c) \/ Produce(c) \/ Leave(c)) /\ UNCHANGED walk
    \/ \E w \in Walks : PageAnswered(w) \/ LastPageAnswered(w) \/ PageFailed(w)

\* Every page answers or times out (blockscout.mjs, TIMEOUT_MS).
PagedSpec ==
    /\ PagedInit /\ [][PagedNext]_pagedVars
    /\ \A w \in Walks :
          WF_pagedVars(PageAnswered(w) \/ LastPageAnswered(w) \/ PageFailed(w))

-----------------------------------------------------------------------------

Listed(s) == 1..(IF Len(Pages[s]) < MaxPages THEN Len(Pages[s]) ELSE MaxPages)

\* How many items of contract c the listed pages have.
Held(c) == Cardinality({x \in (1..Len(Pages)) \X (1..MaxPages) :
                           x[2] \in Listed(x[1]) /\ Pages[x[1]][x[2]] = c})

\* A list that is served is that of every standard, each up to the cap, with
\* every item counted for its collection once: neither a failed page nor a
\* second standard leaves half of it, and the cap cuts where it says
\* (blockscout.mjs:31-33, :66-79).
NoHalfList ==
    \A w \in Walks : walks[w].status = "ok" =>
        \A c \in Contracts : walk[w].instances[c] = Held(c)
=============================================================================
