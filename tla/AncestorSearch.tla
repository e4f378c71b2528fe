--------------------------- MODULE AncestorSearch ---------------------------
(***************************************************************************)
(* find_common_ancestor_bounded (sync.rs): after a reorganisation the      *)
(* engine compares its stored block hashes with the server's, one remote   *)
(* call per height, to find the newest block both sides have.  A gap-free  *)
(* window is probed at doubling distances and the last bracket is searched *)
(* by halves; a window with gaps is walked downwards.  The server's chain  *)
(* may change between any two probes.                                      *)
(*                                                                         *)
(* Blocks are compared by hash, so both chains agree exactly up to some    *)
(* height, shared.                                                         *)
(***************************************************************************)
EXTENDS Integers, FiniteSets, FiniteSetsExt

CONSTANTS
    SearchTop,      \* bound: the highest divergent height
    ReorgDepth,    \* MAX_REORG_SEARCH_DEPTH
    SearchFloor,    \* birthday_height - 1
    MaxForks        \* bound: chain changes during the search

ASSUME SearchAssumption ==
    /\ {SearchTop, ReorgDepth, SearchFloor, MaxForks} \subseteq Nat
    /\ SearchFloor < SearchTop /\ ReorgDepth > 0

VARIABLES
    shared,   \* the newest height at which the server has our block
    remote,   \* the server's tip
    search,   \* the search in progress
    forks,    \* chain changes so far
    seen      \* history: every value of shared since the search began

searchVars == <<shared, remote, search, forks, seen>>

NoAncestor == -1

SearchStop(div) == Max({div - ReorgDepth, SearchFloor})
Window(div) == SearchStop(div)..div

\* The search has not been called.
Ready == [pc |-> "ready", div |-> 0, stored |-> {}, left |-> {}, distance |-> 1, lower |-> 0, upper |-> 0,
          probes |-> 0]

SearchInit ==
    /\ remote = SearchTop
    /\ shared \in 0..SearchTop
    /\ search = Ready
    /\ forks = 0
    /\ seen = {}

\* The caller found the hashes at height div to differ.
BeginSearch ==
    /\ search.pc = "ready"
    /\ \E div \in Max({shared, SearchFloor}) + 1..SearchTop : \E gap \in {0} \cup Window(div) :
         LET local == {h \in Window(div) : h > 0} \ {gap}
             whole == Cardinality(local) = div - SearchStop(div) + 1
         IN search' = [Ready EXCEPT !.pc = IF whole THEN "probe" ELSE "walk",
                                    !.div = div, !.stored = local, !.left = local,
                                    !.upper = div]
    /\ seen' = {shared}
    /\ UNCHANGED <<shared, remote, forks>>

Same(h) == h <= shared

\* reorg_backoff_probe
BackoffProbe == Max({search.div - search.distance, SearchStop(search.div)})

\* get_block fails: the server has no block at that height, or the deadline
\* of find_common_ancestor has passed.
SearchFails ==
    /\ search.pc \in {"probe", "halve", "walk"}
    /\ search' = [search EXCEPT !.pc = "failed"]
    /\ UNCHANGED <<shared, remote, forks, seen>>

\* One probe of the doubling phase.
Probe ==
    /\ search.pc = "probe" /\ BackoffProbe <= remote
    /\ LET at == BackoffProbe
           next == [search EXCEPT !.probes = @ + 1]
       IN search' =
            IF Same(at) THEN [next EXCEPT !.pc = "halve", !.lower = at, !.upper = @ - 1]
            ELSE IF at = SearchStop(search.div)
                 THEN [next EXCEPT !.pc = "done", !.lower = NoAncestor]
                 ELSE [next EXCEPT !.upper = at, !.distance = 2 * @]
    /\ UNCHANGED <<shared, remote, forks, seen>>

HalfwayDown == (search.lower + search.upper) \div 2   \* mutant
Halfway == (search.lower + search.upper + 1) \div 2

\* One probe of the halving phase, or its end.
HalveSkipsOne ==   \* mutant
    /\ search.pc = "halve" /\ search.lower < search.upper /\ Halfway <= remote
    /\ search' = IF Same(Halfway)
                 THEN [search EXCEPT !.lower = Halfway, !.probes = @ + 1]
                 ELSE [search EXCEPT !.upper = Halfway - 2, !.probes = @ + 1]
    /\ UNCHANGED <<shared, remote, forks, seen>>
Halve ==
    /\ search.pc = "halve" /\ search.lower < search.upper /\ Halfway <= remote
    /\ search' = IF Same(Halfway)
                 THEN [search EXCEPT !.lower = Halfway, !.probes = @ + 1]
                 ELSE [search EXCEPT !.upper = Halfway - 1, !.probes = @ + 1]
    /\ UNCHANGED <<shared, remote, forks, seen>>
HalveDone ==
    /\ search.pc = "halve" /\ search.lower >= search.upper
    /\ search' = [search EXCEPT !.pc = "done"]
    /\ UNCHANGED <<shared, remote, forks, seen>>

\* A window with gaps: every stored row, newest first.
WalkNext == Max(search.left)
Walk ==
    /\ search.pc = "walk" /\ search.left # {} /\ WalkNext <= remote
    /\ search' = IF Same(WalkNext)
                 THEN [search EXCEPT !.pc = "done", !.lower = WalkNext, !.probes = @ + 1]
                 ELSE [search EXCEPT !.left = @ \ {WalkNext}, !.probes = @ + 1]
    /\ UNCHANGED <<shared, remote, forks, seen>>
WalkDone ==
    /\ search.pc = "walk" /\ search.left = {}
    /\ search' = [search EXCEPT !.pc = "done", !.lower = NoAncestor]
    /\ UNCHANGED <<shared, remote, forks, seen>>

\* External: the server switches to another branch while the search runs,
\* which may also bring our branch back.
Fork ==
    /\ search.pc \in {"probe", "halve", "walk"} /\ forks < MaxForks
    /\ forks' = forks + 1
    /\ shared' \in 0..search.div
    /\ remote' \in {search.div - 1, search.div}
    /\ shared' <= remote'
    /\ seen' = seen \cup {shared'}
    /\ UNCHANGED search

Searcher == BeginSearch \/ Probe \/ Halve \/ HalveDone \/ Walk \/ WalkDone
SearchNext == Searcher \/ SearchFails \/ Fork
SearchSpec == SearchInit /\ [][SearchNext]_searchVars

-----------------------------------------------------------------------------
\* The newest stored row a server sharing our chain up to a has.
NewestStored(a) ==
    LET rows == {h \in search.stored : h <= a}
    IN IF rows = {} THEN NoAncestor ELSE Max(rows)

\* The engine rewinds neither too little nor too far, whatever the server does
\* between two probes: the ancestor found was shared with some chain seen
\* during the search, and is no older than the oldest of those chains forces.
\* Over a server that stays put it is exactly the newest block both sides have.
AncestorBracketed ==
    search.pc = "done" =>
        /\ search.lower <= Max({NewestStored(a) : a \in seen})
        /\ search.lower >= Min({NewestStored(a) : a \in seen})

TwoTo[k \in Nat] == IF k = 0 THEN 1 ELSE 2 * TwoTo[k - 1]

\* A gap-free window costs two probes per doubling at most, "a few dozen small
\* RPCs" instead of one per height (comment in find_common_ancestor_bounded).
ProbesLogarithmic ==
    search.pc \in {"halve", "done"} /\ search.stored = Window(search.div) =>
        \E k \in 0..SearchTop : /\ TwoTo[k] <= search.div - SearchStop(search.div) + 1
                                /\ search.probes <= 2 * k + 2
=============================================================================
