------------------------------ MODULE ListHead ------------------------------
(***************************************************************************)
(* The intrusive circular list of list.h, as the pools of Utils.c use it:  *)
(* AppList, waitList and FdList each have a static head, an entry holds    *)
(* the two pointers of the one list it is in, and a search walks the       *)
(* `next' pointers until it is back at the head.  The code is single       *)
(* threaded and no callback adds or removes an entry, so a walk is not     *)
(* interrupted; it is modelled step by step because every step follows a   *)
(* pointer.  `order' is a history variable: the entries of each list in    *)
(* the order the calls ask for.                                            *)
(***************************************************************************)
EXTENDS Naturals, SequencesExt

CONSTANTS
    Entries,     \* connList_t and sockList_t blocks
    Lists,       \* the heads: procs_head, procs_head2, sockfdlist_head
    NULL

ASSUME NodesAssumption == Entries \cap Lists = {} /\ NULL \notin Entries \cup Lists

VARIABLES
    next, prev,  \* the pointers of every list_head
    order,       \* history: what each list holds
    walk,        \* the call being executed: operation, list, entries its callback accepts
    cursor,      \* where list_for_each is
    result       \* what the last call returned

vars == <<next, prev, order, walk, cursor, result>>
links == <<next, prev, order>>

Nodes == Entries \cup Lists

\* INIT_LIST_HEAD of the three heads; the pointers of an entry are not initialised.
Init == /\ next = [n \in Nodes |-> IF n \in Lists THEN n ELSE NULL]
        /\ prev = [n \in Nodes |-> IF n \in Lists THEN n ELSE NULL]
        /\ order = [l \in Lists |-> <<>>]
        /\ walk = [op |-> "none", list |-> NULL, accept |-> {}]
        /\ cursor = NULL /\ result = NULL

----------------------------------------------------------------------------
Members(l) == {order[l][i] : i \in DOMAIN order[l]}
Unlinked(e) == \A l \in Lists : e \notin Members(l)
Idle == walk.op = "none"

\* Mutant: the successor of the new entry is read after it has been linked: it is itself.
LinkEarly(e, before, after) ==
    /\ next' = [[next EXCEPT ![before] = e] EXCEPT ![e] = e]
    /\ prev' = [[prev EXCEPT ![after] = e] EXCEPT ![e] = before]

\* __list_add: e between two consecutive nodes.
Link(e, before, after) ==
    /\ next' = [[next EXCEPT ![e] = after] EXCEPT ![before] = e]
    /\ prev' = [[prev EXCEPT ![after] = e] EXCEPT ![e] = before]

\* Mutant: the node before the removed entry still leads to it.
UnlinkOneWay(e) ==
    /\ prev' = [prev EXCEPT ![next[e]] = prev[e]]
    /\ UNCHANGED next

\* list_del: the neighbours of e are joined, the pointers of e are left as they are.
Unlink(e) ==
    /\ prev' = [prev EXCEPT ![next[e]] = prev[e]]
    /\ next' = [next EXCEPT ![prev[e]] = next[e]]

\* list_add, list_add_tail: the first insertion is the one the pools use.
ListAdd(l, e) ==
    /\ Idle /\ Unlinked(e)
    /\ Link(e, l, next[l])
    /\ order' = [order EXCEPT ![l] = <<e>> \o @]
    /\ UNCHANGED <<walk, cursor, result>>

ListAddTail(l, e) ==
    /\ Idle /\ Unlinked(e)
    /\ Link(e, prev[l], l)
    /\ order' = [order EXCEPT ![l] = Append(@, e)]
    /\ UNCHANGED <<walk, cursor, result>>

\* list_empty: both pointers of the head lead back to it.
Empty(l) == next[l] = l /\ prev[l] = l

----------------------------------------------------------------------------
(* AppListFnd, AppListGet, AppListDo and their likes: a walk that ends at  *)
(* the first entry the callback accepts, or back at the head.              *)

Call(op, l, accept) ==
    /\ Idle
    /\ walk' = [op |-> op, list |-> l, accept |-> accept]
    /\ cursor' = next[l]
    /\ UNCHANGED <<next, prev, order, result>>

Return(e) == walk' = [walk EXCEPT !.op = "none"] /\ cursor' = NULL /\ result' = e

\* Mutant: the walk gives up after the first entry.
SkipGivesUp ==
    /\ ~Idle /\ cursor # walk.list /\ cursor \notin walk.accept
    /\ Return(NULL) /\ UNCHANGED links

Skip == /\ ~Idle /\ cursor # walk.list /\ cursor \notin walk.accept
        /\ cursor' = next[cursor]
        /\ UNCHANGED <<next, prev, order, walk, result>>

Accept == /\ ~Idle /\ cursor # walk.list /\ cursor \in walk.accept
          /\ \/ walk.op # "Get" /\ UNCHANGED links
             \/ /\ walk.op = "Get" /\ Unlink(cursor)
                /\ \E i \in DOMAIN order[walk.list] :
                     /\ order[walk.list][i] = cursor
                     /\ order' = [order EXCEPT ![walk.list] = RemoveAt(@, i)]
          /\ Return(cursor)

\* Mutant: the cursor of a walk that found nothing is returned: the head, no entry.
BackAtHeadCursor == /\ ~Idle /\ cursor = walk.list
                    /\ Return(cursor) /\ UNCHANGED links

BackAtHead == /\ ~Idle /\ cursor = walk.list
              /\ Return(NULL) /\ UNCHANGED links

Step == Skip \/ Accept \/ BackAtHead

Next == \/ \E l \in Lists, e \in Entries : ListAdd(l, e) \/ ListAddTail(l, e)
        \/ \E l \in Lists, accept \in SUBSET Entries, op \in {"Fnd", "Get", "Do"} : Call(op, l, accept)
        \/ Step

Spec == Init /\ [][Next]_vars

\* A call runs to its end.
FairSpec == Spec /\ WF_vars(Step)

----------------------------------------------------------------------------
\* The circle of list l, its head at both ends.
Circle(l) == <<l>> \o order[l] \o <<l>>

\* Every entry is in one list at most and in it once; the `next' pointers lead through a
\* list in its order and back to the head, the `prev' pointers the other way, whatever was
\* added at either end and removed from anywhere.
Represents ==
    /\ \A l \in Lists : \A i \in 1..(Len(order[l]) + 1) :
         next[Circle(l)[i]] = Circle(l)[i + 1] /\ prev[Circle(l)[i + 1]] = Circle(l)[i]
    /\ \A l, m \in Lists : \A i \in DOMAIN order[l], j \in DOMAIN order[m] :
         order[l][i] = order[m][j] => l = m /\ i = j

TypeOK == /\ next \in [Nodes -> Nodes \cup {NULL}] /\ prev \in [Nodes -> Nodes \cup {NULL}]
          /\ order \in [Lists -> Seq(Entries)]
          /\ walk \in [op : {"none", "Fnd", "Get", "Do"}, list : Lists \cup {NULL}, accept : SUBSET Entries]
          /\ cursor \in Nodes \cup {NULL}
          /\ result \in Entries \cup {NULL}

\* A walk goes from the first entry to the head, in order: whatever is before the cursor
\* has been offered to the callback, and refused.
WalksInOrder ==
    ~Idle => \E n \in 0..Len(order[walk.list]) :
               /\ cursor = Circle(walk.list)[n + 2]
               /\ \A i \in 1..n : order[walk.list][i] \notin walk.accept

\* A search returns the first accepted entry of its list, and NULL only if there is none;
\* that is what makes the pools serve their newest entry first.
FindReturnsFirst ==
    [][~Idle /\ walk'.op = "none" =>
         LET hits == {i \in DOMAIN order[walk.list] : order[walk.list][i] \in walk.accept}
         IN  IF hits = {} THEN result' = NULL
             ELSE \E i \in hits : (\A j \in hits : i <= j) /\ result' = order[walk.list][i]]_vars

\* The test for an empty list tells whether it is.
EmptyIsEmpty == \A l \in Lists : Empty(l) <=> order[l] = <<>>

\* Every walk comes back to its head or finds an entry.
WalkEnds == ~Idle ~> Idle
=============================================================================
