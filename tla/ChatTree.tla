------------------------------ MODULE ChatTree ------------------------------
(***************************************************************************)
(* A chat as a tree of messages (core/chat_tree.py).  A message is known   *)
(* by a number given in order of creation, which stands for its uuid and   *)
(* for its `created` time: the clock is assumed not to step back within a  *)
(* chat.  Root is the None under which first messages hang.                *)
(*                                                                         *)
(* Left out: contents, titles, settings, models and servers.               *)
(***************************************************************************)
EXTENDS Naturals, FiniteSets, SequencesExt

Root == 0
Roles == {"user", "assistant"}

\* self.nodes, self.children and self.current.
NewTree ==
    [parent |-> [n \in {} |-> Root], role |-> [n \in {} |-> "user"],
     kids |-> [p \in {Root} |-> <<>>], current |-> Root]

Nodes(t) == DOMAIN t.parent

\* sorted by `created`: the i-th message has i that are no younger.
Ascending(S) ==
    [i \in 1..Cardinality(S) |-> CHOOSE n \in S : Cardinality({m \in S : m <= n}) = i]

\* list.index
At(s, n) == CHOOSE i \in 1..Len(s) : s[i] = n

\* Every message hangs under an older one of the chat and is listed once among its
\* children, and the selected message exists.
TreeOK(t, ids) ==
    /\ Nodes(t) \subseteq ids
    /\ t.role \in [Nodes(t) -> Roles]
    /\ DOMAIN t.kids = Nodes(t) \cup {Root}
    /\ t.current \in DOMAIN t.kids
    /\ \A n \in Nodes(t) : t.parent[n] \in DOMAIN t.kids /\ t.parent[n] < n
    /\ \A p \in DOMAIN t.kids :
          /\ IsInjective(t.kids[p])
          /\ ToSet(t.kids[p]) = {n \in Nodes(t) : t.parent[n] = p}

-----------------------------------------------------------------------------
(* Building. *)

\* _add raises KeyError for any other parent.
CanAdd(t, p) == p \in Nodes(t) \cup {Root}

Add(t, n, p, role) ==
    [parent  |-> [m \in Nodes(t) \cup {n} |-> IF m = n THEN p ELSE t.parent[m]],
     role    |-> [m \in Nodes(t) \cup {n} |-> IF m = n THEN role ELSE t.role[m]],
     kids    |-> [m \in DOMAIN t.kids \cup {n} |->
                    IF m = n THEN <<>> ELSE IF m = p THEN Append(t.kids[p], n) ELSE t.kids[m]],
     current |-> n]

\* remove_leaf raises ValueError for a message with replies: IsLeaf is its guard.
IsLeaf(t, n) == t.kids[n] = <<>>

RemoveLeaf(t, n) ==
    [parent  |-> Restrict(t.parent, Nodes(t) \ {n}),
     role    |-> Restrict(t.role, Nodes(t) \ {n}),
     kids    |-> [p \in DOMAIN t.kids \ {n} |->
                    IF p = t.parent[n] THEN RemoveAt(t.kids[p], At(t.kids[p], n)) ELSE t.kids[p]],
     current |-> IF t.current = n THEN t.parent[n] ELSE t.current]

-----------------------------------------------------------------------------
(* Navigating. *)

Path(t, leaf) ==
    LET path[n \in Nodes(t) \cup {Root}] ==
          IF n = Root THEN <<>> ELSE Append(path[t.parent[n]], n)
    IN path[leaf]

\* The most recently added child, down to a leaf.
LatestLeaf(t, n) ==
    LET down[m \in Nodes(t)] ==
          IF IsLeaf(t, m) THEN m ELSE down[Max(ToSet(t.kids[m]))]
    IN down[n]

Select(t, n) == [t EXCEPT !.current = n]

\* Mutant: the selection stops at the sibling, short of the leaf under it.
SwitchSiblingMutant(t, n, step) ==
    LET sibs == t.kids[t.parent[n]]
    IN Select(t, sibs[((At(sibs, n) - 1 + step) % Len(sibs)) + 1])

\* step is 1 or -1; sibs.index counts from 0.
SwitchSibling(t, n, step) ==
    LET sibs == t.kids[t.parent[n]]
    IN Select(t, LatestLeaf(t, sibs[((At(sibs, n) - 1 + step) % Len(sibs)) + 1]))

-----------------------------------------------------------------------------
(* Serialisation: the nodes by age, without the lists of children. *)

\* Mutant: only the conversation on the screen is written.
SavedMutant(t) ==
    [nodes |-> [i \in 1..Len(Path(t, t.current)) |->
                  LET n == Path(t, t.current)[i]
                  IN [id |-> n, parent |-> t.parent[n], role |-> t.role[n]]],
     current |-> t.current]

Saved(t) ==
    LET aged == Ascending(Nodes(t))
    IN [nodes   |-> [i \in 1..Len(aged) |->
                       [id |-> aged[i], parent |-> t.parent[aged[i]], role |-> t.role[aged[i]]]],
        current |-> t.current]

Ids(s) == {s.nodes[i].id : i \in 1..Len(s.nodes)}

Filed(s, n) == s.nodes[CHOOSE i \in 1..Len(s.nodes) : s.nodes[i].id = n]

\* The places in the file of the messages under p.
Under(s, p) == {i \in 1..Len(s.nodes) : s.nodes[i].parent = p}

\* Mutant: the children are listed the newest first.
LoadedMutant(s) ==
    [parent  |-> [n \in Ids(s) |-> Filed(s, n).parent],
     role    |-> [n \in Ids(s) |-> Filed(s, n).role],
     kids    |-> [p \in Ids(s) \cup {Root} |->
                    [j \in 1..Cardinality(Under(s, p)) |->
                       s.nodes[Reverse(Ascending(Under(s, p)))[j]].id]],
     current |-> IF s.current \in Ids(s) THEN s.current ELSE Root]

\* from_dict: each node is appended to its parent's children in the file's order.
Loaded(s) ==
    [parent  |-> [n \in Ids(s) |-> Filed(s, n).parent],
     role    |-> [n \in Ids(s) |-> Filed(s, n).role],
     kids    |-> [p \in Ids(s) \cup {Root} |->
                    [j \in 1..Cardinality(Under(s, p)) |-> s.nodes[Ascending(Under(s, p))[j]].id]],
     current |-> IF s.current \in Ids(s) THEN s.current ELSE Root]
=============================================================================
