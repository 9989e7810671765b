---------------------------- MODULE RecordValues ----------------------------
(***************************************************************************)
(* snapshot_value (waldoctl/record_values.py): the bounded, redacted copy  *)
(* of a skill's arguments and result that goes into its record.            *)
(*                                                                         *)
(* A value is a graph of nodes, as objects refer to objects: two lists may *)
(* share an item, and a list may contain itself.  A node is a plain value  *)
(* (None, a number, a short string), an object that is not copied, one     *)
(* that wraps another (an enum member, a NumPy scalar or array), a list    *)
(* (or tuple), or a mapping (or dataclass) with a key for each of its      *)
(* items.  A key is a string or not; its head is the first 128 characters, *)
(* and the name of a credential may stand in its head or after it.         *)
(*                                                                         *)
(* A copy is the routes, by index and head of key, on which plain values   *)
(* are shown in it, and whether it says anywhere that it was truncated.    *)
(*                                                                         *)
(* Left out: two keys of one mapping with the same head, of which the last *)
(* is kept, and numbers and strings that are shortened by themselves.      *)
(***************************************************************************)
EXTENDS Integers, SequencesExt

CONSTANTS
    MaxVisits,   \* the initial value of remaining
    MaxItems,    \* of a list or mapping
    MaxDepth

ASSUME SnapshotAssumption == {MaxVisits, MaxItems, MaxDepth} \subseteq Nat

Node(kind, keys, to) == [kind |-> kind, keys |-> keys, to |-> to]

(* Where the k-th item is found, what a wrapper holds being its first, and *)
(* what is found behind it.                                                *)
Label(node, k) == IF node.kind = "mapping" THEN node.keys[k].head ELSE k

Under(label, routes) == {<<label>> \o r : r \in routes}

(* Fault: what stands behind the part of the key that is kept is not       *)
(* looked at.                                                              *)
SecretInHead(key) == key.secret = "head"

(* _SECRET.search(key) *)
Secret(key) == key.secret \in {"head", "tail"}

-----------------------------------------------------------------------------
(* Every operator returns what has been copied and how many visits remain; *)
(* deeper is what the nodes look like one level deeper, for every number   *)
(* of visits that may remain then.                                         *)

Copied(shown, truncated, remaining) ==
    [shown |-> shown, truncated |-> truncated, remaining |-> remaining]

(* One more item of a list or mapping, unless the loop has been left: then *)
(* both say so in the end.                                                 *)
VisitItem(node, deeper, copied, k) ==
    IF copied.remaining <= 0 THEN [copied EXCEPT !.truncated = TRUE]
    ELSE IF node.kind = "mapping" /\ (~node.keys[k].string \/ Secret(node.keys[k])) THEN copied
    ELSE LET one == deeper[node.to[k]][copied.remaining]
         IN  Copied(copied.shown \cup Under(Label(node, k), one.shown),
                    copied.truncated \/ one.truncated, one.remaining)

VisitItems(node, deeper, remaining) ==
    LET size == Len(node.to)
        visited == IF size < MaxItems THEN size ELSE MaxItems
        step(copied, k) == VisitItem(node, deeper, copied, k)
        all == FoldLeft(step, Copied({}, FALSE, remaining), [k \in 1..visited |-> k])
    IN  [all EXCEPT !.truncated = @ \/ (node.kind = "list" /\ visited < size)]

Visit(node, deeper, remaining) ==
    CASE node.kind = "plain" -> Copied({<<>>}, FALSE, remaining)
      [] node.kind = "object" -> Copied({}, FALSE, remaining)
      [] node.kind = "wrapper" ->
            LET one == deeper[node.to[1]][remaining]
            IN  [one EXCEPT !.shown = Under(Label(node, 1), @)]
      [] node.kind \in {"list", "mapping"} -> VisitItems(node, deeper, remaining)

(* snapshot_value; room is how many levels deeper visit may go.            *)
Snapshot(nodes, root) ==
    LET visit[room \in 0..(MaxDepth + 1)] ==
            [at \in DOMAIN nodes |-> [budget \in 0..MaxVisits |->
                IF budget = 0 \/ room = 0 THEN Copied({}, TRUE, budget - 1)
                ELSE Visit(nodes[at], visit[room - 1], budget - 1)]]
    IN  visit[MaxDepth + 1][root][MaxVisits]

-----------------------------------------------------------------------------
(* The routes of at most n nodes to the plain values that may be shown:    *)
(* not behind the key of a credential or one that is no string.            *)

OpenItems(node) ==
    {k \in DOMAIN node.to :
        node.kind = "mapping" => node.keys[k].string /\ node.keys[k].secret = "no"}

OpenRoutes(nodes, root, n) ==
    LET routes[m \in 0..n] ==
            [at \in DOMAIN nodes |->
                IF m = 0 THEN {}
                ELSE IF nodes[at].kind = "plain" THEN {<<>>}
                ELSE UNION {Under(Label(nodes[at], k), routes[m - 1][nodes[at].to[k]]) :
                            k \in OpenItems(nodes[at])}]
    IN  routes[n][root]
=============================================================================
