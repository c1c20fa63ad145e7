---------------------------- MODULE RadixPrefix -----------------------------
(***************************************************************************)
(* The radix prefix cache of the native engine: RadixPrefixCache of        *)
(* native_mlx/prefix_cache.py, driven by NativeCacheCoordinator.  A        *)
(* compressed trie of token edges; nodes at page boundaries keep forked    *)
(* snapshots.  Edges are split between any two tokens, also in the middle  *)
(* of a page, and only leaves are evicted.                                 *)
(*                                                                         *)
(* Data: a node object is a number (Root is the root), its children are    *)
(* the nodes that name it as parent, and a lease is the number of a node   *)
(* or Root.  A snapshot is the tokens whose rows it holds.  Only the order *)
(* of the clock values matters.                                            *)
(***************************************************************************)
EXTENDS CacheCoordinator, SequencesExt

CONSTANT MaxNodes     \* node numbers; those of nodes that are gone are reused

VARIABLES
    tree,       \* the nodes and their fields
    published   \* _published_lengths_by_handle (0 if there is none)

radixVars == <<tree, pins, prompt, length, lease, published, snaps>>

Root == 0
Ids == 1 .. MaxNodes

PromptPrefixes == (UNION {Prefixes(t) : t \in Prompts}) \ {None}

(* No two nodes have the same tokens, so these are enough numbers. *)
ASSUME NodesAssumption == MaxNodes \in Nat /\ Cardinality(PromptPrefixes) <= MaxNodes

EmptyTree ==
    [nodes |-> {},
     parent |-> [n \in Ids |-> Root],
     edge |-> [n \in Ids |-> None],      \* edge_tokens
     prefix |-> [n \in Ids |-> None],    \* token_prefix
     rows |-> [n \in Ids |-> None],      \* what cache_handle holds, or None
     used |-> [n \in Ids |-> 0]]         \* last_used

RadixInit ==
    /\ tree = EmptyTree
    /\ pins = [n \in Ids |-> 0]
    /\ prompt = [r \in Slots |-> None]
    /\ length = [r \in Slots |-> 0]
    /\ lease = [r \in Slots |-> Root]
    /\ published = [r \in Slots |-> 0]
    /\ snaps = [p \in PagedPrefixes |-> 0]

Children(t, n) == {c \in t.nodes : t.parent[c] = n}

(* The tokens on the edges from the root down to n. *)
Path(t, n) ==
    LET path[m \in t.nodes \union {Root}] ==
          IF m = Root THEN <<>> ELSE path[t.parent[m]] \o t.edge[m]
    IN path[n]

(***************************************************************************)
(* The nodes that a walk from the root along tokens comes to: whose whole  *)
(* path matches, since children differ in their first token.               *)
(***************************************************************************)
Visited(t, tokens) == {n \in t.nodes \union {Root} : IsPrefix(Path(t, n), tokens)}

(* The member of a set of visited nodes that is reached last. *)
Deepest(t, ns) == CHOOSE n \in ns : \A m \in ns : Len(Path(t, m)) <= Len(Path(t, n))

(* Mutant: the last page of the prompt may be taken from the cache. *)
ReusableWhole(tokens) == (Len(tokens) \div PageSize) * PageSize

(* max_reusable *)
Reusable(tokens) == ((Len(tokens) - 1) \div PageSize) * PageSize

(* _lookup: the last node with a snapshot, Root if there is none. *)
RadixLookup(t, tokens) ==
    Deepest(t, {Root} \union {n \in Visited(t, SubSeq(tokens, 1, Reusable(tokens))) \ {Root} :
                              t.rows[n] # None})

(* The nodes with a snapshot. *)
Entries(t) == {n \in t.nodes : t.rows[n] # None}

(* _tick for node n: the newest of all, the others in order. *)
Stamp(t, n) ==
    LET others == Entries(t) \ {n}
        rank(m) == Cardinality({t.used[k] : k \in {o \in others : t.used[o] < t.used[m]}})
    IN [t EXCEPT !.used = [m \in Ids |->
          IF m \in others THEN rank(m)
          ELSE IF m = n THEN Cardinality({t.used[k] : k \in others}) ELSE 0]]

(***************************************************************************)
(* acquire: on a hit the node is pinned and forked for the request, else   *)
(* the coordinator creates an empty cache.                                 *)
(***************************************************************************)
RadixAcquire(r, t) ==
    LET n == RadixLookup(tree, t) IN
    /\ prompt[r] = None
    /\ prompt' = [prompt EXCEPT ![r] = t]
    /\ lease' = [lease EXCEPT ![r] = n]
    /\ IF n = Root THEN UNCHANGED <<length, published, pins, tree>>
       ELSE /\ length' = [length EXCEPT ![r] = Len(tree.rows[n])]
            /\ published' = [published EXCEPT ![r] = Len(tree.rows[n])]
            /\ pins' = [pins EXCEPT ![n] = pins[n] + 1]
            /\ tree' = Stamp(tree, n)
    /\ UNCHANGED snaps

-----------------------------------------------------------------------------
(* _insert_prefix *)

(* A node made of edge and prefix below parent p; ids are reused. *)
NewId(t) == Min(Ids \ t.nodes)

NewNode(t, p, edge, prefix) ==
    LET n == NewId(t)
    IN [t EXCEPT !.nodes = t.nodes \union {n}, !.parent[n] = p,
                 !.edge[n] = edge, !.prefix[n] = prefix]

(* How many tokens two sequences have in common at their start. *)
Common(s, t) == Max({k \in 0 .. Len(s) : IsPrefix(SubSeq(s, 1, k), t)})

From(s, k) == SubSeq(s, k + 1, Len(s))

(* Mutant: the lower half of a split edge keeps all its tokens. *)
SplitKeepsEdge(t, c, k) ==
    LET p == t.parent[c]
        s == NewId(t)
    IN [NewNode(t, p, SubSeq(t.edge[c], 1, k), Path(t, p) \o SubSeq(t.edge[c], 1, k))
          EXCEPT !.parent[c] = s]

(* The edge to c is split after k tokens. *)
Split(t, c, k) ==
    LET p == t.parent[c]
        s == NewId(t)
    IN [NewNode(t, p, SubSeq(t.edge[c], 1, k), Path(t, p) \o SubSeq(t.edge[c], 1, k))
          EXCEPT !.parent[c] = s, !.edge[c] = From(t.edge[c], k)]

(***************************************************************************)
(* The walk ends at node d.  Either d is what is looked for, or no child   *)
(* goes on with the next token and one is added, or the edge of a child    *)
(* has to be split, and the rest (if any) is added below.                  *)
(***************************************************************************)
Insert(t, tokens) ==
    LET d == Deepest(t, Visited(t, tokens))
        at == Len(Path(t, d))
        next == {c \in Children(t, d) : t.edge[c][1] = tokens[at + 1]}
    IN IF at = Len(tokens) THEN t
       ELSE IF next = {} THEN NewNode(t, d, From(tokens, at), tokens)
       ELSE LET c == CHOOSE n \in next : TRUE
                k == Common(t.edge[c], From(tokens, at))
                s == Split(t, c, k)
            IN IF at + k = Len(tokens) THEN s
               ELSE NewNode(s, NewId(t), From(tokens, at + k), tokens)

(* The node that Insert returns. *)
NodeOf(t, tokens) == Deepest(t, Visited(t, tokens))

-----------------------------------------------------------------------------
(* _evict_until_within_limits *)
Candidates(t, pinned) ==
    {n \in Entries(t) : pinned[n] = 0 /\ Children(t, n) = {}}

(* min by (last_used, -pages) *)
Victim(t, pinned) ==
    CHOOSE v \in Candidates(t, pinned) : \A n \in Candidates(t, pinned) :
        \/ t.used[v] < t.used[n]
        \/ t.used[v] = t.used[n] /\ Len(t.rows[v]) >= Len(t.rows[n])

Removed(t, n) ==
    [t EXCEPT !.nodes = t.nodes \ {n}, !.parent[n] = Root, !.edge[n] = None,
              !.prefix[n] = None, !.used[n] = 0]

(* _prune_empty_ancestors: n and the nodes above that are left bare. *)
Pruned(t, n, pinned) ==
    LET up[k \in 0 .. MaxNodes] ==
          IF k = 0 THEN <<t, n>>
          ELSE LET u == up[k - 1][1]
                   m == up[k - 1][2]
               IN IF m # Root /\ u.rows[m] = None /\ Children(u, m) = {} /\ pinned[m] = 0
                  THEN <<Removed(u, m), u.parent[m]>> ELSE <<u, m>>
    IN up[MaxNodes][1]

OverLimit(t) == Cardinality(Entries(t)) > Limit

Evicted(t, pinned) ==
    LET left[k \in 0 .. MaxNodes] ==
          IF k = 0 THEN t
          ELSE LET u == left[k - 1]
               IN IF OverLimit(u) /\ Candidates(u, pinned) # {}
                  THEN LET v == Victim(u, pinned)
                       IN Pruned([u EXCEPT !.rows[v] = None], v, pinned)
                  ELSE u
    IN left[MaxNodes]

-----------------------------------------------------------------------------
(* The node for a prefix, which takes a snapshot if it has none. *)
WithPage(t, prefix) ==
    LET w == Insert(t, prefix)
        n == NodeOf(w, prefix)
    IN Stamp(IF w.rows[n] = None THEN [w EXCEPT !.rows[n] = prefix] ELSE w, n)

(* The loop of publish, over the pages of tokens after the first ones. *)
WithPages(t, tokens, first, last) ==
    LET with[k \in 0 .. last] ==
          IF k <= first THEN t ELSE WithPage(with[k - 1], SubSeq(tokens, 1, k * PageSize))
    IN with[last]

(***************************************************************************)
(* backend.fork and backend.release, when pages were added to the tree     *)
(* before, giving full, and the limits enforced, giving after.             *)
(***************************************************************************)
NodeSnapshots(before, full, after) ==
    [p \in PagedPrefixes |->
        snaps[p] + Cardinality({n \in Entries(full) \ Entries(before) : full.rows[n] = p})
                 - Cardinality({n \in Entries(full) \ Entries(after) : full.rows[n] = p})]

(***************************************************************************)
(* A prefill step commits the rows up to n, then publish: the full pages   *)
(* beyond those this request published before, as far as the limits allow. *)
(***************************************************************************)
RadixPublish(r, n) ==
    LET first == published[r] \div PageSize
        end == n \div PageSize
        last == IF end < Publishable THEN end ELSE Publishable
        full == WithPages(tree, prompt[r], first, last)
    IN
    /\ prompt[r] # None
    /\ n \in length[r] + 1 .. Len(prompt[r])
    /\ length' = [length EXCEPT ![r] = n]
    /\ IF end <= first THEN UNCHANGED <<tree, published, snaps>>
       ELSE /\ tree' = Evicted(full, pins)
            /\ snaps' = NodeSnapshots(tree, full, tree')
            /\ published' = IF last <= first THEN published
                            ELSE [published EXCEPT ![r] = last * PageSize]
    /\ UNCHANGED <<pins, prompt, lease>>

(***************************************************************************)
(* release: the request leaves and its handle goes back.  If it held a     *)
(* lease the pin is removed and the limits are enforced.                   *)
(***************************************************************************)
RadixRelease(r) ==
    /\ prompt[r] # None
    /\ prompt' = [prompt EXCEPT ![r] = None]
    /\ length' = [length EXCEPT ![r] = 0]
    /\ published' = [published EXCEPT ![r] = 0]
    /\ lease' = [lease EXCEPT ![r] = Root]
    /\ IF lease[r] = Root THEN UNCHANGED <<tree, pins, snaps>>
       ELSE /\ pins' = Unpinned(lease[r])
            /\ tree' = Evicted(tree, Unpinned(lease[r]))
            /\ snaps' = NodeSnapshots(tree, tree, tree')

(* reset with clear_cache, which the scheduler allows only when it is idle. *)
RadixReset ==
    /\ \A r \in Slots : prompt[r] = None
    /\ tree' = EmptyTree
    /\ pins' = [n \in Ids |-> 0]
    /\ snaps' = NodeSnapshots(tree, tree, EmptyTree)
    /\ UNCHANGED <<prompt, length, lease, published>>

RadixNext ==
    \/ \E r \in Slots :
         \/ \E t \in Prompts : RadixAcquire(r, t)
         \/ \E n \in 1 .. Len(prompt[r]) : RadixPublish(r, n)
         \/ RadixRelease(r)
    \/ RadixReset

RadixSpec == RadixInit /\ [][RadixNext]_radixVars

-----------------------------------------------------------------------------
(* Type invariant. *)
RadixTypeOK ==
    /\ tree.nodes \subseteq Ids
    /\ tree.parent \in [Ids -> Ids \union {Root}]
    /\ tree.used \in [Ids -> Nat]
    /\ \A n \in Ids : tree.rows[n] \in PromptPrefixes \union {None}
    /\ pins \in [Ids -> Nat]
    /\ prompt \in [Slots -> Prompts \union {None}]
    /\ length \in [Slots -> Nat] /\ published \in [Slots -> Nat]
    /\ lease \in [Slots -> Ids \union {Root}]
    /\ snaps \in [PagedPrefixes -> Nat]

(***************************************************************************)
(* The tree stays a compressed trie through splits and evictions: the      *)
(* edges above a node spell its token_prefix, siblings differ in their     *)
(* first token, a snapshot holds the rows of its node's prefix, and no     *)
(* bare leaf is left over (nothing would ever remove it).                  *)
(***************************************************************************)
CompressedTrie ==
    /\ \A n \in tree.nodes :
         /\ Path(tree, n) = tree.prefix[n]
         /\ tree.rows[n] \in {None, tree.prefix[n]}
         /\ Children(tree, n) = {} => tree.rows[n] # None
    /\ \A m, n \in tree.nodes :
         m # n /\ tree.parent[m] = tree.parent[n] => tree.edge[m][1] # tree.edge[n][1]

(***************************************************************************)
(* For every prompt the walk down the edges finds the longest snapshot     *)
(* that is a true prefix and leaves a token to compute, if there is any.   *)
(***************************************************************************)
FindsLongest ==
    \A t \in Prompts :
        LET n == RadixLookup(tree, t)
            useful == {m \in Entries(tree) : IsStrictPrefix(tree.rows[m], t)}
        IN IF useful = {} THEN n = Root
           ELSE n \in useful /\ \A m \in useful : Len(tree.rows[m]) <= Len(tree.rows[n])

(***************************************************************************)
(* The tree is a compressed trie in which every lookup finds the longest   *)
(* usable snapshot, through splits, publications and evictions.            *)
(***************************************************************************)
TreeSound == RadixTypeOK /\ CompressedTrie /\ FindsLongest

(***************************************************************************)
(* The pins of a node are the requests that hold a lease on it, and a      *)
(* lease is always on a node that is in the tree with its snapshot,        *)
(* whatever was split above it since.                                      *)
(***************************************************************************)
PinsAreLeases ==
    /\ \A n \in Ids : pins[n] = Cardinality({r \in Slots : lease[r] = n})
    /\ \A r \in Slots : lease[r] # Root => lease[r] \in Entries(tree)

(***************************************************************************)
(* The backend holds one snapshot for each entry and none besides.         *)
(***************************************************************************)
SnapshotsAreEntries ==
    \A p \in PagedPrefixes :
        snaps[p] = Cardinality({n \in Entries(tree) : tree.rows[n] = p})

(* The limits give way only to leases: above them every leaf is pinned. *)
LimitsYieldToLeases ==
    Cardinality(Entries(tree)) > Limit =>
        \A n \in tree.nodes : Children(tree, n) = {} => pins[n] > 0

(***************************************************************************)
(* What the cache holds on to is accounted for: pins by leases, snapshots  *)
(* by entries, and entries above the limits by pins.                       *)
(***************************************************************************)
HoldingsExact == PinsAreLeases /\ SnapshotsAreEntries /\ LimitsYieldToLeases

(***************************************************************************)
(* The cache implements PrefixIndex: what it lends is a true prefix of the *)
(* prompt, published before, and it stays while it is lent.                *)
(***************************************************************************)
RadixIndex == INSTANCE PrefixIndex WITH
    stored <- {tree.rows[n] : n \in Entries(tree)},
    lease <- [r \in Slots |-> IF lease[r] = Root THEN None ELSE tree.rows[lease[r]]]

RadixKeepsIndex == RadixIndex!Spec

=============================================================================
