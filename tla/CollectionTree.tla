--------------------------- MODULE CollectionTree ---------------------------
(***************************************************************************)
(* The collections of src/engine/collection: the tree of folders and       *)
(* requests below each collection, and the request documents the items     *)
(* refer to.  CollectionManager.ts runs its operations one at a time on    *)
(* copies of both, and commits what they made when CollectionGraph.ts      *)
(* finds no fault with it and the store writes it.                         *)
(*                                                                         *)
(* The nested arrays of the code are the sequences of children of          *)
(* collections and folders.  The item of a request has the id of the       *)
(* request, as saveRequest and duplicateCollection make them.  Names of    *)
(* collections and folders, variables and time stamps are left out, and    *)
(* so are renameCollection, renameFolder and updateVariables, which commit *)
(* the same tree.  An operation that is refused before its commit leaves   *)
(* everything as it was, which is no step here.                            *)
(***************************************************************************)
EXTENDS Integers, SequencesExt

CONSTANTS
  Collections, Folders, Requests,  \* the ids that are ever given out
  Names,      \* what a request document may say; its name is part of it
  MaxDepth,   \* COLLECTION_GRAPH_LIMITS.maximumDepth
  MaxItems    \* COLLECTION_GRAPH_LIMITS.maximumItems

ASSUME IdsAreApart ==
  /\ Collections \cap Folders = {} /\ Collections \cap Requests = {} /\ Folders \cap Requests = {}
  /\ "none" \notin Folders \cup Names

ASSUME DepthLimit == MaxDepth \in Nat \ {0}
ASSUME ItemLimit == MaxItems \in Nat

Items == Folders \cup Requests
Containers == Collections \cup Folders
None == "none"  \* no document; no parent given

VARIABLES
  collections,  \* ids of the collections
  children,     \* items of each collection and folder, in order
  label,        \* name of the item of each request
  stored,       \* the request documents
  mangled,      \* history: a commit was refused for other than a limit
  lost          \* history: a commit lost an item its operation was not to remove

tree == [collections |-> collections, children |-> children, label |-> label, stored |-> stored]
treeVars == <<collections, children, label, stored, mangled, lost>>

-----------------------------------------------------------------------------
(* CollectionGraph *)

Within(t, nodes) == UNION {ToSet(t.children[c]) : c \in nodes \cap Containers}

(***************************************************************************)
(* The items n levels below a set of nodes.                                *)
(***************************************************************************)
LevelBelow(t, nodes, n) ==
  LET Level[k \in 0 .. n] == IF k = 0 THEN nodes ELSE Within(t, Level[k - 1])
  IN Level[n]

(***************************************************************************)
(* A walk down from a set of nodes enters the folders in these nodes, and  *)
(* in the folders it enters: the least set that holds them.  What is below *)
(* the nodes are the items it meets.                                       *)
(***************************************************************************)
HoldsItsFolders(t, nodes, F) == Within(t, nodes \cup F) \cap Folders \subseteq F

Entered(t, nodes) ==
  {f \in Folders : \A F \in SUBSET Folders : f \in F \/ ~HoldsItsFolders(t, nodes, F)}

Below(t, nodes) == Within(t, nodes \cup Entered(t, nodes))

Reachable(t) == Below(t, t.collections)

Documents(t) == {r \in Requests : t.stored[r] # None}

(***************************************************************************)
(* validateCollectionGraph: what only limits forbid, and what no graph     *)
(* within them may be.                                                     *)
(***************************************************************************)
WithinLimits(t) ==
  /\ Cardinality(Reachable(t)) <= MaxItems
  /\ LevelBelow(t, t.collections, MaxDepth + 1) = {}

OwnedOnce(t) ==
  LET reachable == Reachable(t)
      visited == t.collections \cup (reachable \cap Folders)
  IN /\ \A c, d \in visited :
          \A i \in DOMAIN t.children[c], j \in DOMAIN t.children[d] :
            t.children[c][i] = t.children[d][j] => c = d /\ i = j
     /\ reachable \cap Requests = Documents(t)

(***************************************************************************)
(* What is not below a collection is in no document that is written.       *)
(***************************************************************************)
Written(t) ==
  LET kept == t.collections \cup Reachable(t)
  IN [t EXCEPT !.children = [c \in Containers |-> IF c \in kept THEN @[c] ELSE <<>>],
               !.label = [r \in Requests |-> IF t.stored[r] = None THEN None ELSE @[r]]]

(***************************************************************************)
(* commit: memory becomes what was written, or stays as it was when the    *)
(* graph is refused or the write fails; gone is what an operation removes. *)
(***************************************************************************)
Removing(t, gone) ==
  IF ~WithinLimits(t) THEN UNCHANGED treeVars
  ELSE IF ~OwnedOnce(t) THEN mangled' = TRUE /\ UNCHANGED <<collections, children, label, stored, lost>>
  ELSE /\ collections' = t.collections /\ stored' = t.stored
       /\ children' = Written(t).children /\ label' = Written(t).label
       /\ lost' = (lost \/ ~(Reachable(tree) \ gone \subseteq Reachable(t)))
       /\ UNCHANGED mangled

Commit(t) == Removing(t, {})

-----------------------------------------------------------------------------
(* Finding and moving items *)

IsIn(x, c) == c \in collections /\ x \in Below(tree, {c})

(***************************************************************************)
(* The target of an operation: a collection, or a folder within it.        *)
(***************************************************************************)
IsTarget(parent, c) ==
  c \in collections /\ (parent = None \/ (parent \in Folders /\ IsIn(parent, c)))

TargetItems(parent, c) == IF parent = None THEN c ELSE parent

HolderOf(x) == CHOOSE c \in Containers : x \in ToSet(children[c])

Spliced(s, x) ==
  IF x \in ToSet(s) THEN RemoveAt(s, CHOOSE i \in DOMAIN s : s[i] = x) ELSE s

Detached(x) == [c \in Containers |-> Spliced(children[c], x)]

InsertedAt(x, c, i) == [Detached(x) EXCEPT ![c] = InsertAt(@, i, x)]

Appended(x, c) == InsertedAt(x, c, Len(Detached(x)[c]) + 1)

FreshFolder(f) == f \in Folders /\ f \notin Reachable(tree)
FreshRequest(r) == r \in Requests /\ r \notin Documents(tree)

-----------------------------------------------------------------------------
(* Operations *)

CreateCollection(c) ==
  /\ c \in Collections \ collections
  /\ Commit([tree EXCEPT !.collections = @ \cup {c}])

AddFolder(f, c, parent) ==
  /\ FreshFolder(f) /\ IsTarget(parent, c)
  /\ \E i \in 1 .. Len(children[TargetItems(parent, c)]) + 1 :
       Commit([tree EXCEPT !.children = InsertedAt(f, TargetItems(parent, c), i)])

(***************************************************************************)
(* saveRequest: an item that is in the collection, and in the parent if    *)
(* one is given, stays where it is; otherwise it goes to the end of its    *)
(* target.                                                                 *)
(***************************************************************************)
Stays(r, c, parent) ==
  IsIn(r, c) /\ (parent = None \/ HolderOf(r) = TargetItems(parent, c))

Named(r, name) == [label EXCEPT ![r] = name]

SaveRequest(r, name, c, parent) ==
  /\ IsTarget(parent, c)
  /\ Commit([tree EXCEPT
       !.children = IF Stays(r, c, parent) THEN @ ELSE Appended(r, TargetItems(parent, c)),
       !.label = Named(r, name),
       !.stored = [@ EXCEPT ![r] = name]])

DeleteRequest(r, c) ==
  /\ IsIn(r, c)
  /\ Removing([tree EXCEPT !.children = Detached(r), !.stored = [@ EXCEPT ![r] = None]], {r})

(***************************************************************************)
(* collectRequestIds: the documents go with the subtree they are in.       *)
(***************************************************************************)
WithoutRequests(top) ==
  LET gone == Below(tree, {top}) IN [r \in Requests |-> IF r \in gone THEN None ELSE stored[r]]

DeleteFolder(f, c) ==
  /\ f \in Folders /\ IsIn(f, c)
  /\ Removing([tree EXCEPT !.children = Detached(f), !.stored = WithoutRequests(f)],
              {f} \cup Below(tree, {f}))

DeleteCollection(c) ==
  /\ c \in collections
  /\ Removing([tree EXCEPT !.collections = @ \ {c}, !.stored = WithoutRequests(c)], Below(tree, {c}))

(***************************************************************************)
(* A fault in moveItem, for NothingIsLost: only the item itself is no      *)
(* destination.                                                            *)
(***************************************************************************)
ContainsItself(x, parent) == parent = x

(***************************************************************************)
(* containsItem: a folder does not move into its own subtree.              *)
(***************************************************************************)
ContainsItem(x, parent) == parent = x \/ (parent # None /\ parent \in Below(tree, {x}))

(***************************************************************************)
(* moveItem; i is the place in the target once the item has left.          *)
(***************************************************************************)
MoveItem(x, from, c, parent) ==
  /\ IsIn(x, from) /\ IsTarget(parent, c)
  /\ ~ContainsItem(x, parent)
  /\ \E i \in 1 .. Len(Detached(x)[TargetItems(parent, c)]) + 1 :
       Commit([tree EXCEPT !.children = InsertedAt(x, TargetItems(parent, c), i)])

(***************************************************************************)
(* duplicateCollection: every item gets a fresh id, and every request a    *)
(* document of its own.                                                    *)
(***************************************************************************)
FreshIds(items) ==
  LET fresh == {y \in Items : FreshFolder(y) \/ FreshRequest(y)}
  IN {id \in [items -> fresh] : /\ \A x \in items : x \in Folders <=> id[x] \in Folders
                               /\ \A x, y \in items : id[x] = id[y] => x = y}

DuplicateCollection(c, copy) ==
  LET items == Below(tree, {c})
  IN /\ c \in collections /\ copy \in Collections \ collections
     /\ \E id \in FreshIds(items) :
          LET Original(x) == CHOOSE y \in items : id[y] = x
              Copied(s) == [i \in DOMAIN s |-> id[s[i]]]
              copies == {id[x] : x \in items}
          IN Commit([collections |-> collections \cup {copy},
                     children |-> [d \in Containers |->
                       IF d = copy THEN Copied(children[c])
                       ELSE IF d \in copies THEN Copied(children[Original(d)]) ELSE children[d]],
                     label |-> [r \in Requests |-> IF r \in copies THEN stored[Original(r)] ELSE label[r]],
                     stored |-> [r \in Requests |-> IF r \in copies THEN stored[Original(r)] ELSE stored[r]]])

(***************************************************************************)
(* importDocument with a collection of one folder that holds one request.  *)
(* Ids that exist already are refused with the combined graph.             *)
(***************************************************************************)
Unused(c, f, r) == c \notin collections /\ FreshFolder(f) /\ FreshRequest(r)

ImportCollection(c, f, r, name) ==
  /\ Unused(c, f, r)
  /\ Commit([tree EXCEPT !.collections = @ \cup {c},
                         !.children = [@ EXCEPT ![c] = <<f>>, ![f] = <<r>>],
                         !.label = [@ EXCEPT ![r] = name],
                         !.stored = [@ EXCEPT ![r] = name]])

-----------------------------------------------------------------------------
TreeInit ==
  /\ collections = {} /\ children = [c \in Containers |-> <<>>]
  /\ label = [r \in Requests |-> None] /\ stored = [r \in Requests |-> None]
  /\ mangled = FALSE /\ lost = FALSE

Parents == Folders \cup {None}

Deletion ==
  \E c \in Collections :
    \/ DeleteCollection(c)
    \/ \E f \in Folders : DeleteFolder(f, c)
    \/ \E r \in Requests : DeleteRequest(r, c)

Addition ==
  \E c \in Collections :
    \/ CreateCollection(c)
    \/ \E f \in Folders :
         \/ \E parent \in Parents : AddFolder(f, c, parent)
         \/ \E r \in Requests, name \in Names : ImportCollection(c, f, r, name)
    \/ \E copy \in Collections : DuplicateCollection(c, copy)

Saving ==
  \E r \in Requests, name \in Names, c \in Collections, parent \in Parents :
    SaveRequest(r, name, c, parent)

Moving ==
  \E x \in Items, from, c \in Collections, parent \in Parents :
    MoveItem(x, from, c, parent)

TreeNext == Deletion \/ Addition \/ Saving \/ Moving

TreeSpec == TreeInit /\ [][TreeNext]_treeVars

-----------------------------------------------------------------------------
(* Properties *)

(***************************************************************************)
(* The operations themselves keep the graph sound: whatever sequence of    *)
(* them is run, with whatever ids, the integrity check at commit refuses   *)
(* nothing except for a limit.                                             *)
(***************************************************************************)
NeverMangled == ~mangled

(***************************************************************************)
(* No operation loses an item it was not asked to remove, although the     *)
(* integrity check at commit does not notice when it is a folder without   *)
(* requests.                                                               *)
(***************************************************************************)
NothingIsLost == ~lost

=============================================================================
