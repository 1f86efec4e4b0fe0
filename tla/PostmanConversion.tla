------------------------- MODULE PostmanConversion -------------------------
(***************************************************************************)
(* Converting a Postman collection, src/engine/import/PostmanParser.ts:    *)
(* the walk over its items, what folders hand down, and where the          *)
(* credentials of a request go.  The items are listed in the order of the  *)
(* walk with their depth.  A credential is named for where it was found:   *)
(* an item's authentication, a header or the user information of a URL.    *)
(***************************************************************************)
EXTENDS Integers, Sequences, SequencesExt, FiniteSets

CONSTANT MaxFolders  \* the depth the walk accepts

ASSUME FolderLimit == MaxFolders \in Nat

(***************************************************************************)
(* An export as the walk meets it: the items of a folder are listed right  *)
(* after it, one deeper, and a request has none.                           *)
(***************************************************************************)
Auths == {"absent", "noauth", "bearer", "placeholder", "malformed"}
PostmanItems == [kind : {"folder", "request"}, depth : Nat, auth : Auths,
                 variables : Seq([name : STRING, type : {"plain", "secret", "malformed"}]),
                 header : {"none", "bearer", "placeholder", "disabled", "malformed"},
                 userinfo : {"none", "credential", "placeholder"}, fits : BOOLEAN]
\* How deep the item after the first v may be.
Reach(items, v) ==
  IF v = 0 THEN 0 ELSE IF items[v].kind = "folder" THEN items[v].depth + 1 ELSE items[v].depth
WellFormed(c) ==
  /\ c \in [auth : Auths, items : Seq(PostmanItems)]
  /\ \A i \in DOMAIN c.items : c.items[i].depth <= Reach(c.items, i - 1)

VARIABLES
  collection,   \* [auth, items]: authentication of the collection and its items
  visited,      \* items visited
  handed,       \* what is inherited at each depth reached: [auth, variables]
  requests,     \* imported requests: [item, headers, userinfo, variables]
  authInputs,   \* credentials to store: [item, credential]
  skipped,      \* items not imported
  notes,        \* diagnostics: [code, item]
  result        \* "walking", "converted" or "failed"

postmanVars == <<collection, visited, handed, requests, authInputs, skipped, notes, result>>

Entries == collection.items
NoAuth == <<"none", 0>>
Given(auth) == auth # "absent"
Note(codes, i) == notes' = notes \cup {[code |-> c, item |-> i] : c \in codes}
-----------------------------------------------------------------------------
(* variables: secrets, malformed ones and later definitions of a name are left out. *)
Usable(list, i) == /\ list[i].type = "plain"
                   /\ \A j \in 1 .. i - 1 : list[j].type = "plain" => list[j].name # list[i].name
Variables(list, at) ==
  {[name |-> list[i].name, from |-> at, type |-> list[i].type] : i \in {j \in DOMAIN list : Usable(list, j)}}
VariableNotes(list) ==
  {IF list[i].type = "secret" THEN "SECRET_VARIABLE_SKIPPED" ELSE "VARIABLE_SKIPPED" :
     i \in {j \in DOMAIN list : ~Usable(list, j)}}
\* A folder's variables replace those of the same name around it.
MergedVariables(old, new) == {v \in old : \A w \in new : w.name # v.name} \cup new

\* Planted fault: authentication that says there is none is taken for none being said.
InheritOverNone(own, inherited) == IF own[1] \in {"absent", "noauth"} THEN inherited ELSE own
Inherit(own, inherited) == IF Given(own[1]) THEN own ELSE inherited
Around(i) == handed[Entries[i].depth + 1]
AuthAt(i) == Inherit(<<Entries[i].auth, i>>, Around(i).auth)

(* What becomes of a request: readAuth, migrateHeaderAuth and migrateUrlAuth in turn.  Each gives the
   credential so far, or refuses the request. *)
Refused == <<"refused", 0>>
HeaderOn(i) == Entries[i].header \in {"bearer", "malformed", "placeholder"}
FromAuth(i) ==
  CASE AuthAt(i)[1] \in {"absent", "noauth", "placeholder"} -> NoAuth
    [] AuthAt(i)[1] = "malformed" -> Refused
    [] AuthAt(i)[1] = "bearer" -> IF HeaderOn(i) THEN Refused ELSE <<"auth", AuthAt(i)[2]>>
FromHeader(i) ==
  LET so_far == FromAuth(i)
  IN IF so_far = Refused \/ Entries[i].header \in {"none", "placeholder"} THEN so_far
     ELSE IF Entries[i].header = "bearer" /\ so_far = NoAuth THEN <<"header", i>>
     ELSE Refused
Credential(i) ==
  LET so_far == FromHeader(i)
  IN CASE Entries[i].userinfo = "none" -> so_far
       [] Entries[i].userinfo # "none" /\ so_far # NoAuth -> Refused
       [] Entries[i].userinfo = "placeholder" /\ so_far = NoAuth -> NoAuth
       [] Entries[i].userinfo = "credential" /\ so_far = NoAuth -> <<"url", i>>
\* The credential noted by the time a request is refused stays until the conversion ends.
Noted(i) == CASE Credential(i) # Refused -> Credential(i)
              [] Credential(i) = Refused /\ FromHeader(i) # Refused -> FromHeader(i)
              [] FromHeader(i) = Refused /\ FromAuth(i) # Refused -> FromAuth(i)
              [] FromAuth(i) = Refused -> NoAuth
PlaceholderNotes(i) ==
  {c \in {"AUTH_PLACEHOLDER"} : \/ AuthAt(i)[1] = "placeholder" \/ Entries[i].header = "placeholder"
                                \/ Entries[i].userinfo = "placeholder"}
-----------------------------------------------------------------------------
PostmanInit(from) ==
  /\ collection \in from
  /\ visited = 0 /\ requests = {} /\ authInputs = {} /\ skipped = {} /\ notes = {} /\ result = "walking"
  /\ handed = <<[auth |-> <<collection.auth, 0>>, variables |-> {}]>>

Entry == visited + 1
AtItem(kind) == result = "walking" /\ Entry \in DOMAIN Entries /\ Entries[Entry].kind = kind

VisitFolder ==
  /\ AtItem("folder") /\ Entries[Entry].depth < MaxFolders
  /\ LET own == Variables(Entries[Entry].variables, Entry)
     IN /\ handed' = SubSeq(handed, 1, Entries[Entry].depth + 1)
                       \o <<[auth |-> AuthAt(Entry), variables |-> MergedVariables(Around(Entry).variables, own)]>>
        /\ Note(VariableNotes(Entries[Entry].variables)
                  \cup {c \in {"VARIABLE_PRECEDENCE"} : own # {}}, Entry)
  /\ visited' = Entry
  /\ UNCHANGED <<collection, requests, authInputs, skipped, result>>

ImportRequest ==
  /\ AtItem("request") /\ Credential(Entry) # Refused /\ Entries[Entry].fits
  /\ requests' = requests \cup
       {[item |-> Entry, variables |-> Around(Entry).variables,
         header |-> IF Entries[Entry].header \in {"bearer", "placeholder"} THEN "none" ELSE Entries[Entry].header,
         userinfo |-> FALSE]}
  /\ authInputs' = IF Credential(Entry) = NoAuth THEN authInputs
                   ELSE authInputs \cup {[item |-> Entry, credential |-> Credential(Entry)]}
  /\ Note(PlaceholderNotes(Entry), Entry)
  /\ visited' = Entry
  /\ UNCHANGED <<collection, handed, skipped, result>>

\* A request refused for its credentials, or by another check.
SkipRequest ==
  /\ AtItem("request") /\ (Credential(Entry) = Refused \/ ~Entries[Entry].fits)
  /\ authInputs' = IF Noted(Entry) = NoAuth THEN authInputs
                   ELSE authInputs \cup {[item |-> Entry, credential |-> Noted(Entry)]}
  /\ skipped' = skipped \cup {Entry}
  /\ Note({"REQUEST_SKIPPED"}, Entry)
  /\ visited' = Entry
  /\ UNCHANGED <<collection, handed, requests, result>>

\* The visit of what is in the folder fails, be there anything or not.
FoldersTooDeep ==
  /\ AtItem("folder") /\ Entries[Entry].depth >= MaxFolders
  /\ result' = "failed"
  /\ UNCHANGED <<collection, visited, handed, requests, authInputs, skipped, notes>>

OfImported(inputs) == {x \in inputs : \E r \in requests : r.item = x.item}
Convert ==
  /\ result = "walking" /\ visited = Len(Entries)
  /\ result' = "converted" /\ authInputs' = OfImported(authInputs)
  /\ UNCHANGED <<collection, visited, handed, requests, skipped, notes>>

PostmanNext == VisitFolder \/ ImportRequest \/ SkipRequest \/ FoldersTooDeep \/ Convert
-----------------------------------------------------------------------------
(* Properties *)

\* The folders an item is in, read from the depths alone, and the innermost of them that says something.
Enclosing(i) == {j \in 1 .. i - 1 : \A k \in j + 1 .. i : Entries[k].depth > Entries[j].depth}
Innermost(S) == CHOOSE j \in S : \A k \in S : k <= j
Speaking(i) == {j \in Enclosing(i) \cup {i} : Given(Entries[j].auth)}
Said(i) == IF Speaking(i) = {} THEN <<collection.auth, 0>>
           ELSE <<Entries[Innermost(Speaking(i))].auth, Innermost(Speaking(i))>>
Defining(i, n) == {j \in Enclosing(i) : \E x \in DOMAIN Entries[j].variables :
                     Entries[j].variables[x].name = n /\ Entries[j].variables[x].type = "plain"}
InputOf(i) == {x.credential : x \in {y \in authInputs : y.item = i}}

(* An imported request authenticates with what the export says of it: its own, or else the innermost
   folder's, or else the collection's; one that says there is none stops the search.  A variable it uses has
   the value the innermost folder gives it. *)
InheritedFromTheInnermost ==
  result = "converted" =>
    \A r \in requests :
      /\ Said(r.item)[1] = "bearer" => InputOf(r.item) = {<<"auth", Said(r.item)[2]>>}
      /\ Said(r.item)[1] # "bearer" => \A c \in InputOf(r.item) : c[1] # "auth"
      /\ \A j \in Enclosing(r.item) : \A x \in DOMAIN Entries[j].variables :
           LET n == Entries[j].variables[x].name
           IN {v.from : v \in {w \in r.variables : w.name = n}}
                = IF Defining(r.item, n) = {} THEN {} ELSE {Innermost(Defining(r.item, n))}

(* Nothing secret stays in what is converted: credentials are handed to the secret store, one for a request
   that is imported, and no header, address or variable of it holds another; of what is left out, the person
   is told. *)
SecretsAreHandedOver ==
  result = "converted" =>
    /\ \A x \in authInputs : \E r \in requests : r.item = x.item
    /\ \A r \in requests : /\ r.header = "none" /\ ~r.userinfo /\ Cardinality(InputOf(r.item)) <= 1
                           /\ \A v \in r.variables : v.type = "plain"
    /\ {r.item : r \in requests} \cup skipped = {i \in DOMAIN Entries : Entries[i].kind = "request"}
    /\ \A i \in skipped : [code |-> "REQUEST_SKIPPED", item |-> i] \in notes
=============================================================================
