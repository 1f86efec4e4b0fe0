--------------------------- MODULE VersionedStore ---------------------------
(***************************************************************************)
(* What src/storage/JsonFileStore.ts promises its callers about one JSON   *)
(* document shared by several windows: a register with a revision number.  *)
(* A window holds the revision it last read or wrote; it may replace the   *)
(* content only while the register still has that revision (or when it     *)
(* holds none), and a damaged document comes back only as something it     *)
(* once was.                                                               *)
(***************************************************************************)
EXTENDS Integers

CONSTANTS
  Windows,   \* the windows sharing the document
  Contents,  \* the contents a document may have
  Never      \* "holds no revision", not a natural number

VARIABLES
  rev,      \* revision of the document, 0 when absent or unversioned
  content,  \* its content
  base,     \* the revision each window holds, or Never
  past,     \* every <<revision, content>> the document has had
  lost      \* TRUE while the document on disk is unreadable

vars == <<rev, content, base, past, lost>>

TypeOK ==
  /\ rev \in Nat
  /\ content \in Contents
  /\ base \in [Windows -> Nat \cup {Never}]
  /\ past \subseteq Nat \X Contents
  /\ lost \in BOOLEAN

Init ==
  /\ rev \in {0, 1}
  /\ content \in Contents
  /\ base = [w \in Windows |-> Never]
  /\ past = {<<rev, content>>}
  /\ lost = FALSE

SetTo(r, c) ==
  /\ rev' = r
  /\ content' = c
  /\ past' = past \cup {<<r, c>>}
  /\ lost' = FALSE

(***************************************************************************)
(* A window reads the document, or is told that its own update succeeded.  *)
(***************************************************************************)
Observe(w) ==
  /\ ~lost
  /\ base' = [base EXCEPT ![w] = rev]
  /\ UNCHANGED <<rev, content, past, lost>>

(***************************************************************************)
(* A window replaces the content it based its change on.                   *)
(***************************************************************************)
Update(w) ==
  /\ base[w] \in {rev, Never}
  /\ \E c \in Contents : SetTo(rev + 1, c)
  /\ UNCHANGED base

(***************************************************************************)
(* The same content rewritten in the current format.                       *)
(***************************************************************************)
Upgrade ==
  /\ SetTo(rev + 1, content)
  /\ UNCHANGED base

(***************************************************************************)
(* The document becomes unreadable.  It comes back as it was, or recovery  *)
(* makes it something it once was; the recovering window then holds that   *)
(* revision.  A document backed up before it had a revision comes back as  *)
(* revision 1.                                                             *)
(***************************************************************************)
Lose ==
  /\ lost' = TRUE
  /\ UNCHANGED <<rev, content, base, past>>

Reappear ==
  /\ lost' = FALSE
  /\ UNCHANGED <<rev, content, base, past>>

Restore(w) ==
  /\ \E p \in past :
       SetTo(IF p[1] = 0 THEN 1 ELSE p[1], p[2])
  /\ \/ base' = [base EXCEPT ![w] = rev']
     \/ UNCHANGED base

(***************************************************************************)
(* A window is closed or dies: the next one holds no revision.             *)
(***************************************************************************)
Forget(w) ==
  /\ base' = [base EXCEPT ![w] = Never]
  /\ UNCHANGED <<rev, content, past, lost>>

Next ==
  \/ Upgrade \/ Lose \/ Reappear
  \/ \E w \in Windows : Observe(w) \/ Update(w) \/ Restore(w) \/ Forget(w)

Spec == Init /\ [][Next]_vars
=============================================================================
