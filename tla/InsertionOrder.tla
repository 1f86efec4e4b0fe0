--------------------------- MODULE InsertionOrder ---------------------------
(***************************************************************************)
(* Arrays and Maps of JavaScript whose order matters, such as the previews *)
(* of EnvironmentFileService.ts, the bodies of ResponseDownloadService.ts  *)
(* and the headers of a request: the sequence of their entries in the      *)
(* order they were set.  Kept does what SelectSeq does, in a form theorems *)
(* can be proved about.                                                    *)
(***************************************************************************)
EXTENDS Naturals, Sequences

\* The entries of s that are in S, once the others are left out.
Kept(s, S) ==
  LET kept[n \in 0 .. Len(s)] ==
        IF n = 0 THEN <<>>
        ELSE IF s[n] \in S THEN Append(kept[n - 1], s[n]) ELSE kept[n - 1]
  IN kept[Len(s)]

\* The bytes of all entries.
Total(s) ==
  LET total[n \in 0 .. Len(s)] == IF n = 0 THEN 0 ELSE total[n - 1] + s[n].bytes
  IN total[Len(s)]
=============================================================================
