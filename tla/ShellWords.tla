----------------------------- MODULE ShellWords -----------------------------
(***************************************************************************)
(* Splitting a pasted command into words, tokenize of                      *)
(* src/engine/http/CurlParser.ts, and quoting the words of a generated     *)
(* one, shellSingleQuoted and the layout of generateCurl in                *)
(* src/commands/CodeGenerator.ts.  Characters are one-letter strings: "a"  *)
(* is any character without a meaning of its own, ";" any of ;&|<>, "$("   *)
(* a backquote or a dollar sign before a parenthesis, "nl" a line feed (or *)
(* a carriage return and a line feed, which tokenize takes together).      *)
(***************************************************************************)
EXTENDS Integers, Sequences, SequencesExt

CONSTANT Characters  \* of the texts tried

VARIABLES
  text,     \* the command's characters
  at,       \* index of the next one
  quote,    \* "none", "single" or "double"
  value,    \* the word being read, without its quotes
  raw,      \* the same with them, or "none": only whether there are any matters
  marked,   \* the word holds shell syntax
  words,    \* words read: their characters and mark
  source,   \* the words the text was generated from, or none
  verdict   \* "reading", "words" or "malformed"

shellVars == <<text, at, quote, value, raw, marked, words, source, verdict>>
NoWords == <<<<"none">>>>

\* Planted fault: quotes inside a word are escaped by a backslash alone.
QuotedByBackslash(w) ==
  <<"'">> \o FlattenSeq([i \in DOMAIN w |-> IF w[i] = "'" THEN <<"\\", "'">> ELSE <<w[i]>>]) \o <<"'">>

\* shellSingleQuoted: a quote becomes the end of the quoting, an escaped quote, and a new beginning.
Quoted(w) == <<"'">> \o FlattenSeq([i \in DOMAIN w |-> IF w[i] = "'" THEN <<"'", "\\", "'", "'">> ELSE <<w[i]>>])
               \o <<"'">>
\* parts.join of generateCurl, with a backslash before each line feed.
Command(ws) ==
  FlattenSeq([i \in DOMAIN ws |-> (IF i = 1 THEN <<>> ELSE <<" ", "\\", "nl", " ">>) \o Quoted(ws[i])])

ShellInit(most, quoted) ==
  /\ \/ \E n \in 0 .. most : text \in [1 .. n -> Characters] /\ source = NoWords
     \/ source \in quoted /\ text = Command(source)
  /\ at = 1 /\ quote = "none" /\ value = <<>> /\ raw = FALSE /\ marked = FALSE /\ words = <<>>
  /\ verdict = "reading"
-----------------------------------------------------------------------------
More == verdict = "reading" /\ at \in DOMAIN text
Character == text[at]
NextIs(C) == at + 1 \in DOMAIN text /\ text[at + 1] \in C
Keeps(c) == value' = Append(value, c) /\ raw' = TRUE
Past(n) == at' = at + n

CloseQuote ==
  /\ More /\ \/ quote = "single" /\ Character = "'"
             \/ quote = "double" /\ Character = "\""
  /\ quote' = "none" /\ raw' = TRUE /\ Past(1)
  /\ UNCHANGED <<text, value, marked, words, source, verdict>>

OpenQuote ==
  /\ More /\ quote = "none" /\ Character \in {"'", "\""}
  /\ quote' = (IF Character = "'" THEN "single" ELSE "double") /\ raw' = TRUE /\ Past(1)
  /\ UNCHANGED <<text, value, marked, words, source, verdict>>

\* A backslash and a line feed are nothing, inside double quotes and outside any.
ContinueLine ==
  /\ More /\ quote # "single" /\ Character = "\\" /\ NextIs({"nl"})
  /\ raw' = (raw \/ quote = "double") /\ Past(2)
  /\ UNCHANGED <<text, quote, value, marked, words, source, verdict>>

Escapable == IF quote = "double" THEN {"\"", "\\", "$("} ELSE Characters \cup {"'"}
Escape ==
  /\ More /\ quote # "single" /\ Character = "\\" /\ ~NextIs({"nl"}) /\ NextIs(Escapable)
  /\ Keeps(text[at + 1]) /\ Past(2)
  /\ UNCHANGED <<text, quote, marked, words, source, verdict>>

EndsWord == quote = "none" /\ Character \in {" ", "nl"}
Flushed == IF raw THEN Append(words, [value |-> value, marked |-> marked]) ELSE words

FlushWord ==
  /\ More /\ EndsWord
  /\ words' = Flushed /\ value' = <<>> /\ raw' = FALSE /\ marked' = FALSE /\ Past(1)
  /\ UNCHANGED <<text, quote, source, verdict>>

Syntax == IF quote = "double" THEN {"$("} ELSE IF quote = "none" THEN {";", "$("} ELSE {}
KeepCharacter ==
  /\ More /\ ~EndsWord
  /\ CASE quote = "single" -> Character # "'"
       [] quote = "double" -> Character # "\"" /\ ~(Character = "\\" /\ NextIs(Escapable \cup {"nl"}))
       [] quote = "none" -> Character \notin {"'", "\""} /\ ~(Character = "\\" /\ at < Len(text))
  /\ Keeps(Character) /\ marked' = (marked \/ Character \in Syntax) /\ Past(1)
  /\ UNCHANGED <<text, quote, words, source, verdict>>

EndText ==
  /\ verdict = "reading" /\ at = Len(text) + 1
  /\ verdict' = IF quote = "none" THEN "words" ELSE "malformed"
  /\ words' = IF quote = "none" THEN Flushed ELSE words
  /\ UNCHANGED <<text, at, quote, value, raw, marked, source>>

ShellNext ==
  \/ CloseQuote \/ OpenQuote \/ ContinueLine \/ Escape \/ FlushWord \/ KeepCharacter \/ EndText
-----------------------------------------------------------------------------
(* Properties *)

(* The words of a generated command, pasted back, are the words it was generated from: none is split, joined
   or lost, an empty one included, and nothing in them is taken for shell syntax. *)
WordsComeBack ==
  verdict # "reading" /\ source # NoWords =>
    verdict = "words" /\ words = [i \in DOMAIN source |-> [value |-> source[i], marked |-> FALSE]]
=============================================================================
