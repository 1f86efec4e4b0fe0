------------------------- MODULE RequestResolution -------------------------
(***************************************************************************)
(* Substituting variables in a request before it is sent: resolveTemplate  *)
(* and resolvePlaceholder of src/engine/variables/VariableEngine.ts, which *)
(* parts of a request resolveRequest passes through them, and              *)
(* resolveForTransport of src/services/RequestPreparationService.ts, which *)
(* checks the result and resolves the credential in the same context.      *)
(*                                                                         *)
(* A template is a sequence of parts: text, a reference to a name, an      *)
(* escaped reference, one with an invalid name, or one that is not closed. *)
(* Of a request only the part at one place matters, the others being text; *)
(* the credential is a place of its own.  The engine calls itself for the  *)
(* value of a variable; "frames" is that recursion, innermost last.        *)
(***************************************************************************)
EXTENDS Integers, Sequences, SequencesExt, FiniteSets

CONSTANTS
  VariableNames,
  MaxNesting      \* maximumDepth of the engine

ASSUME NestingAssumption == MaxNesting \in Nat \ {0}

NoName == ""
Text == [kind |-> "text", name |-> NoName]
Ref(n) == [kind |-> "ref", name |-> n]
Escaped(n) == [kind |-> "escaped", name |-> n]
Invalid == [kind |-> "invalid", name |-> NoName]
Unclosed == [kind |-> "unclosed", name |-> NoName]

VARIABLES
  variables,    \* the resolution context, [scope, key, id, enabled, value]: the scopes are numbered
                \* 1 global, 2 linked sets, 3 environment, 4 collection, 5 request
  draft,        \* the request: [place, enabled, named, body, encoded, auth, fits, filesFit]
  template,     \* what stands at draft.place
  frames,       \* calls of resolveTemplate: [name, rest, out]
  diagnostics,
  outcome,      \* what became of the template: a sequence of parts, all text
  phase         \* "start", "resolving", "resolved", "unlocking", "sent" or "refused"

resolutionVars == <<variables, draft, template, frames, diagnostics, outcome, phase>>
-----------------------------------------------------------------------------
(* buildSymbolTable *)

EnabledAt(vs, n, s) == {v \in vs : v.key = n /\ v.enabled /\ v.scope = s}
ScopesOf(vs, n) == {v.scope : v \in {w \in vs : w.key = n /\ w.enabled}}
\* Planted fault: a scope of lower precedence overrides.
LowestScope(vs, n) == CHOOSE s \in ScopesOf(vs, n) : \A t \in ScopesOf(vs, n) : s <= t
WinningScope(vs, n) == CHOOSE s \in ScopesOf(vs, n) : \A t \in ScopesOf(vs, n) : t <= s
Defined(vs, n) == ScopesOf(vs, n) # {}
Symbol(vs, n) ==
  LET group == EnabledAt(vs, n, WinningScope(vs, n))
  IN [value |-> (CHOOSE v \in group : \A w \in group : v.id <= w.id).value,
      duplicate |-> Cardinality(group) > 1]

(* What resolution is asked for.  draft.encoded: the body has no list of fields, and so no place in one. *)
TemplateParts == {Text, Invalid, Unclosed} \cup {Ref(n) : n \in VariableNames} \cup {Escaped(n) : n \in VariableNames}
ContextVariables ==
  [scope : 1 .. 5, key : VariableNames, id : Nat, enabled : BOOLEAN, value : Seq(TemplateParts)]
RequestDrafts ==
  [place : {"url", "path", "header", "query", "content", "field", "fileField", "fileType", "authName", "credential"},
   enabled : BOOLEAN, named : BOOLEAN,
   body : {"none", "json", "text", "xml", "binary", "x-www-form-urlencoded", "form-data", "file"},
   encoded : BOOLEAN, auth : {"none", "bearer", "basic", "apiKey"}, fits : BOOLEAN, filesFit : BOOLEAN]
WellFormedCase(c) ==
  /\ c.variables \subseteq ContextVariables /\ IsFiniteSet(c.variables)
  /\ c.draft \in RequestDrafts /\ (c.draft.place = "field" => ~c.draft.encoded)
  /\ c.template \in Seq(TemplateParts)

(* Which places resolveRequest substitutes in. *)
FieldBody(d) == d.body \in {"form-data", "x-www-form-urlencoded"}
HasContent(d) == d.body \notin {"none", "form-data", "file"} /\ (d.body = "x-www-form-urlencoded" => d.encoded)
Substituted(d) ==
  CASE d.place \in {"url", "path"} -> TRUE
    [] d.place \in {"header", "query"} -> d.enabled
    [] d.place = "content" -> HasContent(d)
    [] d.place = "field" -> FieldBody(d) /\ d.enabled
    [] d.place = "fileField" -> d.body = "form-data" /\ d.enabled /\ d.named
    [] d.place = "fileType" -> d.body = "file" \/ (d.body = "form-data" /\ d.enabled /\ d.named)
    [] d.place = "authName" -> d.auth = "apiKey"
    [] d.place = "credential" -> FALSE

(* What normalizeEffectiveRequest takes from a request. *)
Used(d) ==
  CASE d.place \in {"url", "path"} -> TRUE
    [] d.place \in {"header", "query"} -> d.enabled /\ d.named
    [] d.place = "content" -> \/ d.body \in {"json", "text", "xml", "binary"}
                              \/ d.body = "x-www-form-urlencoded" /\ d.encoded
    [] d.place = "field" -> /\ d.enabled /\ d.named
                            /\ FieldBody(d) /\ (d.body = "x-www-form-urlencoded" => ~d.encoded)
    [] d.place = "fileField" -> d.body = "form-data" /\ d.enabled /\ d.named
    [] d.place = "fileType" -> d.body = "file" \/ (d.body = "form-data" /\ d.enabled /\ d.named)
    [] d.place = "authName" -> d.auth = "apiKey"
    [] d.place = "credential" -> d.auth # "none"
-----------------------------------------------------------------------------
ResolutionInit(from) ==
  /\ \E c \in from : variables = c.variables /\ draft = c.draft /\ template = c.template
  /\ frames = <<>> /\ diagnostics = {} /\ outcome = template /\ phase = "start"

Report(code, n) == diagnostics' = diagnostics \cup {<<code, n>>}
Resolving == phase \in {"resolving", "unlocking"}
Top == frames[Len(frames)]
Stack == [i \in 1 .. Len(frames) - 1 |-> frames[i + 1].name]
NextPart == Head(Top.rest)
Calling(kind) == Resolving /\ frames # <<>> /\ Top.rest # <<>> /\ NextPart.kind = kind
Outputs(parts, rest) ==
  frames' = [frames EXCEPT ![Len(frames)].out = @ \o parts, ![Len(frames)].rest = rest]

Begin ==
  /\ phase = "start" /\ phase' = "resolving"
  /\ frames' = IF Substituted(draft) THEN <<[name |-> NoName, rest |-> template, out |-> <<>>]>> ELSE <<>>
  /\ UNCHANGED <<variables, draft, template, diagnostics, outcome>>

CopyText ==
  /\ Calling("text")
  /\ Outputs(<<NextPart>>, Tail(Top.rest))
  /\ UNCHANGED <<variables, draft, template, diagnostics, outcome, phase>>

\* The escaped reference becomes the reference it shows, which is text from then on.
CopyEscaped ==
  /\ Calling("escaped")
  /\ Outputs(<<NextPart>>, Tail(Top.rest))
  /\ UNCHANGED <<variables, draft, template, diagnostics, outcome, phase>>

NotClosed ==
  /\ Calling("unclosed")
  /\ Outputs(Top.rest, <<>>) /\ Report("INVALID_TEMPLATE", NoName)
  /\ UNCHANGED <<variables, draft, template, outcome, phase>>

NotAName ==
  /\ Calling("invalid")
  /\ Outputs(<<NextPart>>, Tail(Top.rest)) /\ Report("INVALID_VARIABLE", NoName)
  /\ UNCHANGED <<variables, draft, template, outcome, phase>>

Missing ==
  /\ Calling("ref") /\ ~Defined(variables, NextPart.name)
  /\ Outputs(<<NextPart>>, Tail(Top.rest))
  /\ Report(IF \E v \in variables : v.key = NextPart.name THEN "DISABLED_VARIABLE" ELSE "MISSING_VARIABLE",
            NextPart.name)
  /\ UNCHANGED <<variables, draft, template, outcome, phase>>

Duplicates(n) == {<<"DUPLICATE_VARIABLE", n>> : x \in {y \in {1} : Symbol(variables, n).duplicate}}

OnStack(n) == n \in {Stack[i] : i \in DOMAIN Stack}
NotEntered ==
  /\ Calling("ref") /\ Defined(variables, NextPart.name)
  /\ OnStack(NextPart.name) \/ Len(Stack) >= MaxNesting
  /\ Outputs(<<NextPart>>, Tail(Top.rest))
  /\ diagnostics' = diagnostics \cup Duplicates(NextPart.name)
       \cup {<<IF OnStack(NextPart.name) THEN "CYCLIC_VARIABLE" ELSE "MAX_DEPTH_EXCEEDED", NextPart.name>>}
  /\ UNCHANGED <<variables, draft, template, outcome, phase>>

EnterValue ==
  /\ Calling("ref") /\ Defined(variables, NextPart.name)
  /\ ~OnStack(NextPart.name) /\ Len(Stack) < MaxNesting
  /\ frames' = Append([frames EXCEPT ![Len(frames)].rest = Tail(@)],
                      [name |-> NextPart.name, rest |-> Symbol(variables, NextPart.name).value, out |-> <<>>])
  /\ diagnostics' = diagnostics \cup Duplicates(NextPart.name)
  /\ UNCHANGED <<variables, draft, template, outcome, phase>>

LeaveValue ==
  /\ Resolving /\ Len(frames) > 1 /\ Top.rest = <<>>
  /\ frames' = [i \in 1 .. Len(frames) - 1 |->
       IF i = Len(frames) - 1 THEN [frames[i] EXCEPT !.out = @ \o Top.out] ELSE frames[i]]
  /\ UNCHANGED <<variables, draft, template, diagnostics, outcome, phase>>

EngineDone == frames = <<>> \/ (Len(frames) = 1 /\ Top.rest = <<>>)

\* resolveWithContext, validateFiles: what the engine refused, and what the checks of the result refuse.
Preflight ==
  /\ phase = "resolving" /\ EngineDone
  /\ outcome' = IF frames = <<>> THEN template ELSE Top.out
  /\ frames' = <<>>
  /\ phase' = IF diagnostics = {} /\ draft.fits /\ draft.filesFit THEN "resolved" ELSE "refused"
  /\ UNCHANGED <<variables, draft, template, diagnostics>>

\* The credential read from the secret store, resolved in the context of the request.
ReadCredential ==
  /\ phase = "resolved" /\ draft.auth # "none" /\ draft.place = "credential"
  /\ phase' = "unlocking" /\ frames' = <<[name |-> NoName, rest |-> template, out |-> <<>>]>>
  /\ UNCHANGED <<variables, draft, template, diagnostics, outcome>>

Unlock ==
  /\ phase = "unlocking" /\ EngineDone
  /\ outcome' = Top.out /\ frames' = <<>>
  /\ phase' = IF diagnostics = {} THEN "sent" ELSE "refused"
  /\ UNCHANGED <<variables, draft, template, diagnostics>>

Send ==
  /\ phase = "resolved" /\ (draft.auth = "none" \/ draft.place # "credential")
  /\ phase' = "sent"
  /\ UNCHANGED <<variables, draft, template, frames, diagnostics, outcome>>

ResolutionNext ==
  \/ Begin \/ CopyText \/ CopyEscaped \/ NotClosed \/ NotAName \/ Missing \/ NotEntered
  \/ EnterValue \/ LeaveValue \/ Preflight \/ ReadCredential \/ Unlock \/ Send
-----------------------------------------------------------------------------
(* What a template means: the reference the properties use, by the substitutions still allowed.  A cycle uses
   them up, so it needs no mention. *)

Broken == [kind |-> "broken", name |-> NoName]
Literal(p) == p.kind \in {"text", "escaped"}
Winners(n) == {v \in variables : /\ v.key = n /\ v.enabled
                                /\ \A w \in variables : w.key = n /\ w.enabled => w.scope <= v.scope}
PartMeaning(p, values) ==
  IF Literal(p) THEN <<p>> ELSE IF p.kind = "ref" THEN values[p.name] ELSE <<Broken>>
Spelled(parts, values) == FlattenSeq([i \in DOMAIN parts |-> PartMeaning(parts[i], values)])
Meanings ==
  LET meanings[d \in 0 .. MaxNesting] ==
        [n \in VariableNames |->
           IF d = 0 \/ Cardinality(Winners(n)) # 1 THEN <<Broken>>
           ELSE Spelled((CHOOSE v \in Winners(n) : TRUE).value, meanings[d - 1])]
  IN meanings
Meaning == Spelled(template, Meanings[MaxNesting])
Meaningful == \A i \in DOMAIN Meaning : Meaning[i] # Broken

(* A request is sent only with every part that reaches the server substituted: by the definition of the
   narrowest scope that has an enabled one, its references substituted in turn, an escaped reference left as
   the text it shows, and nothing missing, ambiguous, endless or malformed in it, the credential included. *)
SentIsSubstituted == (phase = "sent" /\ Used(draft)) => (Meaningful /\ outcome = Meaning)

(* A request is refused for its variables only where a part that counts has no meaning: what is switched off,
   belongs to another kind of body or is escaped never blocks it. *)
RefusedWithReason ==
  (phase = "refused" /\ draft.fits /\ draft.filesFit) =>
    ~Meaningful /\ (Used(draft) \/ ~draft.named)
=============================================================================
