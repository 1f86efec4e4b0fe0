----------------------------- MODULE CurlImport -----------------------------
(***************************************************************************)
(* Reading a cURL command, src/engine/http/CurlParser.ts, token by token,  *)
(* and writing one, generateCurl of src/commands/CodeGenerator.ts.  The    *)
(* words of a command are literals whose parts (option and attached value, *)
(* name and value of a header) are listed below; what makes words of       *)
(* characters is ShellWords.                                               *)
(*                                                                         *)
(* A command is chosen at the start: any short one, or one the generator   *)
(* writes for a request.  A warning is a code and the token it is about.   *)
(***************************************************************************)
EXTENDS Integers, Sequences, FiniteSets, SequencesExt

CONSTANT Alphabet  \* tokens of the commands tried

\* Option words, and what parseOptionToken makes of words with an attached value.
Attached ==
  ("-XPUT" :> <<"-X", "PUT">>) @@ ("-XBREW" :> <<"-X", "BREW">>) @@ ("-HX: 1" :> <<"-H", "X: 1">>)
  @@ ("-HAuthorization: t" :> <<"-H", "Authorization: t">>) @@ ("-HCookie: c" :> <<"-H", "Cookie: c">>)
  @@ ("-HX" :> <<"-H", "X">>) @@ ("-dk=v" :> <<"-d", "k=v">>) @@ ("-d@f" :> <<"-d", "@f">>)
  @@ ("--data-urlencode=k=v" :> <<"--data-urlencode", "k=v">>) @@ ("-Fk=v" :> <<"-F", "k=v">>)
  @@ ("-uu:p" :> <<"-u", "u:p">>) @@ ("-bc=1" :> <<"-b", "c=1">>)
  @@ ("--url=https://b/" :> <<"--url", "https://b/">>) @@ ("--insecure=1" :> <<"-k", "1">>)
  @@ ("--json=1" :> <<"--json", "1">>)
ValueOptions == {"-X", "-H", "-d", "--data-raw", "--data-urlencode", "-F", "--url", "-u", "-b"}
Flags == {"-k", "-L"}
Clusters == {"-kL"}
UnsupportedValueOptions == {"--json", "--form-string", "-T"}
Dangerous == {"-T", "-O"}
Options == ValueOptions \cup Flags \cup UnsupportedValueOptions \cup Dangerous \cup {"--frob", "-5"}

\* looksLikeOption and looksLikeUrl
LooksLikeOption(t) == t \in Options \cup Clusters \cup DOMAIN Attached \cup {"--"}
LooksLikeUrl(t) == t \in {"https://a/", "https://b/"}
Shell == {"$(x)"}  \* words tokenize marks as shell syntax

\* Headers and form fields by their words; other words have no name before their separator.
HeaderIn ==
  ("X: 1" :> <<"x", "1">>) @@ ("Authorization: t" :> <<"authorization", "t">>)
  @@ ("Cookie: c" :> <<"cookie", "c">>) @@ ("Content-Type: application/json" :> <<"content-type", "json">>)
  @@ ("Content-Type: text/plain" :> <<"content-type", "text">>)
  @@ ("Content-Type: application/x-www-form-urlencoded" :> <<"content-type", "form">>)
FieldIn == "k=v" :> <<"k", "v">>
Methods == {"GET", "POST", "PUT"}
LocalFile(v, kind) == v = "@f" /\ kind # "--data-raw"   \* isLocalDataReference
JsonWords == {"{}"}

VARIABLES
  tokens,    \* the command, without its first word
  position,  \* index of the next token
  given,     \* what the options read so far ask for
  warnings,
  imported,  \* the request, once the end is reached
  sample     \* the effective request the command was generated for, or none

curlVars == <<tokens, position, given, warnings, imported, sample>>

Blank == [headers |-> {}, data |-> <<>>, forms |-> <<>>, explicitUrls |-> <<>>, positionalUrls |-> <<>>,
          cookies |-> <<>>, user |-> <<>>, method |-> <<>>, last |-> "none", ended |-> FALSE,
          verifySSL |-> TRUE, followRedirects |-> FALSE]
NoRequest == [url |-> "", method |-> "GET", headers |-> {}, body |-> <<>>, type |-> "none",
              verifySSL |-> TRUE, followRedirects |-> FALSE]
NoSample == [NoRequest EXCEPT !.method = "none", !.headers = <<>>]
-----------------------------------------------------------------------------
(* generateCurl *)

HeaderWords(hs) == FlattenSeq([i \in DOMAIN hs |-> <<"-H", hs[i]>>])
BodyWords(r) ==
  IF r.type = "none" THEN <<>>
  ELSE IF r.type = "form-data" THEN FlattenSeq([i \in DOMAIN r.body |-> <<"--form-string", r.body[i]>>])
  ELSE <<"--data-raw", r.body[1]>>

Curl(r) ==
  <<"-X", r.method>> \o (IF r.followRedirects THEN <<"-L">> ELSE <<>>)
    \o (IF r.verifySSL THEN <<>> ELSE <<"-k">>) \o HeaderWords(r.headers) \o BodyWords(r) \o <<r.url>>
-----------------------------------------------------------------------------
(* parseWithWarnings *)

CurlInit(most, samples) ==
  /\ \/ /\ \E n \in 0 .. most : tokens \in [1 .. n -> Alphabet]
        /\ sample = NoSample
     \/ sample \in samples /\ tokens = Curl(sample)
  /\ position = 1 /\ given = Blank /\ imported = NoRequest
  /\ warnings = {[code |-> "SHELL_SYNTAX_LITERAL", at |-> i] : i \in {j \in DOMAIN tokens : tokens[j] \in Shell}}

Reading == position \in DOMAIN tokens
Token == tokens[position]
IsOption == Reading /\ ~given.ended /\ LooksLikeOption(Token) /\ Token # "--"
OptionOf(t) == IF t \in DOMAIN Attached THEN Attached[t][1] ELSE t
HasAttached(t) == t \in DOMAIN Attached
Warn(code) == [code |-> code, at |-> position]
When(code, condition) == IF condition THEN {code} ELSE {}
Warned(codes) == warnings' = warnings \cup {Warn(c) : c \in codes}
Following == tokens[position + 1]
WordFollows == position + 1 \in DOMAIN tokens /\ ~LooksLikeOption(Following)
Skip(n) == position' = position + n

Positional ==
  /\ Reading /\ (given.ended \/ ~LooksLikeOption(Token))
  /\ given' = [given EXCEPT !.positionalUrls = Append(@, Token)]
  /\ Skip(1) /\ UNCHANGED <<tokens, warnings, imported, sample>>

EndOfOptions ==
  /\ Reading /\ ~given.ended /\ Token = "--"
  /\ given' = [given EXCEPT !.ended = TRUE]
  /\ Skip(1) /\ UNCHANGED <<tokens, warnings, imported, sample>>

Flag ==
  /\ IsOption /\ (Token \in Clusters \/ OptionOf(Token) \in Flags)
  /\ given' = [given EXCEPT
       !.verifySSL = @ /\ Token \notin Clusters /\ OptionOf(Token) # "-k",
       !.followRedirects = @ \/ Token \in Clusters \/ OptionOf(Token) = "-L"]
  /\ Warned(When("AMBIGUOUS_OPTION", HasAttached(Token)))
  /\ Skip(1) /\ UNCHANGED <<tokens, imported, sample>>

\* The switch over VALUE_OPTIONS: what a value adds, and the warnings it gives.
Taken(o, v) ==
  CASE o = "-X" -> [given EXCEPT !.method = <<v>>]
    [] o = "-H" -> IF v \in DOMAIN HeaderIn
                   THEN [given EXCEPT !.headers = @ \cup
                          {[key |-> HeaderIn[v][1], value |-> HeaderIn[v][2], order |-> position]}]
                   ELSE given
    [] o \in {"-d", "--data-raw", "--data-urlencode"} ->
         [given EXCEPT !.data = Append(@, [value |-> v, encoded |-> o = "--data-urlencode"]),
                       !.last = "data"]
    [] o = "-F" -> IF v \in DOMAIN FieldIn
                   THEN [given EXCEPT !.forms = Append(@, FieldIn[v]), !.last = "form"] ELSE given
    [] o = "--url" -> [given EXCEPT !.explicitUrls = Append(@, v)]
    [] o = "-u" -> [given EXCEPT !.user = <<[value |-> v, order |-> position]>>]
    [] o = "-b" -> [given EXCEPT !.cookies = Append(@, [value |-> v, order |-> position])]
TakenWarnings(o, v) ==
  When("AMBIGUOUS_OPTION", \/ o = "-X" /\ given.method # <<>>
                           \/ o = "-u" /\ (given.user # <<>> \/ v # "u:p"))
  \cup When("MALFORMED_VALUE", \/ o = "-H" /\ v \notin DOMAIN HeaderIn
                               \/ o = "-F" /\ v \notin DOMAIN FieldIn)
  \cup When("LOCAL_FILE_REFERENCE", \/ o \in {"-d", "--data-raw", "--data-urlencode"} /\ LocalFile(v, o)
                                    \/ o = "-b" /\ v = "@f")

TakeAttached ==
  /\ IsOption /\ HasAttached(Token) /\ OptionOf(Token) \in ValueOptions
  /\ given' = Taken(OptionOf(Token), Attached[Token][2])
  /\ Warned(TakenWarnings(OptionOf(Token), Attached[Token][2]))
  /\ Skip(1) /\ UNCHANGED <<tokens, imported, sample>>

TakeFollowing ==
  /\ IsOption /\ Token \in ValueOptions /\ WordFollows
  /\ given' = Taken(Token, Following)
  /\ Warned(TakenWarnings(Token, Following))
  /\ Skip(2) /\ UNCHANGED <<tokens, imported, sample>>

ValueMissing ==
  /\ IsOption /\ Token \in ValueOptions /\ ~WordFollows
  /\ Warned({"MISSING_OPTION_VALUE"})
  /\ Skip(1) /\ UNCHANGED <<tokens, given, imported, sample>>

NotApplied(o) == IF o \in Dangerous THEN "DANGEROUS_OPTION" ELSE "UNSUPPORTED_OPTION"
UnsupportedWithValue ==
  /\ IsOption /\ OptionOf(Token) \in UnsupportedValueOptions
  /\ LET takes == ~HasAttached(Token) /\ WordFollows
     IN /\ Warned({NotApplied(OptionOf(Token))}
                  \cup When("MISSING_OPTION_VALUE", ~HasAttached(Token) /\ ~takes))
        /\ Skip(IF takes THEN 2 ELSE 1)
  /\ UNCHANGED <<tokens, given, imported, sample>>

\* An option of unknown shape takes a word as its value only where a URL is still to come.
UnknownOption ==
  /\ IsOption /\ Token \in {"-O", "--frob", "-5"}
  /\ LET unclear == WordFollows /\ ~LooksLikeUrl(Following)
         urlLater == \E i \in DOMAIN tokens : i >= position + 2 /\
                       (LooksLikeUrl(tokens[i]) \/ OptionOf(tokens[i]) = "--url")
     IN /\ Warned({NotApplied(Token)} \cup When("AMBIGUOUS_OPTION", unclear))
        /\ Skip(IF unclear /\ urlLater THEN 2 ELSE 1)
  /\ UNCHANGED <<tokens, given, imported, sample>>

Latest(hs, k) == {h \in hs : h.key = k /\ \A x \in hs : x.key = k => x.order <= h.order}
Unlike(hs, k) == {h \in hs : h.key # k}
\* finalizeHeaders: credentials of an option against headers of the same name, the later wins.
Merged(hs, key, value, order) ==
  IF \E h \in hs : h.key = key /\ h.order > order THEN hs
  ELSE Unlike(hs, key) \cup {[key |-> key, value |-> value, order |-> order]}
WithUser(hs) == IF given.user = <<>> THEN hs
                ELSE Merged(hs, "authorization", given.user[1].value, given.user[1].order)
WithCookies(hs) == IF given.cookies = <<>> THEN hs
                   ELSE Merged(hs, "cookie", [i \in DOMAIN given.cookies |-> given.cookies[i].value],
                               Last(given.cookies).order)
FinalHeaders == WithCookies(WithUser(given.headers))
HasKey(hs, k) == \E h \in hs : h.key = k
DefaultType == [key |-> "content-type", value |-> "form", order |-> Len(tokens) + 1]

\* detectBodyType
DetectedType(hs) ==
  IF Len(given.data) = 1 /\ given.data[1].value \in JsonWords THEN "json"
  ELSE IF \/ \E h \in Latest(hs, "content-type") : h.value = "form"
          \/ \A i \in DOMAIN given.data : given.data[i].encoded THEN "x-www-form-urlencoded"
  ELSE "text"

\* Planted fault: finalizeBody does not report that one family of body options is dropped.
SilentlyChosen == {}
BodyConflict == When("CONFLICTING_BODY_OPTIONS", given.data # <<>> /\ given.forms # <<>>)
HeaderConflicts ==
  When("AMBIGUOUS_OPTION", \/ given.user # <<>> /\ HasKey(given.headers, "authorization")
                           \/ given.cookies # <<>> /\ HasKey(WithUser(given.headers), "cookie"))

UrlsGiven == given.explicitUrls \o given.positionalUrls
FinalWarnings ==
  BodyConflict \cup HeaderConflicts \cup When("MULTIPLE_URLS", Len(UrlsGiven) > 1)
  \cup When("MALFORMED_VALUE", given.method # <<>> /\ given.method[1] \notin Methods)
AtEnd == position = Len(tokens) + 1

\* finalizeUrl without a candidate: the import fails.
NoUrl ==
  /\ AtEnd /\ UrlsGiven = <<>>
  /\ Skip(1) /\ UNCHANGED <<tokens, given, warnings, imported, sample>>

\* finalizeUrl, finalizeHeaders, finalizeBody and finalizeMethod.
Finish ==
  /\ AtEnd /\ UrlsGiven # <<>>
  /\ Warned(FinalWarnings)
  /\ imported' =
       [url |-> IF given.explicitUrls # <<>> THEN Last(given.explicitUrls) ELSE Head(given.positionalUrls),
        method |-> IF given.method # <<>> /\ given.method[1] \in Methods THEN given.method[1]
                   ELSE IF given.data # <<>> \/ given.forms # <<>> THEN "POST" ELSE "GET",
        headers |-> IF given.last = "data" /\ ~HasKey(FinalHeaders, "content-type")
                    THEN FinalHeaders \cup {DefaultType} ELSE FinalHeaders,
        body |-> CASE given.last = "form" -> given.forms [] given.last = "data" -> given.data
                   [] given.last = "none" -> <<>>,
        type |-> CASE given.last = "form" -> "form-data" [] given.last = "data" -> DetectedType(FinalHeaders)
                   [] given.last = "none" -> "none",
        verifySSL |-> given.verifySSL, followRedirects |-> given.followRedirects]
  /\ Skip(1) /\ UNCHANGED <<tokens, given, sample>>

CurlNext ==
  \/ Positional \/ EndOfOptions \/ Flag \/ TakeAttached \/ TakeFollowing \/ ValueMissing
  \/ UnsupportedWithValue \/ UnknownOption \/ NoUrl \/ Finish
-----------------------------------------------------------------------------
(* What a command means, read without the parser's state.  It is only asked of commands the parser had
   nothing to say about. *)

Done == imported # NoRequest
AfterEnd(i) == \E j \in 1 .. i - 1 : tokens[j] = "--"
OptionAt(i, o) == ~AfterEnd(i) /\ OptionOf(tokens[i]) = o
ValueAt(i) == IF HasAttached(tokens[i]) THEN Attached[tokens[i]][2] ELSE tokens[i + 1]
Uses(O) == {i \in DOMAIN tokens : \E o \in O : OptionAt(i, o)}
InOrder(S) == SetToSortSeq(S, <)
IsValue(i) == i > 1 /\ ~AfterEnd(i - 1) /\ tokens[i - 1] \in ValueOptions
UrlWords == {i \in DOMAIN tokens : AfterEnd(i) \/ (~LooksLikeOption(tokens[i]) /\ ~IsValue(i))}
DataOptions == {"-d", "--data-raw", "--data-urlencode"}
BodyUses == Uses(DataOptions \cup {"-F"})

MeantHeaders ==
  {HeaderIn[ValueAt(i)] : i \in Uses({"-H"})}
  \cup {<<"authorization", ValueAt(i)>> : i \in Uses({"-u"})}
  \cup {<<"cookie", [j \in DOMAIN InOrder(Uses({"-b"})) |-> ValueAt(InOrder(Uses({"-b"}))[j])]>>
          : i \in Uses({"-b"})}
MeantType(hs) ==
  {<<"content-type", "form">> : i \in {j \in Uses(DataOptions) : \A h \in hs : h[1] # "content-type"}}
ImportedHeaders == {<<h.key, h.value>> : h \in imported.headers}
Part(i) == IF OptionOf(tokens[i]) = "-F" THEN FieldIn[ValueAt(i)] ELSE ValueAt(i)
ImportedPart(p) == IF imported.type = "form-data" THEN p ELSE p.value

Meant ==
  /\ \A i \in DOMAIN tokens : (~AfterEnd(i) /\ LooksLikeOption(tokens[i])) =>
       \/ tokens[i] \in Clusters \cup {"--"}
       \/ OptionOf(tokens[i]) \in ValueOptions \cup Flags
  /\ {imported.url} = {tokens[i] : i \in UrlWords} \cup {ValueAt(i) : i \in Uses({"--url"})}
  /\ {imported.method} = IF Uses({"-X"}) # {} THEN {ValueAt(i) : i \in Uses({"-X"})}
                         ELSE IF BodyUses # {} THEN {"POST"} ELSE {"GET"}
  /\ ImportedHeaders = MeantHeaders \cup MeantType(MeantHeaders)
  /\ Cardinality(imported.headers) = Cardinality(Uses({"-H", "-u"}))
       + Cardinality(MeantType(MeantHeaders)) + (IF Uses({"-b"}) = {} THEN 0 ELSE 1)
  /\ [i \in DOMAIN imported.body |-> ImportedPart(imported.body[i])]
       = [i \in 1 .. Cardinality(BodyUses) |-> Part(InOrder(BodyUses)[i])]
  /\ imported.verifySSL = (Uses({"-k", "-kL"}) = {})
  /\ imported.followRedirects = (Uses({"-L", "-kL"}) # {})
-----------------------------------------------------------------------------
(* Properties *)

(* A command imported without a warning is imported as it was meant: one address, the method, every
   header, credential and part of the body in order, and both flags.  Whatever the import drops, changes
   or chooses between is told to the person, who must acknowledge it. *)
SilentMeansComplete == Done /\ warnings = {} => Meant

Dashed(r) == \E i \in DOMAIN r.body : LooksLikeOption(r.body[i])
Same(r) ==
  /\ imported.url = r.url /\ imported.method = r.method
  /\ ImportedHeaders = {HeaderIn[r.headers[i]] : i \in DOMAIN r.headers}
  /\ [i \in DOMAIN imported.body |-> ImportedPart(imported.body[i])] = r.body
  /\ imported.verifySSL = r.verifySSL /\ imported.followRedirects = r.followRedirects

(* The command generated for a request, imported again, is that request, and nothing has to be
   acknowledged; where the import cannot follow it (form fields, a body that begins with a dash) it says
   so. *)
PastesBack ==
  Done /\ sample # NoSample =>
    IF sample.type = "form-data" \/ Dashed(sample) THEN warnings # {} ELSE warnings = {} /\ Same(sample)
=============================================================================
