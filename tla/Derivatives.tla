---------------------------- MODULE Derivatives ----------------------------
(***************************************************************************)
(* What a request becomes besides being sent: a preview, a code sample in  *)
(* one of seven languages, a collection export and what importing that     *)
(* export makes of it.  The pipeline is RequestPreparationService,         *)
(* AuthService, CodeGenerationService and CollectionService of             *)
(* src/services and src/engine/auth; what a request amounts to is          *)
(* normalizeEffectiveRequest of src/engine/http/EffectiveRequest.ts; the   *)
(* samples are those of src/commands.                                      *)
(*                                                                         *)
(* A pair is a name, a value and whether it is enabled.  Header names are  *)
(* in lower case; "named" is a name written as a variable, of a header, a  *)
(* parameter, a field or the API key.  A value is "plain", a "secret" the  *)
(* person typed, the stored "credential" or a placeholder.  Query names    *)
(* are "key" and "KEY": they differ by case.                               *)
(***************************************************************************)
EXTENDS InsertionOrder, Integers, Sequences, SequencesExt, FiniteSets

CONSTANT PairNames  \* names of headers, parameters and fields

\* What a variable that names something may stand for.
GivenNames == {"authorization", "x-other", "key"}

ASSUME NamesInUse == {"content-type"} \cup GivenNames \subseteq PairNames

VARIABLES
  job,        \* [kind, language, include, request]: what is asked for
  variable,   \* what the variable in a name stands for now
  kept,       \* the credential of the request's Auth Builder entry is in the secret store
  stage,      \* "asked", "checked", "asking", "confirmed", "declined", "prepared", "made", "imported", "refused"
  answer,     \* to the question whether to disclose: "none", "yes" or "no"
  disclosed,  \* the product was prepared with its credentials
  resolved,   \* the request as the first preparation resolved it
  prepared,   \* the request the product is made from
  product,    \* the preview's and sample's statements, or the exported request
  taken       \* what importing the export stored

derivativeVars == <<job, variable, kept, stage, answer, disclosed, resolved, prepared, product, taken>>

CredentialHeaders == {"authorization", "cookie", "x-api-key"}
Placeholders == {"<REDACTED>", "<CREDENTIAL>", "<AUTH_CONFLICT>"}
Pairs == [name : PairNames, value : {"plain", "secret", "credential"} \cup Placeholders, enabled : BOOLEAN]
StoredRequests ==
  [headers : Seq(Pairs), userinfo : BOOLEAN, urlQuery : Seq(Pairs), query : Seq(Pairs),
   auth : {"none", "bearer", "apiKey"}, authIn : {"header", "query"}, authName : PairNames,
   body : {"none", "text", "x-www-form-urlencoded", "form-data", "file"}, encoded : BOOLEAN,
   fields : Seq(Pairs), files : Nat, verifySSL : BOOLEAN, followRedirects : BOOLEAN]
Languages == {"javascript", "typescript", "python", "curl", "csharp", "java", "go"}
\* The stored credential is in the secret store only.
KeepsCredentialsApart(r) ==
  \A p \in ToSet(r.headers) \cup ToSet(r.urlQuery) \cup ToSet(r.query) : p.value # "credential"
WellFormedJob(j) ==
  /\ j \in [kind : {"preview", "sample", "export"}, language : Languages \cup {"none"}, include : BOOLEAN,
            request : StoredRequests]
  /\ KeepsCredentialsApart(j.request)
  /\ j.kind = "sample" => j.language \in Languages

Pair(n, v) == [name |-> n, value |-> v, enabled |-> TRUE]
Enabled(ps) == Kept(ps, {p \in ToSet(ps) : p.enabled})
Without(ps, n) == Kept(ps, {p \in ToSet(ps) : p.name # n})
Has(ps, n) == \E i \in DOMAIN ps : ps[i].enabled /\ ps[i].name = n
\* What toLowerCase makes of a name.
Lower(n) == IF n = "KEY" THEN "key" ELSE n
HasAnyCase(ps, n) == \E i \in DOMAIN ps : ps[i].enabled /\ Lower(ps[i].name) = Lower(n)
InQuery(r) == r.auth = "apiKey" /\ r.authIn = "query"
AuthName(r) == IF r.auth = "apiKey" THEN r.authName ELSE "authorization"
PlaceOf(r) == IF InQuery(r) THEN r.query ELSE r.headers
-----------------------------------------------------------------------------
(* resolveRequest: the names of what is enabled are substituted, and the API key's. *)
NamesResolved(ps) == [i \in DOMAIN ps |->
  IF ps[i].enabled /\ ps[i].name = "named" THEN [ps[i] EXCEPT !.name = variable] ELSE ps[i]]
Resolved(r) ==
  [r EXCEPT !.headers = NamesResolved(@), !.urlQuery = NamesResolved(@), !.query = NamesResolved(@),
            !.fields = IF r.body \in {"form-data", "x-www-form-urlencoded"} THEN NamesResolved(@) ELSE @,
            !.authName = IF r.auth = "apiKey" /\ @ = "named" THEN variable ELSE @]

\* assertNoAuthConflict
Conflict(r) ==
  /\ r.auth # "none"
  /\ IF InQuery(r) THEN Has(r.query, AuthName(r)) \/ \E i \in DOMAIN r.urlQuery : r.urlQuery[i].name = AuthName(r)
     ELSE Has(r.headers, AuthName(r))

\* redactRecognizedCredentials
HideHeaders(hs) == [i \in DOMAIN hs |->
  IF hs[i].name \in CredentialHeaders /\ hs[i].value \notin Placeholders
  THEN [hs[i] EXCEPT !.value = "<REDACTED>"] ELSE hs[i]]
\* redactUrlQueryValues: the first parameter of the name gets the placeholder, the others go.
HideUrlQuery(r) ==
  IF InQuery(r) /\ \E i \in DOMAIN r.urlQuery : r.urlQuery[i].name = r.authName
  THEN LET first == CHOOSE i \in DOMAIN r.urlQuery : r.urlQuery[i].name = r.authName
                                      /\ \A j \in 1 .. i - 1 : r.urlQuery[j].name # r.authName
           marked == [r.urlQuery EXCEPT ![first].value = "<CREDENTIAL>"]
       IN Kept(marked, {p \in ToSet(marked) : p.name # r.authName \/ p.value = "<CREDENTIAL>"})
  ELSE r.urlQuery
\* Planted fault: user information stays in the address where other authentication is configured.
KeepUserInfo(r) == r.userinfo /\ r.auth # "none"
\* redactUrlUserInfo
HideUserInfo(r) == FALSE
Recognized(r) ==
  LET hidden == HideHeaders(r.headers)
  IN [r EXCEPT !.urlQuery = HideUrlQuery(r), !.userinfo = HideUserInfo(r),
               !.headers = IF r.userinfo /\ r.auth = "none" /\ ~Has(hidden, "authorization")
                           THEN Append(hidden, Pair("authorization", "<CREDENTIAL>")) ELSE hidden]

\* injectPlaceholder of AuthService: the first pair of the name in any case is marked as a conflict.
Marked(ps, n, mark) ==
  [ps EXCEPT ![CHOOSE i \in DOMAIN ps : /\ ps[i].enabled /\ Lower(ps[i].name) = Lower(n)
                                        /\ \A j \in 1 .. i - 1 : ~(ps[j].enabled /\ Lower(ps[j].name) = Lower(n))
              ].value = IF @ = "<CREDENTIAL>" THEN mark ELSE "<AUTH_CONFLICT>"]
Placed(ps, n, mark) == IF HasAnyCase(ps, n) THEN Marked(ps, n, mark) ELSE Append(ps, Pair(n, "<CREDENTIAL>"))
WithPlaceholder(r, mark) ==
  IF r.auth = "none" THEN r
  ELSE IF InQuery(r) THEN [r EXCEPT !.query = Placed(@, AuthName(r), mark)]
  ELSE [r EXCEPT !.headers = Placed(@, AuthName(r), mark)]

\* redactForDerivative
Redacted(r) == WithPlaceholder(Recognized(r), "<AUTH_CONFLICT>")
\* withCredentialPlaceholders of CodeGenerator, over what redactForDerivative gave.
RedactedAgain(r) ==
  LET hidden == Recognized(r)
  IN WithPlaceholder([hidden EXCEPT !.headers = [i \in DOMAIN @ |->
       IF @[i].enabled /\ @[i].name \in CredentialHeaders /\ @[i].value \notin Placeholders
       THEN [@[i] EXCEPT !.value = "<REDACTED>"] ELSE @[i]]], "<CREDENTIAL>")

\* injectCredential
Injected(r) ==
  IF r.auth = "none" THEN r
  ELSE IF InQuery(r) THEN [r EXCEPT !.query = Append(@, Pair(AuthName(r), "credential"))]
  ELSE [r EXCEPT !.headers = Append(@, Pair(AuthName(r), "credential"))]
-----------------------------------------------------------------------------
(* normalizeEffectiveRequest *)

\* normalizeBody: fields without a list are sent as the content they came as.
EffectiveBody(r) == IF r.body = "x-www-form-urlencoded" /\ r.encoded THEN "text" ELSE r.body
FieldsOf(r) == IF EffectiveBody(r) \in {"form-data", "x-www-form-urlencoded"} THEN Enabled(r.fields) ELSE <<>>
FilesOf(r) == CASE r.body = "form-data" -> r.files [] r.body = "file" -> 1 [] OTHER -> 0

\* normalizeHeaders: a later header of a name replaces the value of an earlier one.
Put(map, h) == IF Has(map, h.name) THEN [i \in DOMAIN map |-> IF map[i].name = h.name THEN h ELSE map[i]]
               ELSE Append(map, h)
Map(hs) ==
  LET map[n \in 0 .. Len(hs)] == IF n = 0 THEN <<>> ELSE Put(map[n - 1], hs[n])
  IN map[Len(hs)]
HeadersOf(r) ==
  LET own == Map(Without(Enabled(r.headers), "content-length"))
  IN IF r.body = "form-data" THEN Without(own, "content-type")
     ELSE IF r.body # "none" /\ ~Has(own, "content-type") THEN Append(own, Pair("content-type", "plain"))
     ELSE own
Effective(r) ==
  [userinfo |-> r.userinfo, query |-> r.urlQuery \o Enabled(r.query), headers |-> HeadersOf(r),
   body |-> EffectiveBody(r), fields |-> FieldsOf(r), files |-> FilesOf(r),
   verifySSL |-> r.verifySSL, followRedirects |-> r.followRedirects]
-----------------------------------------------------------------------------
(* The samples: sequences of statements, each a kind and what it is about. *)

Line(kind, about) == <<[kind |-> kind, about |-> about]>>
OnlyIf(condition, line) == IF condition THEN line ELSE <<>>
HeaderLines(e) == [i \in DOMAIN e.headers |-> [kind |-> "header", about |-> e.headers[i]]]
FieldLines(e) == [i \in DOMAIN e.fields |-> [kind |-> "field", about |-> e.fields[i].name]]
FileLines(e) == [i \in 1 .. e.files |-> [kind |-> "file", about |-> "<LOCAL_FILE>"]]
Redirects(e) == Line("redirects", IF e.followRedirects THEN "follow" ELSE "stop")
Verifies(e) == Line("verifies", IF e.verifySSL THEN "yes" ELSE "no")
\* Planted fault: a sample that cannot switch verification off does not say so.
VerifiesSilently(e) == Line("verifies", "yes")
AlwaysVerifies(e) == Line("verifies", "yes") \o OnlyIf(~e.verifySSL, Line("note", "stays-on"))
Fields(e) == e.body \in {"form-data", "x-www-form-urlencoded"}
ContentLine(e) == OnlyIf(e.body # "none" /\ ~Fields(e), Line("content", "body"))
Multipart(e) == OnlyIf(e.body = "form-data", Line("type", "multipart"))
Url(e) == Line("url", [query |-> e.query, userinfo |-> e.userinfo])

\* renderJavaScriptBody and generateJavaScript
FetchBody(e) == IF Fields(e) THEN FieldLines(e) ELSE ContentLine(e)
Fetch(e) == Url(e) \o HeaderLines(e) \o FetchBody(e) \o Redirects(e) \o AlwaysVerifies(e)
Python(e) ==
  Url(e) \o HeaderLines(e) \o (IF Fields(e) THEN FieldLines(e) ELSE ContentLine(e))
    \o Redirects(e) \o Verifies(e) \o Line("timeout", "set")
CurlSample(e) ==
  Url(e) \o Redirects(e) \o Verifies(e) \o HeaderLines(e)
    \o (IF e.body = "form-data" THEN FieldLines(e)
        ELSE OnlyIf(e.body # "none", Line("content", IF e.body = "x-www-form-urlencoded" THEN "fields" ELSE "body")))
\* renderCSharpBody and generateCSharp: a header of the content needs a content.
CSharp(e) ==
  Redirects(e) \o Verifies(e) \o Line("timeout", "set") \o Url(e)
    \o (IF Fields(e) THEN FieldLines(e) ELSE ContentLine(e))
    \o Kept(HeaderLines(e), {l \in ToSet(HeaderLines(e)) : l.about.name = "content-type" => e.body # "none"})
\* renderJavaBody and generateJava, renderGoBody and generateGo
JavaBody(e) ==
  CASE e.body = "form-data" -> FieldLines(e)
    [] e.body = "x-www-form-urlencoded" -> Line("content", "fields")
    [] OTHER -> ContentLine(e)
Java(e) ==
  Redirects(e) \o AlwaysVerifies(e) \o Url(e) \o JavaBody(e) \o Line("timeout", "set")
    \o HeaderLines(e) \o Multipart(e)
GoBody(e) ==
  CASE e.body = "form-data" -> FieldLines(e)
    [] e.body = "x-www-form-urlencoded" -> Line("content", "fields")
    [] OTHER -> ContentLine(e)
Go(e) ==
  Url(e) \o GoBody(e) \o HeaderLines(e) \o Multipart(e) \o Line("timeout", "set") \o Verifies(e) \o Redirects(e)

\* generateFileUploadCode, for a body that is a file or has one among its fields
Upload(e, language) ==
  HeaderLines(e) \o FieldLines(e) \o FileLines(e) \o Line("timeout", "set") \o Url(e) \o Redirects(e)
    \o (IF language \in {"javascript", "typescript", "java"} THEN AlwaysVerifies(e) ELSE Verifies(e))
    \o (IF language \in {"java", "go"} THEN Multipart(e) ELSE <<>>)

Sample(e, language) ==
  IF e.files > 0 THEN Upload(e, language)
  ELSE CASE language \in {"javascript", "typescript"} -> Fetch(e)
         [] language = "python" -> Python(e)
         [] language = "curl" -> CurlSample(e)
         [] language = "csharp" -> CSharp(e)
         [] language = "java" -> Java(e)
         [] language = "go" -> Go(e)
-----------------------------------------------------------------------------
Nothing == [credential |-> "none", headers |-> <<>>, query |-> <<>>]
DerivativeInit(from) ==
  /\ job \in from /\ resolved = job.request /\ prepared = job.request
  /\ variable \in GivenNames /\ kept = TRUE
  /\ stage = "asked" /\ answer = "none" /\ disclosed = FALSE /\ product = <<>> /\ taken = Nothing

\* preview: shown whatever the preparation found, of what it gave.
Preview ==
  /\ job.kind = "preview" /\ stage = "asked"
  /\ resolved' = Resolved(job.request) /\ prepared' = Redacted(resolved')
  /\ LET e == Effective(prepared') IN product' = Url(e) \o HeaderLines(e) \o FieldLines(e)
  /\ stage' = "made"
  /\ UNCHANGED <<job, variable, kept, answer, disclosed, taken>>

\* generate: the first preparation.
CheckFirst ==
  /\ job.kind = "sample" /\ stage = "asked"
  /\ resolved' = Resolved(job.request)
  /\ stage' = IF Conflict(resolved') THEN "refused" ELSE "checked"
  /\ UNCHANGED <<job, variable, kept, answer, disclosed, prepared, product, taken>>

ReadyToAsk == \/ job.kind = "sample" /\ stage = "checked"
              \/ job.kind = "export" /\ stage = "asked"
Ask ==
  /\ ReadyToAsk /\ job.include
  /\ stage' = "asking"
  /\ UNCHANGED <<job, variable, kept, answer, disclosed, resolved, prepared, product, taken>>
DoNotAsk ==
  /\ ReadyToAsk /\ ~job.include
  /\ stage' = "declined"
  /\ UNCHANGED <<job, variable, kept, answer, disclosed, resolved, prepared, product, taken>>
Answer ==
  /\ stage = "asking"
  /\ \/ answer' = "yes" /\ stage' = "confirmed"
     \/ answer' = "no" /\ stage' = "declined"
  /\ UNCHANGED <<job, variable, kept, disclosed, resolved, prepared, product, taken>>

\* Behind the open dialog another window changes the variable, or the credential is removed.
Meanwhile ==
  /\ stage = "asking"
  /\ \/ variable' \in GivenNames /\ UNCHANGED kept
     \/ kept' = FALSE /\ UNCHANGED variable
  /\ UNCHANGED <<job, stage, answer, disclosed, resolved, prepared, product, taken>>

Disclosed == stage = "confirmed"

\* resolveForTransport: a sample is prepared once more; an export takes the request as it is stored.
PrepareDisclosed ==
  /\ stage \in {"confirmed", "declined"} /\ Disclosed
  /\ LET again == IF job.kind = "sample" THEN Resolved(job.request) ELSE job.request
         given == again.auth = "none" \/ (kept /\ ~Conflict(again))
     IN /\ prepared' = IF given THEN Injected(again) ELSE prepared
        /\ stage' = IF given THEN "prepared" ELSE "refused"
        /\ disclosed' = given
  /\ UNCHANGED <<job, variable, kept, answer, resolved, product, taken>>

Masked == Redacted(resolved)
PrepareMasked ==
  /\ stage = "declined" /\ ~Disclosed
  /\ prepared' = Masked /\ stage' = "prepared"
  /\ UNCHANGED <<job, variable, kept, answer, disclosed, resolved, product, taken>>

Final == IF disclosed THEN prepared ELSE RedactedAgain(prepared)
Generate ==
  /\ job.kind = "sample" /\ stage = "prepared"
  /\ product' = Sample(Effective(Final), job.language) /\ stage' = "made"
  /\ UNCHANGED <<job, variable, kept, answer, disclosed, resolved, prepared, taken>>

Export ==
  /\ job.kind = "export" /\ stage = "prepared"
  /\ stage' = "made"
  /\ UNCHANGED <<job, variable, kept, answer, disclosed, resolved, prepared, product, taken>>

\* prepareForImport: placeholders in the places of credentials go.
ForImport(r) ==
  [r EXCEPT
    !.headers = SelectSeq(@, LAMBDA h : ~(h.value \in Placeholders /\
                  (h.name \in CredentialHeaders \/ (r.auth = "apiKey" /\ ~InQuery(r) /\ h.name = r.authName)))),
    !.query = SelectSeq(@, LAMBDA p : ~(p.value \in Placeholders /\ InQuery(r) /\ p.name = r.authName))]
Matches(ps, n) == {i \in DOMAIN ps : ps[i].enabled /\ ps[i].name = n}
\* findLegacyAuth: an ordinary value is no bearer or basic credential.
LegacyHeader(h) == h.name = "x-api-key" \/ (h.name = "authorization" /\ h.value # "plain")
Legacy(hs) == {i \in DOMAIN hs : hs[i].enabled /\ LegacyHeader(hs[i])}
Take(r, pairs, found) ==
  IF Cardinality(found) # 1 THEN [credential |-> "none", headers |-> r.headers, query |-> r.query]
  ELSE LET i == CHOOSE x \in found : TRUE
       IN [credential |-> pairs[i].value,
           headers |-> IF pairs = r.headers THEN RemoveAt(r.headers, i) ELSE r.headers,
           query |-> IF pairs = r.headers THEN r.query ELSE RemoveAt(r.query, i)]
Import ==
  /\ job.kind = "export" /\ stage = "made"
  /\ LET r == ForImport(prepared)
         pairs == IF InQuery(r) THEN r.query ELSE r.headers
         own == IF r.auth = "apiKey" THEN Matches(pairs, r.authName) ELSE {}
     IN IF Cardinality(own) > 1 THEN stage' = "refused" /\ UNCHANGED taken
        ELSE /\ stage' = "imported"
             /\ taken' = IF own # {} THEN Take(r, pairs, own) ELSE Take(r, r.headers, Legacy(r.headers))
  /\ UNCHANGED <<job, variable, kept, answer, disclosed, resolved, prepared, product>>

DerivativeNext ==
  \/ Preview \/ CheckFirst \/ Ask \/ DoNotAsk \/ Answer \/ Meanwhile \/ PrepareDisclosed \/ PrepareMasked
  \/ Generate \/ Export \/ Import
-----------------------------------------------------------------------------
(* Properties *)

Lines(kind) == Kept(product, {l \in ToSet(product) : l.kind = kind})
Reveals(p) == p.value = "credential" \/ (p.value = "secret" /\ p.name \in CredentialHeaders)
RevealsQuery(r, p) == p.value = "credential" \/ (p.value = "secret" /\ InQuery(r) /\ p.name = r.authName)
\* A typed header of credentials, user information, the API key in the address, the stored credential.
Leaks(r) ==
  \/ r.userinfo
  \/ \E h \in ToSet(r.headers) : Reveals(h)
  \/ \E p \in ToSet(r.urlQuery) : RevealsQuery(r, p)
  \/ \E p \in ToSet(r.query) : p.value = "credential"
HoldsPlaceholder(ps, n) ==
  \E i \in DOMAIN ps :
    /\ ps[i].enabled /\ Lower(ps[i].name) = Lower(n) /\ ps[i].value \in Placeholders
    /\ \A j \in 1 .. i - 1 : ~(ps[j].enabled /\ Lower(ps[j].name) = Lower(n))
HeadersShown == {Lines("header")[i].about : i \in DOMAIN Lines("header")}
AddressesShown == {Lines("url")[i].about : i \in DOMAIN Lines("url")}
Shown ==
  \/ \E h \in HeadersShown : Reveals(h)
  \/ \E a \in AddressesShown : a.userinfo \/ \E p \in ToSet(a.query) : p.value = "credential"
\* What was typed in the place of the authentication.
KeyShown ==
  \/ ~InQuery(resolved) /\ \E h \in HeadersShown : h.name = AuthName(resolved) /\ h.value = "secret"
  \/ InQuery(resolved) /\ \E a \in AddressesShown : \E p \in ToSet(a.query) :
       p.name = AuthName(resolved) /\ p.value = "secret"

(* Unless the person was asked for this very product and said yes, no preview, no sample in any language and
   no export holds the stored credential, user information, a typed header of credentials or, in the address,
   a typed API key.  A header is known by the name it has where it is looked at: resolved in a preview and a
   sample, as stored in an export, which writes a header named by a variable as it was typed.  Of the headers
   or parameters with the name of the authentication the first enabled one holds a placeholder; others may
   keep what was typed in a preview and an export, while a sample shows no such value. *)
NoUnconfirmedCredential ==
  (stage = "made" /\ answer # "yes") =>
    /\ ~Leaks(prepared)
    /\ prepared.auth # "none" => HoldsPlaceholder(PlaceOf(prepared), AuthName(prepared))
    /\ job.kind # "export" => ~Shown
    /\ job.kind = "sample" => ~KeyShown

\* A header about the content has no place in a C# sample without one.
Expressible(e) ==
  IF job.language = "csharp" /\ e.body = "none" THEN Without(e.headers, "content-type") ELSE e.headers
Abouts(kind) == [i \in DOMAIN Lines(kind) |-> Lines(kind)[i].about]
(* A sample sends the request that would be sent, credentials aside: the same address, every header once and
   in order, every part of the body, redirects followed or not, certificates verified or not or a word that
   they are; and a multipart body gets its type from one place. *)
SampleReflectsRequest ==
  (stage = "made" /\ job.kind = "sample") =>
    LET e == Effective(Final)
        whole == <<"fields">> = Abouts("content")
    IN /\ Abouts("url") = <<[query |-> e.query, userinfo |-> e.userinfo]>>
       /\ Abouts("header") = Expressible(e)
       /\ Len(Lines("file")) = e.files
       /\ whole \/ Abouts("field") = [i \in DOMAIN e.fields |-> e.fields[i].name]
       /\ Fields(e) \/ e.files > 0
            \/ Abouts("content") = IF e.body = "none" THEN <<>> ELSE <<"body">>
       /\ Abouts("redirects") = <<IF e.followRedirects THEN "follow" ELSE "stop">>
       /\ Abouts("note") # <<>> \/ Abouts("verifies") = <<IF e.verifySSL THEN "yes" ELSE "no">>
       /\ Len(Lines("type")) + Cardinality(Matches(e.headers, "content-type"))
            <= 1

(* README.md says that an export with credentials imports into the secret store: the credential of the
   request's authentication is stored there, and is no longer a value of the request itself. *)
ImportedCredentialIsSecret ==
  (stage = "imported" /\ disclosed /\ job.request.auth # "none") =>
    /\ taken.credential = "credential"
    /\ \A i \in DOMAIN taken.headers : taken.headers[i].value # "credential"
    /\ \A i \in DOMAIN taken.query : taken.query[i].value # "credential"
=============================================================================
