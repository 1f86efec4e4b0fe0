----------------------------- MODULE MCContent -----------------------------
(***************************************************************************)
(* Model checking of Content.                                              *)
(***************************************************************************)
EXTENDS Content

CONSTANTS c1, c2, f1, f2, r1, r2, r3, n1
-----------------------------------------------------------------------------
\* Commands: a URL twice, every family of options, attached and clustered; and samples of requests.
MCAlphabet == {"https://a/", "-X", "PUT", "-HX: 1", "-HAuthorization: t", "-d", "k=v", "-Fk=v",
    "-uu:p", "-bc=1", "-kL", "--", "--json", "--frob", "--url=https://b/"}
PlainSample == [NoRequest EXCEPT !.url = "https://a/", !.method = "GET", !.headers = <<"X: 1">>]
JsonSample == [PlainSample EXCEPT !.method = "POST",
    !.headers = <<"Content-Type: application/json">>, !.type = "json"]
MCSamples == {[PlainSample EXCEPT !.followRedirects = f, !.verifySSL = v] : f, v \in BOOLEAN}
  \cup {[JsonSample EXCEPT !.body = <<b>>] : b \in {"{}", "@f", "-5"}}
  \cup {[PlainSample EXCEPT !.type = "form-data", !.body = <<"k=v">>]}
-----------------------------------------------------------------------------
\* Texts: every character that means something to a shell, and one that does not.
MCCharacters == {"a", " ", "'", "\"", "\\", "$(", ";", "nl"}
ShortWords == UNION {[1 .. n -> {"a", "'", "\"", "\\", " ", "$("}] : n \in 0 .. 2}
MCQuoted == {<<v, w>> : v, w \in ShortWords}
-----------------------------------------------------------------------------
\* Variables that refer to each other, in and out of order, at five levels; and every place they are used.
MCVariableNames == {"a", "b", "c"}
Definition(n, s, i, e, t) == [scope |-> s, key |-> n, id |-> i, enabled |-> e, value |-> t]
Templates == {<<Text>>, <<Ref("a")>>, <<Ref("b")>>, <<Ref("c")>>, <<Ref("b"), Ref("c")>>,
    <<Escaped("a")>>}
Definitions(n) == {{}, {Definition(n, 1, 1, FALSE, <<Text>>)}} \cup {{Definition(n, 3, 1, TRUE,
    t)} : t \in Templates}
  \cup {{Definition(n, 1, 1, TRUE, <<Text>>), Definition(n, 5, 1, TRUE, t)} : t \in Templates}
  \cup {{Definition(n, 4, 1, TRUE, <<Text>>), Definition(n, 4, 2, TRUE, t)} : t \in {<<Text>>,
      <<Ref("c")>>}}
Contexts == {x \cup y \cup z : x \in Definitions("a"), y \in Definitions("b"), z \in {{},
    {Definition("c", 1, 1, TRUE, <<Text>>)}, {Definition("c", 1, 1, TRUE, <<Ref("a")>>)}}}
UrlDraft == [place |-> "url", enabled |-> TRUE, named |-> TRUE, body |-> "none",
    encoded |-> FALSE, auth |-> "none", fits |-> TRUE, filesFit |-> TRUE]
DraftBodies == {"none", "text", "x-www-form-urlencoded", "form-data", "file"}
MCDrafts ==
  {[UrlDraft EXCEPT !.fits = f, !.filesFit = g] : f, g \in BOOLEAN}
  \cup {[UrlDraft EXCEPT !.place = p, !.enabled = e, !.named = n] : p \in {"header", "query"}, e,
      n \in BOOLEAN}
  \cup {[UrlDraft EXCEPT !.place = p, !.body = b, !.enabled = e] : p \in {"path", "content",
      "field", "fileField", "fileType"}, b \in DraftBodies, e \in BOOLEAN}
  \cup {[UrlDraft EXCEPT !.place = "content", !.body = "x-www-form-urlencoded", !.encoded = TRUE]}
  \cup {[UrlDraft EXCEPT !.place = p, !.auth = a] : p \in {"authName", "credential"},
      a \in {"none", "apiKey"}}
MCTemplates == {<<Text>>, <<Ref("a")>>, <<Ref("b"), Text>>, <<Escaped("a"), Invalid>>,
    <<Escaped("a"), Text>>, <<Text, Unclosed, Text>>}
MCCases == [variables : Contexts, draft : {UrlDraft}, template : {<<Text, Ref("a")>>, <<Ref("a"),
    Ref("b")>>}]
  \cup [variables : {{Definition("a", 4, 1, TRUE, <<Text>>)}}, draft : MCDrafts,
      template : MCTemplates]
-----------------------------------------------------------------------------
\* Requests: credentials in every place, with and without placeholders; and every kind of body.
MCPairNames == {"authorization", "cookie", "x-api-key", "named", "x-key", "x-other", "content-type",
    "key", "KEY", "f", "g"}
Header(n, v, e) == [name |-> n, value |-> v, enabled |-> e]
HeaderLists == {<<>>} \cup {<<Header(n, v, e)>> : n \in {"authorization", "cookie", "x-api-key",
    "named"}, v \in {"secret"}, e \in BOOLEAN}
  \cup {<<Header("x-api-key", "plain", TRUE)>>, <<Header("content-type", "plain", TRUE)>>,
      <<Header("x-key", "plain", TRUE)>>}
MCHeaders == HeaderLists \cup {a \o b : a \in {<<Header("x-api-key", "plain", TRUE)>>,
    <<Header("named", "secret", TRUE)>>}, b \in HeaderLists}
BareRequest == [headers |-> <<>>, userinfo |-> FALSE, urlQuery |-> <<>>, query |-> <<>>,
    auth |-> "none", authIn |-> "header", authName |-> "x-key",
  body |-> "none", encoded |-> FALSE, fields |-> <<>>, files |-> 0, verifySSL |-> TRUE,
      followRedirects |-> TRUE]
Authenticated == {[BareRequest EXCEPT !.auth = a] : a \in {"none", "bearer"}}
    \cup {[BareRequest EXCEPT !.auth = "apiKey", !.authName = "x-key"],
    [BareRequest EXCEPT !.auth = "apiKey", !.authIn = "query", !.authName = "key"]}
Drafts == {[r EXCEPT !.headers = h, !.userinfo = u, !.urlQuery = q,
    !.query = p] : r \in Authenticated, h \in MCHeaders, u \in BOOLEAN,
  q \in {<<>>, <<Header("key", "secret", TRUE)>>}, p \in {<<>>, <<Header("KEY", "plain", TRUE)>>,
      <<Header("key", "secret", TRUE)>>}}
\* Names written as variables in every place, and the API key typed more than once, switched off or in another case.
NamedAuths == {[BareRequest EXCEPT !.auth = "bearer"]}
  \cup {[BareRequest EXCEPT !.auth = "apiKey", !.authIn = i, !.authName = n] : i \in {"header", "query"},
      n \in {"key", "named"}}
NamedDrafts == {[r EXCEPT !.headers = h, !.urlQuery = q, !.query = p] : r \in NamedAuths,
  h \in {<<>>, <<Header("named", "secret", TRUE)>>, <<Header("key", "secret", TRUE),
      Header("named", "secret", TRUE)>>},
  q \in {<<>>, <<Header("named", "secret", TRUE)>>},
  p \in {<<>>, <<Header("named", "secret", TRUE)>>, <<Header("key", "secret", FALSE)>>,
      <<Header("key", "secret", TRUE), Header("named", "secret", TRUE)>>,
      <<Header("KEY", "plain", TRUE), Header("key", "secret", TRUE)>>}}
BodyKinds == {[BareRequest EXCEPT !.headers = h, !.body = b, !.encoded = x, !.fields = f,
    !.files = n, !.verifySSL = v, !.followRedirects = d] :
  h \in {<<>>, <<Header("content-type", "plain", TRUE)>>, <<Header("x-other", "plain", TRUE),
      Header("named", "plain", TRUE)>>}, b \in {"none", "text", "x-www-form-urlencoded",
      "form-data", "file"},
  x \in BOOLEAN, f \in {<<Header("f", "plain", TRUE), Header("g", "plain", FALSE)>>},
      n \in 0 .. 1, v, d \in BOOLEAN}
MCJobs == [kind : {"preview"}, language : {"none"}, include : {FALSE}, request : Drafts \cup NamedDrafts]
  \cup [kind : {"sample"}, language : {"curl"}, include : BOOLEAN, request : Drafts \cup NamedDrafts]
  \cup [kind : {"export"}, language : {"none"}, include : BOOLEAN, request : Drafts \cup NamedDrafts]
  \cup [kind : {"sample"}, language : {"javascript", "typescript", "python", "curl", "csharp",
      "java", "go"}, include : {FALSE}, request : BodyKinds]
-----------------------------------------------------------------------------
\* Exports: nested folders, folders side by side, and one folder too deep.
Variable(t) == [name |-> "a", type |-> t]
VariableLists == {<<>>, <<Variable("plain")>>, <<Variable("secret"), Variable("malformed"),
    Variable("plain"), Variable("plain")>>}
Folder(d, a, v) == [kind |-> "folder", depth |-> d, auth |-> a, variables |-> v,
    header |-> "none", userinfo |-> "none", fits |-> TRUE]
Request(d, a, h, u, f) == [kind |-> "request", depth |-> d, auth |-> a, variables |-> <<>>,
    header |-> h, userinfo |-> u, fits |-> f]
FolderAuths == {"absent", "noauth", "bearer"}
ItemAuths == FolderAuths \cup {"placeholder", "malformed"}
Headers == {"none", "bearer", "placeholder", "disabled", "malformed"}
Infos == {"none", "credential", "placeholder"}
Nested == {<<Folder(0, a, v), Folder(1, b, w), Request(2, c, h, u, f)>> : a, b \in FolderAuths, v,
    w \in VariableLists, c \in ItemAuths, h \in Headers, u \in Infos, f \in BOOLEAN}
Siblings == {<<Folder(0, a, v), Request(1, b, h, "none", f), Folder(d, c, <<>>), Request(e, b,
    "none", "none", TRUE)>> :
   a, c \in FolderAuths, b \in {"absent", "bearer"}, v \in VariableLists, h \in {"none",
       "bearer"}, f \in BOOLEAN, d \in 0 .. 1, e \in 0 .. 1}
Deep == {<<Folder(0, "absent", <<>>), Folder(1, "absent", <<>>), Folder(2, "absent", <<>>),
    Request(3, "absent", "none", "none", TRUE)>>}
MCPostmanExports == [auth : {"absent", "bearer"}, items : Nested \cup Siblings \cup Deep]
=============================================================================
