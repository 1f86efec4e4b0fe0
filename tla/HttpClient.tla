----------------------------- MODULE HttpClient -----------------------------
(***************************************************************************)
(* One execution of src/engine/http/HttpClient.ts, from execute to its     *)
(* result: the body is built, hops are made while the server redirects,    *)
(* the response is received, decompressed and kept, and the user's         *)
(* cancellation, the timeout and the failures of sockets and files race to *)
(* settle it.                                                              *)
(*                                                                         *)
(* A header is its lower-case name: no value matters here.  Userinfo of a  *)
(* URL is "user" when it is what the user typed, "server" when a redirect  *)
(* location brought its own.  Bytes are counted in blocks.  The status     *)
(* 301 stands for 302 too, and 307 for 308: the code tells neither apart.  *)
(***************************************************************************)
EXTENDS Integers, Sequences

CONSTANTS
  Origins,       \* scheme, host and port of the URLs requests may reach
  Home,          \* the origin of the URL the user typed
  Requests,      \* the effective requests an execution may be given
  MaxRedirects,  \* HttpClientOptions.maxRedirects
  MaxBytes,      \* settings.maxResponseBytes, in blocks
  MaxLayers      \* bound: content encodings of a response

ASSUME HomeIsOrigin == Home \in Origins
ASSUME RedirectLimit == MaxRedirects \in Nat
ASSUME ByteLimit == MaxBytes \in Nat
ASSUME LayerBound == MaxLayers \in Nat

Methods == {"GET", "HEAD", "POST", "PUT"}

AlwaysSensitive == {"authorization", "cookie", "x-api-key"}
BodyHeaders == {"content-length", "content-type", "transfer-encoding"}
HeaderNames == AlwaysSensitive \cup BodyHeaders \cup {"host", "key", "accept"}

(***************************************************************************)
(* A request after preparation.  auth = "apiKey" is an API key in the      *)
(* header "key"; files are the rows of the body that send a local file.    *)
(***************************************************************************)
RequestType ==
  [method : Methods, userinfo : {"none", "user"}, headers : SUBSET HeaderNames,
   auth : {"none", "apiKey"}, body : {"none", "text", "form", "file"},
   files : Nat, followRedirects : BOOLEAN]

ASSUME RequestsAreTyped ==
  \A r \in Requests :
    /\ r \in RequestType
    /\ r.body \in {"none", "text"} => r.files = 0
    /\ r.body = "file" => r.files = 1

VARIABLES
  request,    \* the request given to execute
  stage,      \* what the execution awaits
  cancelled,  \* ExecutionState.cancelled
  timedOut,   \* ExecutionState.timedOut
  unread,     \* files of the body still to be read
  hop,        \* the hop under way: URL, method, headers and body
  redirects,  \* ExecutionState.redirects
  bare,       \* hasNoContent of the response being received
  received,   \* receivedBytes
  layers,     \* content encodings still to be undone, last applied first
  decoding,   \* decodeBody is under way (it may outlive the execution)
  held,       \* responseBody is defined
  outcome,    \* type of the result
  sent        \* history: the hops made

control == <<stage, outcome, held>>
vars == <<request, cancelled, timedOut, unread, hop, redirects, bare, received,
          layers, decoding, sent, control>>

Stages == {"idle", "building", "waiting", "receiving", "decoding", "settled"}

Outcomes == {"none", "response", "timeout", "aborted", "socket", "network", "redirect",
             "response-too-large", "decompression", "invalid-response", "invalid-url"}

Hop == [origin : Origins, userinfo : {"none", "user", "server"}, method : Methods,
        headers : SUBSET HeaderNames, body : BOOLEAN]

Encodings == {"identity", "compressed", "unsupported"}

TypeOK ==
  /\ request \in Requests
  /\ stage \in Stages /\ outcome \in Outcomes
  /\ cancelled \in BOOLEAN /\ timedOut \in BOOLEAN /\ ~(cancelled /\ timedOut)
  /\ unread \in Nat /\ redirects \in 0 .. MaxRedirects
  /\ hop \in Hop /\ sent \in Seq(Hop) /\ Len(sent) <= redirects + 1
  /\ bare \in BOOLEAN /\ decoding \in BOOLEAN /\ held \in BOOLEAN
  /\ received \in 0 .. MaxBytes + 1
  /\ layers \in Seq(Encodings)
  /\ (outcome = "none") = (stage # "settled")

-----------------------------------------------------------------------------
(* Headers and redirects *)

(***************************************************************************)
(* normalizeHeaders and buildHeaders: the headers of the first hop.        *)
(***************************************************************************)
FirstHeaders(r) ==
  LET own == r.headers \ ({"content-length", "transfer-encoding"}
                            \cup IF r.body = "form" THEN {"content-type"} ELSE {})
  IN IF r.body = "none" THEN own ELSE own \cup {"content-type", "content-length"}

FirstHop(r) ==
  [origin |-> Home, userinfo |-> r.userinfo, method |-> r.method,
   headers |-> FirstHeaders(r), body |-> r.body # "none"]

SensitiveHeaders(r) == AlwaysSensitive \cup IF r.auth = "apiKey" THEN {"key"} ELSE {}

Redirected == {301, 303, 307}

(***************************************************************************)
(* redirectTransition: does the next hop drop the body, with which method. *)
(***************************************************************************)
DropsBody(status, method) == status = 303 \/ (status = 301 /\ method = "POST")

NextMethod(status, method) ==
  IF ~DropsBody(status, method) \/ (status = 303 /\ method = "HEAD") THEN method ELSE "GET"

(***************************************************************************)
(* A fault in the redirect: credentials are stripped at the second change  *)
(* of origin only.                                                         *)
(***************************************************************************)
StripsLate(h, location) == h.origin # Home /\ location.origin # h.origin

(***************************************************************************)
(* Credentials are stripped whenever a redirect leaves the current origin. *)
(***************************************************************************)
Strips(h, location) == location.origin # h.origin

WithoutBody(status, h) ==
  IF DropsBody(status, h.method) THEN h.headers \ BodyHeaders ELSE h.headers

(***************************************************************************)
(* Where a Location header may lead: a relative one keeps the origin and   *)
(* the userinfo of the current URL, an absolute one has its own or none.   *)
(***************************************************************************)
Locations(h) ==
  [origin : Origins, userinfo : {"none", "server"}] \cup
    {[origin |-> h.origin, userinfo |-> h.userinfo]}

NextHop(h, status, location) ==
  LET headers == WithoutBody(status, h)
  IN [origin   |-> location.origin,
      userinfo |-> IF Strips(h, location) THEN "none" ELSE location.userinfo,
      method   |-> NextMethod(status, h.method),
      headers  |-> IF Strips(h, location)
                     THEN headers \ (SensitiveHeaders(request) \cup {"host"})
                     ELSE headers,
      body     |-> h.body /\ ~DropsBody(status, h.method)]

-----------------------------------------------------------------------------
(* Settling *)

Aborted == cancelled \/ timedOut

AbortError == IF timedOut THEN "timeout" ELSE "aborted"

Settle(kind) ==
  /\ stage' = "settled" /\ outcome' = kind
  /\ held' = (kind = "response")

(***************************************************************************)
(* What a step leaves alone that is not about the body of the response.    *)
(***************************************************************************)
SameFlags == UNCHANGED <<request, cancelled, timedOut>>
SameHop == UNCHANGED <<unread, hop, redirects, sent>>
SameResponse == UNCHANGED <<bare, received, layers, decoding>>

Open(h) ==
  /\ stage' = "waiting" /\ hop' = h /\ sent' = Append(sent, h)
  /\ UNCHANGED <<outcome, held>>

-----------------------------------------------------------------------------
(* Building the body *)

(***************************************************************************)
(* execute up to its first await.                                          *)
(***************************************************************************)
Start ==
  /\ stage = "idle"
  /\ IF request.files = 0
       THEN /\ Open(FirstHop(request)) /\ UNCHANGED <<unread, redirects>>
       ELSE /\ stage' = "building" /\ unread' = request.files
            /\ UNCHANGED <<outcome, held, hop, redirects, sent>>
  /\ SameFlags /\ SameResponse

(***************************************************************************)
(* The request has no valid URL, a header or a field is refused.           *)
(***************************************************************************)
StartFails(kind) ==
  /\ stage = "idle" /\ kind \in {"invalid-url", "invalid-response"}
  /\ Settle(kind) /\ SameFlags /\ SameHop /\ SameResponse

(***************************************************************************)
(* fileBytes: the file is read, or is refused: not selected, changed, too  *)
(* large, or the body as a whole is.  An abort is looked at first.         *)
(***************************************************************************)
FileRead(ok) ==
  /\ stage = "building"
  /\ IF Aborted THEN Settle(AbortError) /\ SameHop
     ELSE IF ~ok THEN Settle("invalid-response") /\ SameHop
     ELSE /\ unread' = unread - 1 /\ UNCHANGED redirects
          /\ IF unread = 1 THEN Open(FirstHop(request))
                           ELSE UNCHANGED <<control, hop, sent>>
  /\ SameFlags /\ SameResponse

-----------------------------------------------------------------------------
(* A hop.  Node delivers nothing of a response once the signal is aborted. *)

(***************************************************************************)
(* request.once('error') and the end of a response that is not complete.   *)
(***************************************************************************)
SocketFails(kind) ==
  /\ ~Aborted
  /\ \/ stage = "waiting" /\ kind \in {"network", "socket", "invalid-response"}
     \/ stage = "receiving" /\ kind \in {"socket", "invalid-response"}
  /\ Settle(kind) /\ SameFlags /\ SameHop /\ SameResponse

(***************************************************************************)
(* The error event that an abort causes.  It may come, or not, while a     *)
(* response that has ended is being decompressed.                          *)
(***************************************************************************)
AbortStopsHop ==
  /\ Aborted /\ stage \in {"waiting", "receiving", "decoding"}
  /\ Settle(AbortError) /\ SameFlags /\ SameHop /\ SameResponse

(***************************************************************************)
(* A redirect the settings follow: over the limit, to a location that is   *)
(* no bounded HTTP URL, or on to the next hop.                             *)
(***************************************************************************)
FollowRedirect(status, location) ==
  /\ stage = "waiting" /\ ~Aborted /\ request.followRedirects
  /\ redirects < MaxRedirects
  /\ redirects' = redirects + 1
  /\ Open(NextHop(hop, status, location))
  /\ UNCHANGED unread /\ SameFlags /\ SameResponse

RefuseRedirect ==
  /\ stage = "waiting" /\ ~Aborted /\ request.followRedirects
  /\ Settle("redirect") /\ SameFlags /\ SameHop /\ SameResponse

(***************************************************************************)
(* The headers of the response that is to be shown.                        *)
(***************************************************************************)
ResponseBegins(noContent) ==
  /\ stage = "waiting" /\ ~Aborted
  /\ hop.method = "HEAD" => noContent
  /\ stage' = "receiving" /\ bare' = noContent /\ received' = 0
  /\ UNCHANGED <<outcome, held, layers, decoding>> /\ SameFlags /\ SameHop

DeclaredTooLarge ==
  /\ stage = "waiting" /\ ~Aborted /\ hop.method # "HEAD"
  /\ Settle("response-too-large") /\ SameFlags /\ SameHop /\ SameResponse

(***************************************************************************)
(* One more block of the body, of whatever length was declared.            *)
(***************************************************************************)
Data ==
  /\ stage = "receiving" /\ ~Aborted /\ hop.method # "HEAD"
  /\ received' = received + 1
  /\ IF received' > MaxBytes THEN Settle("response-too-large") ELSE UNCHANGED control
  /\ UNCHANGED <<bare, layers, decoding>> /\ SameFlags /\ SameHop

(***************************************************************************)
(* The encodings decodeBody has to undo: none for a response that has no   *)
(* content by its method or status, whatever its headers say.              *)
(***************************************************************************)
LayersOf(noContent, named) == IF noContent THEN <<>> ELSE named

Ended(named) ==
  /\ stage = "receiving" /\ ~Aborted
  /\ stage' = "decoding" /\ decoding' = TRUE
  /\ layers' = LayersOf(bare, named)
  /\ UNCHANGED <<outcome, held, bare, received>> /\ SameFlags /\ SameHop

(***************************************************************************)
(* responseHeaders refuses too many or oversized headers.                  *)
(***************************************************************************)
HeadersRefused ==
  /\ stage = "receiving" /\ ~Aborted
  /\ Settle("invalid-response") /\ SameFlags /\ SameHop /\ SameResponse

-----------------------------------------------------------------------------
(* Decoding.  It goes on when the execution has been settled meanwhile;    *)
(* finish then ignores what comes of it.                                   *)

Finish(kind) == IF stage = "settled" THEN UNCHANGED control ELSE Settle(kind)

Decompress(size) ==
  /\ decoding /\ layers # <<>> /\ Head(layers) # "unsupported"
  /\ Head(layers) = "identity" => size = received
  /\ received' = size /\ layers' = Tail(layers)
  /\ UNCHANGED <<control, bare, decoding>> /\ SameFlags /\ SameHop

DecompressFails(kind) ==
  /\ decoding /\ layers # <<>> /\ Head(layers) # "identity"
  /\ \/ kind = "decompression"
     \/ kind = "response-too-large" /\ Head(layers) = "compressed"
  /\ decoding' = FALSE
  /\ Finish(kind) /\ UNCHANGED <<bare, received, layers>> /\ SameFlags /\ SameHop

(***************************************************************************)
(* A fault in the last step, for HeldIsComplete: an abort that came while  *)
(* the body was being decompressed is not looked at.                       *)
(***************************************************************************)
DecodedUnchecked ==
  /\ decoding /\ layers = <<>>
  /\ decoding' = FALSE
  /\ Finish("response")
  /\ UNCHANGED <<bare, received, layers>> /\ SameFlags /\ SameHop

(***************************************************************************)
(* The body is decoded: it is kept and the response resolved, unless the   *)
(* execution was settled or aborted meanwhile.                             *)
(***************************************************************************)
Decoded ==
  /\ decoding /\ layers = <<>>
  /\ decoding' = FALSE
  /\ Finish(IF Aborted THEN AbortError
            ELSE IF received > MaxBytes THEN "response-too-large" ELSE "response")
  /\ UNCHANGED <<bare, received, layers>> /\ SameFlags /\ SameHop

-----------------------------------------------------------------------------
(* The user and the timer *)

UnderWay == stage \notin {"idle", "settled"}

(***************************************************************************)
(* A fault, for Settles: the timer is cleared when the response begins.    *)
(***************************************************************************)

TimeOutUntilResponse ==
  /\ stage \in {"building", "waiting"} /\ ~Aborted
  /\ timedOut' = TRUE
  /\ UNCHANGED <<request, cancelled, control>> /\ SameHop /\ SameResponse

(***************************************************************************)
(* cancel and the timer abort the signal once, whichever comes first.      *)
(***************************************************************************)
Cancel ==
  /\ UnderWay /\ ~Aborted
  /\ cancelled' = TRUE
  /\ UNCHANGED <<request, timedOut, control>> /\ SameHop /\ SameResponse

TimeOut ==
  /\ UnderWay /\ ~Aborted
  /\ timedOut' = TRUE
  /\ UNCHANGED <<request, cancelled, control>> /\ SameHop /\ SameResponse

-----------------------------------------------------------------------------
Init ==
  /\ request \in Requests
  /\ stage = "idle" /\ outcome = "none" /\ held = FALSE
  /\ cancelled = FALSE /\ timedOut = FALSE
  /\ unread = 0 /\ redirects = 0
  /\ hop = FirstHop(request) /\ sent = <<>>
  /\ bare = FALSE /\ received = 0 /\ layers = <<>> /\ decoding = FALSE

Server ==
  \/ \E status \in Redirected, location \in Locations(hop) : FollowRedirect(status, location)
  \/ RefuseRedirect \/ DeclaredTooLarge \/ Data \/ HeadersRefused
  \/ \E noContent \in BOOLEAN : ResponseBegins(noContent)
  \/ \E n \in 0 .. MaxLayers : \E named \in [1 .. n -> Encodings] : Ended(named)

Decoder ==
  \/ \E size \in 0 .. MaxBytes : Decompress(size)
  \/ \E kind \in Outcomes : DecompressFails(kind)
  \/ Decoded

Next ==
  \/ Start \/ (\E kind \in Outcomes : StartFails(kind) \/ SocketFails(kind))
  \/ (\E ok \in BOOLEAN : FileRead(ok))
  \/ Server \/ Decoder \/ AbortStopsHop \/ Cancel \/ TimeOut

(***************************************************************************)
(* The timer fires, an abort is reported, a read file and a decompression  *)
(* come to an end.  The server owes nothing.                               *)
(***************************************************************************)
Fairness ==
  /\ WF_vars(TimeOut) /\ WF_vars(Decoder)
  /\ WF_vars(stage # "decoding" /\ AbortStopsHop)
  /\ WF_vars(\E ok \in BOOLEAN : FileRead(ok))

Spec == Init /\ [][Next]_vars /\ Fairness

-----------------------------------------------------------------------------
(* Properties *)

(***************************************************************************)
(* "Credentials and cookies stripped on cross-origin redirects": what the  *)
(* user's credentials, cookies and Host header travel with goes to the     *)
(* origin the user typed, and to it only as long as no redirect has led    *)
(* elsewhere, however the chain of redirects comes back.                   *)
(***************************************************************************)
CredentialsStayHome ==
  \A i \in DOMAIN sent :
    \/ sent[i].userinfo = "user"
    \/ sent[i].headers \cap (SensitiveHeaders(request) \cup {"host"}) # {}
    => \A j \in 1 .. i : sent[j].origin = Home

(***************************************************************************)
(* "Method-aware redirects": a hop has a body exactly when its headers     *)
(* describe one, and a hop whose method a redirect has rewritten, or that  *)
(* follows such a hop, has none.                                           *)
(***************************************************************************)
BodyIsDescribed ==
  \A i \in DOMAIN sent :
    /\ sent[i].body <=> "content-length" \in sent[i].headers
    /\ "transfer-encoding" \notin sent[i].headers
    /\ sent[i].method # request.method =>
         \A j \in i .. Len(sent) : ~sent[j].body /\ "content-type" \notin sent[j].headers

(***************************************************************************)
(* Wherever a chain of redirects leads and whatever it makes of the        *)
(* method, what is sent is meant for its origin and describes itself.      *)
(***************************************************************************)
RedirectsAreSafe == CredentialsStayHome /\ BodyIsDescribed

(***************************************************************************)
(* "Failed, cancelled, incomplete, over-limit or invalid compressed        *)
(* responses cannot be downloaded as if they were complete": a body is     *)
(* kept only for an execution nothing has stopped, within the limit before *)
(* and after decompression, and not while an encoding remains.             *)
(***************************************************************************)
HeldIsComplete ==
  /\ stage \in {"receiving", "decoding"} => received <= MaxBytes
  /\ held => /\ outcome = "response" /\ ~Aborted
             /\ received <= MaxBytes /\ layers = <<>> /\ ~decoding

(***************************************************************************)
(* "Complete 4xx/5xx and empty/HEAD/no-content responses can also be       *)
(* saved": a response without content never fails for its encoding.        *)
(***************************************************************************)
EmptyIsDecodable ==
  outcome = "decompression" => ~bare /\ hop.method # "HEAD"

(***************************************************************************)
(* What can be saved is all that the server sent, and what had nothing to  *)
(* send can be saved.                                                      *)
(***************************************************************************)
ResponsesAreComplete == HeldIsComplete /\ EmptyIsDecodable

(***************************************************************************)
(* Every execution settles, whatever the server does or leaves undone, and *)
(* whichever of timeout, cancellation, error and end of data comes first.  *)
(***************************************************************************)
Settles == [](stage # "idle" => <>(stage = "settled"))
=============================================================================
