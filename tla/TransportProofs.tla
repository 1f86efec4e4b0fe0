--------------------------- MODULE TransportProofs ---------------------------
(***************************************************************************)
(* Proofs about Transport, and HttpClient within it, for any origins,      *)
(* requests, redirect and byte limits, files and selections, and any chain *)
(* of redirects and answers.                                               *)
(***************************************************************************)
EXTENDS Transport, TLAPS

-----------------------------------------------------------------------------
(* The invariant of the client *)

(***************************************************************************)
(* What has happened by each stage: nothing is sent before the body is     *)
(* built, the hop under way is the last one sent, and only a response that *)
(* has ended is being decoded.                                             *)
(***************************************************************************)
Progress ==
  /\ stage = "building" => unread # 0
  /\ stage \in {"idle", "building"} => sent = <<>>
  /\ stage \in {"waiting", "receiving", "decoding"} => sent # <<>>
  /\ sent # <<>> => hop = sent[Len(sent)]
  /\ decoding => stage \in {"decoding", "settled"}

(***************************************************************************)
(* A response without content is known to have none, and has no encoding   *)
(* to be undone.                                                           *)
(***************************************************************************)
BareIsKnown ==
  /\ stage = "receiving" => (hop.method = "HEAD" => bare)
  /\ decoding /\ layers # <<>> => ~bare /\ hop.method # "HEAD"

ClientInv ==
  TypeOK /\ Progress /\ BareIsKnown /\ CredentialsStayHome /\ BodyIsDescribed /\ ResponsesAreComplete

-----------------------------------------------------------------------------
(* What the operators of a hop give *)

(***************************************************************************)
(* The first hop is meant for the origin the user typed, and its headers   *)
(* describe its body.                                                      *)
(***************************************************************************)
LEMMA FirstHopIsSafe ==
  ASSUME NEW r \in Requests
  PROVE  /\ FirstHop(r) \in Hop
         /\ FirstHop(r).origin = Home /\ FirstHop(r).method = r.method
         /\ FirstHop(r).body <=> "content-length" \in FirstHop(r).headers
         /\ "transfer-encoding" \notin FirstHop(r).headers
<1>1. /\ r.method \in Methods /\ r.headers \in SUBSET HeaderNames
      /\ r.userinfo \in {"none", "user"}
  BY RequestsAreTyped DEF RequestType
<1>2. FirstHeaders(r) \in SUBSET HeaderNames
  BY <1>1 DEF FirstHeaders, HeaderNames, BodyHeaders
<1>3. /\ (r.body # "none") <=> "content-length" \in FirstHeaders(r)
      /\ "transfer-encoding" \notin FirstHeaders(r)
  BY DEF FirstHeaders
<1> QED
  BY <1>1, <1>2, <1>3, HomeIsOrigin DEF FirstHop, Hop

(***************************************************************************)
(* A redirect leads to a hop; to another origin it takes no credentials    *)
(* along, to the same one only those the hop had.                          *)
(***************************************************************************)
LEMMA NextHopTakes ==
  ASSUME NEW h \in Hop, NEW status \in Redirected, NEW location \in Locations(h)
  PROVE  LET n == NextHop(h, status, location)
         IN /\ n \in Hop
            /\ n.origin # h.origin =>
                 n.userinfo # "user" /\ n.headers \cap (SensitiveHeaders(request) \cup {"host"}) = {}
            /\ n.userinfo = "user" => h.userinfo = "user"
            /\ n.headers \subseteq h.headers
<1> DEFINE n == NextHop(h, status, location)
<1>1. /\ h.origin \in Origins /\ h.headers \in SUBSET HeaderNames
      /\ h.method \in Methods /\ h.body \in BOOLEAN
      /\ h.userinfo \in {"none", "user", "server"}
  BY DEF Hop
<1>2. /\ location.origin \in Origins /\ location.userinfo \in {"none", "user", "server"}
      /\ location.userinfo = "user" => h.userinfo = "user"
  BY <1>1 DEF Locations
<1>3. NextMethod(status, h.method) \in Methods
  BY <1>1 DEF NextMethod, Methods
<1>4. WithoutBody(status, h) \subseteq h.headers
  BY DEF WithoutBody
<1>5. /\ n.origin = location.origin
      /\ n.userinfo = IF location.origin # h.origin THEN "none" ELSE location.userinfo
      /\ n.headers = IF location.origin # h.origin
                       THEN WithoutBody(status, h) \ (SensitiveHeaders(request) \cup {"host"})
                       ELSE WithoutBody(status, h)
  BY DEF NextHop, Strips
<1>6. n \in Hop
  BY <1>1, <1>2, <1>3, <1>4 DEF NextHop, Hop, Strips
<1> QED
  BY <1>2, <1>4, <1>5, <1>6

(***************************************************************************)
(* A redirect keeps body and headers in step, and drops both when it       *)
(* changes the method.                                                     *)
(***************************************************************************)
LEMMA NextHopDescribes ==
  ASSUME NEW h \in Hop, NEW status \in Redirected, NEW location \in Locations(h),
         h.body <=> "content-length" \in h.headers, "transfer-encoding" \notin h.headers
  PROVE  LET n == NextHop(h, status, location)
         IN /\ n.body <=> "content-length" \in n.headers
            /\ "transfer-encoding" \notin n.headers
            /\ n.method # h.method => ~n.body /\ "content-type" \notin n.headers
            /\ ~h.body => ~n.body
<1> DEFINE n == NextHop(h, status, location)
<1>1. /\ n.body = (h.body /\ ~DropsBody(status, h.method))
      /\ n.method = NextMethod(status, h.method)
      /\ n.headers = IF Strips(h, location)
                       THEN WithoutBody(status, h) \ (SensitiveHeaders(request) \cup {"host"})
                       ELSE WithoutBody(status, h)
  BY DEF NextHop
<1>2. h.body \in BOOLEAN
  BY DEF Hop
<1>3. {"content-length", "content-type"} \cap (SensitiveHeaders(request) \cup {"host"}) = {}
  BY DEF SensitiveHeaders, AlwaysSensitive
<1>4. CASE DropsBody(status, h.method)
  <2>1. WithoutBody(status, h) = h.headers \ BodyHeaders
    BY <1>4 DEF WithoutBody
  <2> QED
    BY <1>1, <1>4, <2>1 DEF BodyHeaders
<1>5. CASE ~DropsBody(status, h.method)
  <2>1. WithoutBody(status, h) = h.headers /\ n.method = h.method
    BY <1>1, <1>5 DEF WithoutBody, NextMethod
  <2> QED
    BY <1>1, <1>2, <1>3, <1>5, <2>1
<1> QED
  BY <1>4, <1>5

-----------------------------------------------------------------------------
(* Init and every step of the client keep the invariant *)

LEMMA ClientInit == Init => ClientInv
<1> SUFFICES ASSUME Init PROVE ClientInv
  OBVIOUS
<1>1. hop \in Hop
  BY FirstHopIsSafe DEF Init
<1>2. sent \in Seq(Hop) /\ Len(sent) = 0 /\ DOMAIN sent = {} /\ layers \in Seq(Encodings)
  BY DEF Init
<1>3. TypeOK
  <2>1. /\ request \in Requests /\ stage \in Stages /\ outcome \in Outcomes
        /\ (outcome = "none") = (stage # "settled")
    BY DEF Init, Stages, Outcomes
  <2>2. /\ cancelled \in BOOLEAN /\ timedOut \in BOOLEAN /\ ~(cancelled /\ timedOut)
        /\ bare \in BOOLEAN /\ decoding \in BOOLEAN /\ held \in BOOLEAN
    BY DEF Init
  <2>3. /\ unread \in Nat /\ redirects \in 0 .. MaxRedirects /\ received \in 0 .. MaxBytes + 1
        /\ Len(sent) <= redirects + 1
    BY <1>2, RedirectLimit, ByteLimit DEF Init
  <2> QED
    BY <1>1, <1>2, <2>1, <2>2, <2>3 DEF TypeOK
<1>4. Progress /\ BareIsKnown
  BY DEF Init, Progress, BareIsKnown
<1>5. CredentialsStayHome /\ BodyIsDescribed
  BY <1>2 DEF CredentialsStayHome, BodyIsDescribed
<1>6. ResponsesAreComplete
  BY DEF Init, ResponsesAreComplete, HeldIsComplete, EmptyIsDecodable
<1> QED
  BY <1>3, <1>4, <1>5, <1>6 DEF ClientInv

(***************************************************************************)
(* A redirect extends a safe chain by a safe hop: what still travels with  *)
(* credentials has never left the origin, and what once lost its body does *)
(* not get it back.                                                        *)
(***************************************************************************)
LEMMA RedirectStaysSafe ==
  ASSUME ClientInv, NEW status \in Redirected, NEW location \in Locations(hop),
         FollowRedirect(status, location)
  PROVE  CredentialsStayHome' /\ BodyIsDescribed'
<1> DEFINE h == NextHop(hop, status, location)
           n == Len(sent)
<1>1. /\ hop \in Hop /\ sent \in Seq(Hop) /\ n \in Nat /\ DOMAIN sent = 1 .. n
      /\ n # 0 /\ hop = sent[n] /\ request' = request /\ sent' = Append(sent, h)
  BY DEF ClientInv, TypeOK, Progress, FollowRedirect, Open, SameFlags
<1>2. /\ DOMAIN sent' = 1 .. n + 1 /\ Len(sent') = n + 1
      /\ \A i \in 1 .. n : sent'[i] = sent[i]
      /\ sent'[n + 1] = h
  BY <1>1, NextHopTakes
<1>3. CredentialsStayHome'
  <2> SUFFICES ASSUME NEW i \in 1 .. n + 1, NEW j \in 1 .. i,
                      \/ sent'[i].userinfo = "user"
                      \/ sent'[i].headers \cap (SensitiveHeaders(request) \cup {"host"}) # {}
               PROVE  sent'[j].origin = Home
    BY <1>1, <1>2 DEF CredentialsStayHome, SensitiveHeaders
  <2>1. CASE i \in 1 .. n
    BY <1>1, <1>2, <2>1 DEF ClientInv, CredentialsStayHome
  <2>2. CASE i = n + 1
    <3>1. /\ h.origin = hop.origin
          /\ \/ hop.userinfo = "user"
             \/ hop.headers \cap (SensitiveHeaders(request) \cup {"host"}) # {}
      BY <1>1, <1>2, <2>2, NextHopTakes
    <3>2. \A k \in 1 .. n : sent[k].origin = Home
      BY <1>1, <3>1 DEF ClientInv, CredentialsStayHome
    <3> QED
      BY <1>1, <1>2, <2>2, <3>1, <3>2
  <2> QED
    BY <2>1, <2>2, <1>1
<1>4. /\ hop.body <=> "content-length" \in hop.headers
      /\ "transfer-encoding" \notin hop.headers
  BY <1>1 DEF ClientInv, BodyIsDescribed
<1>5. /\ h.body <=> "content-length" \in h.headers
      /\ "transfer-encoding" \notin h.headers
      /\ h.method # hop.method => ~h.body /\ "content-type" \notin h.headers
      /\ ~hop.body => ~h.body
      /\ h.headers \subseteq hop.headers
  BY <1>1, <1>4, NextHopDescribes, NextHopTakes
<1>6. \A i \in 1 .. n : sent[i].method # request.method => ~h.body /\ "content-type" \notin h.headers
  BY <1>1, <1>5 DEF ClientInv, BodyIsDescribed
<1>7. BodyIsDescribed'
  <2> SUFFICES ASSUME NEW i \in 1 .. n + 1
               PROVE  /\ sent'[i].body <=> "content-length" \in sent'[i].headers
                      /\ "transfer-encoding" \notin sent'[i].headers
                      /\ sent'[i].method # request.method =>
                           \A j \in i .. n + 1 : ~sent'[j].body /\ "content-type" \notin sent'[j].headers
    BY <1>1, <1>2 DEF BodyIsDescribed
  <2>1. CASE i \in 1 .. n
    BY <1>1, <1>2, <1>6, <2>1 DEF ClientInv, BodyIsDescribed
  <2>2. CASE i = n + 1
    <3>1. h.method # request.method => ~h.body /\ "content-type" \notin h.headers
      BY <1>1, <1>5, <1>6
    <3> QED
      BY <1>1, <1>2, <1>5, <2>2, <3>1
  <2> QED
    BY <2>1, <2>2, <1>1
<1> QED
  BY <1>3, <1>7

(***************************************************************************)
(* The first hop, once there is a body to send with it.                    *)
(***************************************************************************)
LEMMA FirstSentIsSafe ==
  ASSUME ClientInv, sent = <<>>, request' = request, Open(FirstHop(request))
  PROVE  /\ hop' \in Hop /\ sent' \in Seq(Hop) /\ Len(sent') = 1
         /\ sent' # <<>> /\ hop' = sent'[Len(sent')]
         /\ CredentialsStayHome' /\ BodyIsDescribed'
<1> DEFINE h == FirstHop(request)
<1>1. /\ h \in Hop /\ h.origin = Home /\ h.method = request.method
      /\ h.body <=> "content-length" \in h.headers
      /\ "transfer-encoding" \notin h.headers
  BY FirstHopIsSafe DEF ClientInv, TypeOK
<1>2. hop' = h /\ sent' = <<h>>
  BY DEF Open
<1>3. sent' \in Seq(Hop) /\ Len(sent') = 1 /\ DOMAIN sent' = {1} /\ sent'[1] = h
  BY <1>1, <1>2
<1>4. CredentialsStayHome'
  BY <1>1, <1>3 DEF CredentialsStayHome
<1>5. BodyIsDescribed'
  BY <1>1, <1>3 DEF BodyIsDescribed
<1> QED
  BY <1>1, <1>2, <1>3, <1>4, <1>5

(***************************************************************************)
(* A step that sends nothing leaves the chain of hops as it is.            *)
(***************************************************************************)
LEMMA ChainStays ==
  ASSUME ClientInv, request' = request, sent' = sent
  PROVE  CredentialsStayHome' /\ BodyIsDescribed'
BY DEF ClientInv, CredentialsStayHome, BodyIsDescribed, SensitiveHeaders

(***************************************************************************)
(* An execution may settle with an error at any time before it has.        *)
(***************************************************************************)
LEMMA ErrorSettles ==
  ASSUME ClientInv, NEW kind \in Outcomes \ {"none", "response"}, Settle(kind),
         stage # "settled", SameFlags, SameHop, UNCHANGED <<bare, layers>>,
         decoding' \in BOOLEAN, decoding' => decoding, received' \in 0 .. MaxBytes + 1,
         kind = "decompression" => ~bare /\ hop.method # "HEAD"
  PROVE  ClientInv'
<1>1. TypeOK'
  BY DEF ClientInv, TypeOK, Settle, SameFlags, SameHop, Stages
<1>2. Progress' /\ BareIsKnown'
  BY DEF ClientInv, Progress, BareIsKnown, Settle, SameFlags, SameHop
<1>3. CredentialsStayHome' /\ BodyIsDescribed'
  BY ChainStays DEF SameFlags, SameHop
<1>4. ResponsesAreComplete'
  BY DEF Settle, SameHop, ResponsesAreComplete, HeldIsComplete, EmptyIsDecodable
<1> QED
  BY <1>1, <1>2, <1>3, <1>4 DEF ClientInv

(***************************************************************************)
(* Nothing at all happens to the client.                                   *)
(***************************************************************************)
LEMMA ClientStutters == ClientInv /\ UNCHANGED vars => ClientInv'
<1> SUFFICES ASSUME ClientInv, UNCHANGED vars PROVE ClientInv'
  OBVIOUS
<1>1. TypeOK' /\ Progress' /\ BareIsKnown' /\ ResponsesAreComplete'
  BY DEF ClientInv, TypeOK, Progress, BareIsKnown, ResponsesAreComplete, HeldIsComplete,
         EmptyIsDecodable, Aborted, vars, control
<1>2. CredentialsStayHome' /\ BodyIsDescribed'
  BY ChainStays DEF vars
<1> QED
  BY <1>1, <1>2 DEF ClientInv

-----------------------------------------------------------------------------
(* Every action keeps the invariant *)

LEMMA StartKeeps == ClientInv /\ Start => ClientInv'
<1> SUFFICES ASSUME ClientInv, Start PROVE ClientInv'
  OBVIOUS
<1> USE DEF SameFlags, SameResponse
<1>1. sent = <<>> /\ stage = "idle" /\ request' = request /\ request.files \in Nat
  BY RequestsAreTyped DEF ClientInv, TypeOK, Progress, Start, RequestType
<1>2. ~decoding /\ ~held /\ outcome = "none"
  BY <1>1 DEF ClientInv, TypeOK, Progress, ResponsesAreComplete, HeldIsComplete
<1>3. CASE request.files = 0
  <2>1. Open(FirstHop(request)) /\ UNCHANGED <<unread, redirects>>
    BY <1>3 DEF Start
  <2>2. /\ hop' \in Hop /\ sent' \in Seq(Hop) /\ Len(sent') = 1
        /\ sent' # <<>> /\ hop' = sent'[Len(sent')]
        /\ CredentialsStayHome' /\ BodyIsDescribed'
    BY <1>1, <2>1, FirstSentIsSafe
  <2>3. TypeOK'
    BY <1>1, <1>2, <2>1, <2>2 DEF ClientInv, TypeOK, Start, Open, Stages
  <2>4. Progress' /\ BareIsKnown' /\ ResponsesAreComplete'
    BY <1>2, <2>1, <2>2 DEF Start, Open, Progress, BareIsKnown, ResponsesAreComplete,
       HeldIsComplete, EmptyIsDecodable
  <2> QED
    BY <2>2, <2>3, <2>4 DEF ClientInv
<1>4. CASE request.files # 0
  <2>1. /\ stage' = "building" /\ unread' = request.files
        /\ UNCHANGED <<outcome, held, hop, redirects, sent>>
    BY <1>4 DEF Start
  <2>2. TypeOK'
    BY <1>1, <1>2, <2>1 DEF ClientInv, TypeOK, Start, Stages
  <2>3. Progress' /\ BareIsKnown' /\ ResponsesAreComplete'
    BY <1>1, <1>2, <1>4, <2>1 DEF Start, Progress, BareIsKnown, ResponsesAreComplete,
       HeldIsComplete, EmptyIsDecodable
  <2> QED
    BY <1>1, <2>1, <2>2, <2>3, ChainStays DEF ClientInv
<1> QED
  BY <1>3, <1>4

LEMMA FileReadKeeps == ASSUME NEW ok \in BOOLEAN PROVE ClientInv /\ FileRead(ok) => ClientInv'
<1> SUFFICES ASSUME ClientInv, FileRead(ok) PROVE ClientInv'
  OBVIOUS
<1> USE DEF SameFlags, SameResponse
<1>1. /\ sent = <<>> /\ stage = "building" /\ request' = request /\ unread \in Nat \ {0}
      /\ ~decoding /\ ~held /\ outcome = "none"
  BY DEF ClientInv, TypeOK, Progress, FileRead, ResponsesAreComplete, HeldIsComplete
<1>2. CASE Aborted \/ ~ok
  <2>1. PICK kind \in {"timeout", "aborted", "invalid-response"} : Settle(kind) /\ SameHop
    BY <1>2 DEF FileRead, AbortError
  <2>2. kind \in Outcomes \ {"none", "response"}
    BY DEF Outcomes
  <2> QED
    BY <1>1, <2>1, <2>2, ErrorSettles DEF FileRead, ClientInv, TypeOK
<1>3. CASE ~Aborted /\ ok /\ unread = 1
  <2>1. Open(FirstHop(request)) /\ unread' = 0 /\ redirects' = redirects
    BY <1>3 DEF FileRead
  <2>2. /\ hop' \in Hop /\ sent' \in Seq(Hop) /\ Len(sent') = 1
        /\ sent' # <<>> /\ hop' = sent'[Len(sent')]
        /\ CredentialsStayHome' /\ BodyIsDescribed'
    BY <1>1, <2>1, FirstSentIsSafe
  <2>3. TypeOK'
    BY <1>1, <2>1, <2>2 DEF ClientInv, TypeOK, FileRead, Open, Stages
  <2>4. Progress' /\ BareIsKnown' /\ ResponsesAreComplete'
    BY <1>1, <2>1, <2>2 DEF FileRead, Open, Progress, BareIsKnown, ResponsesAreComplete,
       HeldIsComplete, EmptyIsDecodable
  <2> QED
    BY <2>2, <2>3, <2>4 DEF ClientInv
<1>4. CASE ~Aborted /\ ok /\ unread # 1
  <2>1. unread' = unread - 1 /\ UNCHANGED <<redirects, control, hop, sent>>
    BY <1>4 DEF FileRead
  <2>2. TypeOK'
    BY <1>1, <1>4, <2>1 DEF ClientInv, TypeOK, FileRead, control
  <2>3. Progress' /\ BareIsKnown' /\ ResponsesAreComplete'
    BY <1>1, <1>4, <2>1 DEF FileRead, control, Progress, BareIsKnown, ResponsesAreComplete,
       HeldIsComplete, EmptyIsDecodable
  <2> QED
    BY <1>1, <2>1, <2>2, <2>3, ChainStays DEF ClientInv
<1> QED
  BY <1>2, <1>3, <1>4

LEMMA FollowRedirectKeeps ==
  ASSUME ClientInv, NEW status \in Redirected, NEW location \in Locations(hop),
         FollowRedirect(status, location)
  PROVE  ClientInv'
<1> USE DEF SameFlags, SameResponse
<1> DEFINE h == NextHop(hop, status, location)
<1>1. /\ stage = "waiting" /\ sent # <<>> /\ request' = request
      /\ ~decoding /\ ~held /\ outcome = "none"
  BY DEF ClientInv, TypeOK, Progress, FollowRedirect, ResponsesAreComplete, HeldIsComplete
<1>2. h \in Hop
  BY NextHopTakes DEF ClientInv, TypeOK
<1>3. /\ hop' = h /\ sent' \in Seq(Hop) /\ Len(sent') = Len(sent) + 1
      /\ sent' # <<>> /\ hop' = sent'[Len(sent')]
  BY <1>2 DEF ClientInv, TypeOK, FollowRedirect, Open
<1>4. redirects' \in 0 .. MaxRedirects /\ Len(sent') <= redirects' + 1
  BY <1>3, RedirectLimit DEF ClientInv, TypeOK, FollowRedirect
<1>5. TypeOK'
  BY <1>1, <1>2, <1>3, <1>4 DEF ClientInv, TypeOK, FollowRedirect, Open, Stages
<1>6. Progress' /\ BareIsKnown' /\ ResponsesAreComplete'
  BY <1>1, <1>3 DEF FollowRedirect, Open, Progress, BareIsKnown, ResponsesAreComplete,
     HeldIsComplete, EmptyIsDecodable
<1> QED
  BY <1>5, <1>6, RedirectStaysSafe DEF ClientInv

LEMMA ErrorsKeep ==
  ASSUME ClientInv, NEW kind \in Outcomes,
         \/ StartFails(kind) \/ SocketFails(kind) \/ AbortStopsHop
         \/ RefuseRedirect \/ DeclaredTooLarge \/ HeadersRefused
  PROVE  ClientInv'
<1>1. PICK k \in Outcomes \ {"none", "response", "decompression"} :
        Settle(k) /\ SameFlags /\ SameHop /\ SameResponse
  BY DEF StartFails, SocketFails, AbortStopsHop, AbortError, RefuseRedirect, DeclaredTooLarge,
     HeadersRefused, Outcomes
<1>2. stage # "settled"
  BY DEF StartFails, SocketFails, AbortStopsHop, RefuseRedirect, DeclaredTooLarge, HeadersRefused
<1> QED
  BY <1>1, <1>2, ErrorSettles DEF ClientInv, TypeOK, SameResponse

LEMMA ResponseBeginsKeeps ==
  ASSUME ClientInv, NEW noContent \in BOOLEAN, ResponseBegins(noContent)
  PROVE  ClientInv'
<1> USE DEF SameFlags, SameHop
<1>1. stage = "waiting" /\ sent # <<>> /\ ~decoding /\ ~held /\ outcome = "none"
  BY DEF ClientInv, TypeOK, Progress, ResponseBegins, ResponsesAreComplete, HeldIsComplete
<1>2. TypeOK'
  BY <1>1, ByteLimit DEF ClientInv, TypeOK, ResponseBegins, Stages
<1>3. Progress' /\ BareIsKnown' /\ ResponsesAreComplete'
  BY <1>1, ByteLimit DEF ClientInv, ResponseBegins, Progress, BareIsKnown, ResponsesAreComplete,
     HeldIsComplete, EmptyIsDecodable
<1> QED
  BY <1>2, <1>3, ChainStays DEF ClientInv, ResponseBegins

LEMMA DataKeeps == ASSUME ClientInv, Data PROVE ClientInv'
<1> USE DEF SameFlags, SameHop
<1>1. /\ stage = "receiving" /\ sent # <<>> /\ ~decoding /\ ~held /\ outcome = "none"
      /\ received \in Nat /\ received <= MaxBytes /\ received' = received + 1
  BY ByteLimit DEF ClientInv, TypeOK, Progress, Data, ResponsesAreComplete, HeldIsComplete
<1>2. CASE received' > MaxBytes
  <2>1. /\ decoding' \in BOOLEAN /\ received' \in 0 .. MaxBytes + 1
        /\ UNCHANGED <<bare, layers, decoding>>
    BY <1>1, ByteLimit DEF Data, ClientInv, TypeOK
  <2>2. Settle("response-too-large") /\ "response-too-large" \in Outcomes
    BY <1>2 DEF Data, Outcomes
  <2> QED
    BY <1>1, <2>1, <2>2, ErrorSettles DEF Data
<1>3. CASE ~(received' > MaxBytes)
  <2>1. TypeOK'
    BY <1>1, <1>3, ByteLimit DEF ClientInv, TypeOK, Data, control
  <2>2. Progress' /\ BareIsKnown' /\ ResponsesAreComplete'
    BY <1>1, <1>3, ByteLimit DEF ClientInv, Data, control, Progress, BareIsKnown,
       ResponsesAreComplete, HeldIsComplete, EmptyIsDecodable
  <2> QED
    BY <2>1, <2>2, ChainStays DEF ClientInv, Data
<1> QED
  BY <1>2, <1>3

LEMMA EndedKeeps ==
  ASSUME ClientInv, NEW n \in 0 .. MaxLayers, NEW named \in [1 .. n -> Encodings], Ended(named)
  PROVE  ClientInv'
<1> USE DEF SameFlags, SameHop
<1>1. /\ stage = "receiving" /\ sent # <<>> /\ ~decoding /\ ~held /\ outcome = "none"
      /\ received <= MaxBytes
  BY DEF ClientInv, TypeOK, Progress, Ended, ResponsesAreComplete, HeldIsComplete
<1>2. layers' \in Seq(Encodings)
  <2>1. n \in Nat
    BY LayerBound
  <2>2. named \in Seq(Encodings)
    BY <2>1
  <2> QED
    BY <2>2 DEF Ended, LayersOf
<1>3. TypeOK'
  BY <1>1, <1>2 DEF ClientInv, TypeOK, Ended, Stages
<1>4. Progress' /\ BareIsKnown' /\ ResponsesAreComplete'
  BY <1>1 DEF ClientInv, Ended, LayersOf, Progress, BareIsKnown, ResponsesAreComplete,
     HeldIsComplete, EmptyIsDecodable
<1> QED
  BY <1>3, <1>4, ChainStays DEF ClientInv, Ended

LEMMA DecompressKeeps ==
  ASSUME ClientInv, NEW size \in 0 .. MaxBytes, Decompress(size)
  PROVE  ClientInv'
<1> USE DEF SameFlags, SameHop
<1>1. decoding /\ ~held /\ layers \in Seq(Encodings) /\ layers # <<>>
  BY DEF ClientInv, TypeOK, Decompress, ResponsesAreComplete, HeldIsComplete
<1>2. layers' \in Seq(Encodings)
  BY <1>1 DEF Decompress
<1>3. received' \in 0 .. MaxBytes + 1 /\ received' <= MaxBytes
  BY ByteLimit DEF Decompress
<1>4. TypeOK'
  BY <1>2, <1>3 DEF ClientInv, TypeOK, Decompress, control
<1>5. Progress' /\ BareIsKnown' /\ ResponsesAreComplete'
  BY <1>1, <1>3 DEF ClientInv, Decompress, control, Progress, BareIsKnown,
     ResponsesAreComplete, HeldIsComplete, EmptyIsDecodable
<1> QED
  BY <1>4, <1>5, ChainStays DEF ClientInv, Decompress

(***************************************************************************)
(* Decoding comes to its end after the execution has been settled: nothing *)
(* of the result changes.                                                  *)
(***************************************************************************)
LEMMA TooLateKeeps ==
  ASSUME ClientInv, stage = "settled", UNCHANGED <<control, bare, received, layers>>,
         decoding' = FALSE, SameFlags, SameHop
  PROVE  ClientInv'
<1> USE DEF SameFlags, SameHop
<1>1. TypeOK'
  BY DEF ClientInv, TypeOK, control
<1>2. Progress' /\ BareIsKnown' /\ ResponsesAreComplete'
  BY DEF ClientInv, control, Progress, BareIsKnown, ResponsesAreComplete, HeldIsComplete,
     EmptyIsDecodable, Aborted
<1> QED
  BY <1>1, <1>2, ChainStays DEF ClientInv

LEMMA DecompressFailsKeeps ==
  ASSUME ClientInv, NEW kind \in Outcomes, DecompressFails(kind)
  PROVE  ClientInv'
<1>1. /\ kind \in Outcomes \ {"none", "response"} /\ decoding' = FALSE
      /\ ~bare /\ hop.method # "HEAD"
      /\ UNCHANGED <<bare, received, layers>> /\ SameFlags /\ SameHop
  BY DEF ClientInv, BareIsKnown, DecompressFails
<1>2. CASE stage = "settled"
  BY <1>1, <1>2, TooLateKeeps DEF DecompressFails, Finish
<1>3. CASE stage # "settled"
  BY <1>1, <1>3, ErrorSettles DEF DecompressFails, Finish, ClientInv, TypeOK
<1> QED
  BY <1>2, <1>3

LEMMA DecodedKeeps == ASSUME ClientInv, Decoded PROVE ClientInv'
<1>1. /\ layers = <<>> /\ decoding' = FALSE
      /\ UNCHANGED <<bare, received, layers>> /\ SameFlags /\ SameHop
  BY DEF Decoded
<1>2. CASE stage = "settled"
  BY <1>1, <1>2, TooLateKeeps DEF Decoded, Finish
<1>3. CASE stage # "settled" /\ (Aborted \/ received > MaxBytes)
  <2>1. PICK kind \in {"timeout", "aborted", "response-too-large"} : Settle(kind)
    BY <1>3 DEF Decoded, Finish, AbortError
  <2>2. kind \in Outcomes \ {"none", "response"}
    BY DEF Outcomes
  <2> QED
    BY <1>1, <1>3, <2>1, <2>2, ErrorSettles DEF ClientInv, TypeOK
<1>4. CASE stage # "settled" /\ ~Aborted /\ ~(received > MaxBytes)
  <2> USE DEF SameFlags, SameHop
  <2>1. Settle("response")
    BY <1>4 DEF Decoded, Finish
  <2>2. TypeOK'
    BY <1>1, <2>1 DEF ClientInv, TypeOK, Settle, Stages, Outcomes
  <2>3. Progress' /\ BareIsKnown' /\ ResponsesAreComplete'
    BY <1>1, <1>4, <2>1, ByteLimit DEF ClientInv, TypeOK, Settle, Progress, BareIsKnown,
       ResponsesAreComplete, HeldIsComplete, EmptyIsDecodable, Aborted
  <2> QED
    BY <1>1, <2>2, <2>3, ChainStays DEF ClientInv
<1> QED
  BY <1>2, <1>3, <1>4

LEMMA AbortKeeps == ASSUME ClientInv, Cancel \/ TimeOut PROVE ClientInv'
<1> USE DEF SameHop, SameResponse
<1>1. /\ stage # "settled" /\ ~held /\ request' = request
      /\ UNCHANGED <<unread, hop, redirects, sent, bare, received, layers, decoding, control>>
  BY DEF Cancel, TimeOut, UnderWay, ClientInv, TypeOK, ResponsesAreComplete, HeldIsComplete
<1>2. /\ cancelled' \in BOOLEAN /\ timedOut' \in BOOLEAN /\ ~(cancelled' /\ timedOut')
  BY DEF Cancel, TimeOut, Aborted, ClientInv, TypeOK
<1>3. TypeOK'
  BY <1>1, <1>2 DEF ClientInv, TypeOK, control
<1>4. Progress' /\ BareIsKnown' /\ ResponsesAreComplete'
  BY <1>1 DEF ClientInv, control, Progress, BareIsKnown, ResponsesAreComplete, HeldIsComplete,
     EmptyIsDecodable
<1> QED
  BY <1>1, <1>3, <1>4, ChainStays DEF ClientInv

LEMMA ClientStep == ClientInv /\ [Next]_vars => ClientInv'
<1> SUFFICES ASSUME ClientInv, [Next]_vars PROVE ClientInv'
  OBVIOUS
<1>1. CASE Start
  BY <1>1, StartKeeps
<1>2. ASSUME NEW kind \in Outcomes, StartFails(kind) \/ SocketFails(kind) PROVE ClientInv'
  BY <1>2, ErrorsKeep
<1>3. ASSUME NEW ok \in BOOLEAN, FileRead(ok) PROVE ClientInv'
  BY <1>3, FileReadKeeps
<1>4. CASE Server
  <2>1. ASSUME NEW status \in Redirected, NEW location \in Locations(hop),
               FollowRedirect(status, location)
        PROVE  ClientInv'
    BY <2>1, FollowRedirectKeeps
  <2>2. CASE RefuseRedirect \/ DeclaredTooLarge \/ HeadersRefused
    <3>1. "none" \in Outcomes
      BY DEF Outcomes
    <3> QED
      BY <2>2, <3>1, ErrorsKeep
  <2>3. CASE Data
    BY <2>3, DataKeeps
  <2>4. ASSUME NEW noContent \in BOOLEAN, ResponseBegins(noContent) PROVE ClientInv'
    BY <2>4, ResponseBeginsKeeps
  <2>5. ASSUME NEW n \in 0 .. MaxLayers, NEW named \in [1 .. n -> Encodings], Ended(named)
        PROVE  ClientInv'
    BY <2>5, EndedKeeps
  <2> QED
    BY <1>4, <2>1, <2>2, <2>3, <2>4, <2>5 DEF Server
<1>5. CASE Decoder
  BY <1>5, DecompressKeeps, DecompressFailsKeeps, DecodedKeeps DEF Decoder
<1>6. CASE AbortStopsHop
  <2>1. "none" \in Outcomes
    BY DEF Outcomes
  <2> QED
    BY <1>6, <2>1, ErrorsKeep
<1>7. CASE Cancel \/ TimeOut
  BY <1>7, AbortKeeps
<1>8. CASE UNCHANGED vars
  BY <1>8, ClientStutters
<1> QED
  BY <1>1, <1>2, <1>3, <1>4, <1>5, <1>6, <1>7, <1>8 DEF Next

-----------------------------------------------------------------------------
(* The client within Transport *)

(***************************************************************************)
(* Sending with files is a refinement of the client: each of its steps is  *)
(* one of HttpClient or none.                                              *)
(***************************************************************************)
LEMMA StepsAreTheClients == TransportNext => [Next]_vars
<1> SUFFICES ASSUME TransportNext PROVE [Next]_vars
  OBVIOUS
<1>1. CASE Send
  BY <1>1 DEF Send, Next
<1>2. CASE Refused
  BY <1>2 DEF Refused, Next
<1>3. CASE BytesBegins \/ FilesAlone
  BY <1>3 DEF BytesBegins, FilesAlone
<1>4. CASE BytesEnds
  <2>1. IsSelected(NextRow, reading) \in BOOLEAN /\ FileRead(IsSelected(NextRow, reading))
    BY <1>4 DEF BytesEnds, IsSelected
  <2> QED
    BY <2>1 DEF Next
<1>5. CASE BytesThrows
  BY <1>5 DEF BytesThrows, Next
<1>6. CASE ClientAlone
  BY <1>6 DEF ClientAlone, Next
<1> QED
  BY <1>1, <1>2, <1>3, <1>4, <1>5, <1>6 DEF TransportNext

LEMMA ClientInvariance == TransportSpec => []ClientInv
<1>1. TransportInit => ClientInv
  BY ClientInit DEF TransportInit
<1>2. ClientInv /\ [TransportNext]_transportVars => ClientInv'
  <2> SUFFICES ASSUME ClientInv, [TransportNext]_transportVars PROVE ClientInv'
    OBVIOUS
  <2>1. [Next]_vars
    BY StepsAreTheClients DEF transportVars
  <2> QED
    BY <2>1, ClientStep
<1> QED
  BY <1>1, <1>2, PTL DEF TransportSpec

(***************************************************************************)
(* The client of a request with files is the client of HttpClient: what    *)
(* files and selections do can never make HttpClient.ts leave the steps of *)
(* its own specification.                                                  *)
(***************************************************************************)
THEOREM TransportIsTheClient == TransportSpec => Init /\ [][Next]_vars
<1>1. TransportInit => Init
  BY DEF TransportInit
<1>2. [TransportNext]_transportVars => [Next]_vars
  BY StepsAreTheClients DEF transportVars
<1> QED
  BY <1>1, <1>2, PTL DEF TransportSpec

(***************************************************************************)
(* Types of HttpClient.ts's execution, with any limits: an execution is    *)
(* settled exactly when it has an outcome.                                 *)
(***************************************************************************)
THEOREM ClientTypeCorrect == TransportSpec => []TypeOK
<1>1. ClientInv => TypeOK
  BY DEF ClientInv
<1> QED
  BY <1>1, ClientInvariance, PTL

(***************************************************************************)
(* Whatever chain of redirects a server builds and however long the limit  *)
(* lets it be, credentials stay with the origin the user typed, and bodies *)
(* and headers stay in step: redirectTransition and its stripping.         *)
(***************************************************************************)
THEOREM RedirectsAlwaysSafe == TransportSpec => []RedirectsAreSafe
<1>1. ClientInv => RedirectsAreSafe
  BY DEF ClientInv, RedirectsAreSafe
<1> QED
  BY <1>1, ClientInvariance, PTL

(***************************************************************************)
(* Whatever the limit on bytes, the encodings and the moment at which the  *)
(* user or the timer stops an execution, what HttpClient.ts keeps is all   *)
(* of the response, and an empty response never fails to be decoded.       *)
(***************************************************************************)
THEOREM ResponsesAlwaysComplete == TransportSpec => []ResponsesAreComplete
<1>1. ClientInv => ResponsesAreComplete
  BY DEF ClientInv
<1> QED
  BY <1>1, ClientInvariance, PTL

-----------------------------------------------------------------------------
(* The invariant of the files *)

(***************************************************************************)
(* A selection is made by a call that is over, and the call a slot waits   *)
(* for was made after its request was last released.                       *)
(***************************************************************************)
SelectionsAreMade == \A n \in selections : pick[n].stage = "done"

PendingIsNew == \A s \in Slots : pending[s] # 0 => pending[s] > released[s[1]]

FilesInv == FilesTypeOK /\ SelectionsAreMade /\ PendingIsNew /\ ReleasedStaysReleased

(***************************************************************************)
(* A call that is over stays as it is: what a selection stands for never   *)
(* changes.                                                                *)
(***************************************************************************)
DoneStays ==
  /\ picks' \in Nat /\ picks <= picks'
  /\ \A n \in 1 .. picks :
       pick[n].stage = "done" => pick'[n].stage = "done" /\ pick'[n].version = pick[n].version

(***************************************************************************)
(* The body being built: each row names a selection that has been made,    *)
(* what has been read of them is what was selected, and what is unread is  *)
(* the rest.                                                               *)
(***************************************************************************)
BodyInv ==
  /\ rows \in Seq(Nat) /\ payload \in Seq(Nat \X Nat) /\ reading \in Nat
  /\ \A i \in 1 .. Len(rows) : rows[i] \in 1 .. picks /\ pick[rows[i]].stage = "done"
  /\ Len(payload) <= Len(rows)
  /\ \A i \in 1 .. Len(payload) : payload[i] = <<rows[i], SelectedVersion(rows[i])>>
  /\ stage = "idle" => payload = <<>>
  /\ stage = "building" => Len(payload) + unread = Len(rows) /\ Len(rows) = request.files
  /\ sent # <<>> => Len(payload) = request.files

UploadInv == ClientInv /\ FilesInv /\ BodyInv

-----------------------------------------------------------------------------
(* The service of request files *)

LEMMA FilesStart == FilesInit => FilesInv
<1> SUFFICES ASSUME FilesInit PROVE FilesInv
  OBVIOUS
<1>1. (CHOOSE s \in Slots : TRUE) \in Slots /\ (CHOOSE p \in Paths : TRUE) \in Paths
  <2>1. PICK f \in Fields : TRUE
    BY SomethingToPick
  <2>2. <<Owner, f>> \in Slots
    BY <2>1, OwnerIsRequest DEF Slots
  <2>3. \E p \in Paths : TRUE
    BY SomethingToPick
  <2>4. (CHOOSE s \in Slots : TRUE) \in Slots
    BY <2>2, Zenon
  <2> QED
    BY <2>3, <2>4, Zenon
<1>2. pick \in [Picks -> PickType]
  <2> DEFINE s0 == CHOOSE s \in Slots : TRUE
             p0 == CHOOSE p \in Paths : TRUE
  <2>1. Absent \in 0 .. MaxVersions
    BY VersionBound DEF Absent
  <2>2. [stage : {"none"}, slot : {s0}, path : {p0}, version : {Absent}] \subseteq PickType
    <3> HIDE DEF s0, p0
    <3> QED
      BY <1>1, <2>1 DEF PickType, s0, p0
  <2> QED
    BY <2>2 DEF FilesInit
<1>3. FilesTypeOK
  <2>1. /\ versions \in 0 .. MaxVersions /\ disk \in [Paths -> 0 .. versions]
    BY VersionBound DEF FilesInit
  <2> QED
    BY <1>2, <2>1, PickBound DEF FilesInit, FilesTypeOK, Absent
<1> QED
  BY <1>3 DEF FilesInit, FilesInv, SelectionsAreMade, PendingIsNew, ReleasedStaysReleased

LEMMA FilesKeep == FilesInv /\ [FilesNext]_fileVars => FilesInv' /\ DoneStays
<1> SUFFICES ASSUME FilesInv, [FilesNext]_fileVars PROVE FilesInv' /\ DoneStays
  OBVIOUS
<1> USE DEF FilesInv
<1>0. /\ picks \in Nat /\ picks <= MaxPicks /\ pick \in [Picks -> PickType]
      /\ pending \in [Slots -> 0 .. picks] /\ released \in [Owners -> 0 .. picks]
      /\ chosen \in [Slots -> 0 .. picks] /\ selections \subseteq 1 .. picks
      /\ 1 .. picks \subseteq Picks
      /\ versions \in 0 .. MaxVersions /\ disk \in [Paths -> 0 .. versions]
      /\ \A p \in Paths : disk[p] \in 0 .. MaxVersions
  BY PickBound, VersionBound DEF FilesTypeOK, Picks
<1>1. ASSUME NEW s \in Slots, Select(s) PROVE FilesInv' /\ DoneStays
  <2>1. /\ picks' = picks + 1 /\ picks' \in Picks /\ picks' \in Nat
        /\ pick' = [pick EXCEPT ![picks'].stage = "dialog", ![picks'].slot = s]
        /\ pending' = [pending EXCEPT ![s] = picks']
        /\ UNCHANGED <<disk, versions, selections, chosen, released>>
    BY <1>0, <1>1, PickBound DEF Select, Picks
  <2>2. /\ pick' \in [Picks -> PickType]
        /\ \A n \in 1 .. picks : pick'[n] = pick[n]
    <3> DEFINE m == picks + 1
    <3>1. m \in Picks /\ m \notin 1 .. picks /\ pick[m] \in PickType
      BY <1>0, <2>1
    <3>2. pick' = [pick EXCEPT ![m].stage = "dialog", ![m].slot = s]
      BY <2>1
    <3> HIDE DEF m
    <3> QED
      BY <1>0, <3>1, <3>2 DEF PickType
  <2>3. /\ pending' \in [Slots -> 0 .. picks'] /\ released' \in [Owners -> 0 .. picks']
        /\ chosen' \in [Slots -> 0 .. picks'] /\ selections' \subseteq 1 .. picks'
        /\ picks' \in 0 .. MaxPicks
    BY <1>0, <2>1, <1>1, PickBound DEF Select
  <2>4. FilesTypeOK'
    BY <1>0, <2>1, <2>2, <2>3 DEF FilesTypeOK
  <2>5. PendingIsNew'
    <3> SUFFICES ASSUME NEW t \in Slots, pending'[t] # 0 PROVE pending'[t] > released[t[1]]
      BY <2>1 DEF PendingIsNew
    <3>1. t[1] \in Owners /\ released[t[1]] \in 0 .. picks
      BY <1>0 DEF Slots
    <3>2. CASE t = s
      BY <1>0, <2>1, <3>1, <3>2
    <3>3. CASE t # s
      BY <1>0, <2>1, <3>3 DEF PendingIsNew
    <3> QED
      BY <3>2, <3>3
  <2>6. SelectionsAreMade' /\ ReleasedStaysReleased' /\ DoneStays
    BY <1>0, <2>1, <2>2 DEF SelectionsAreMade, ReleasedStaysReleased, DoneStays
  <2> QED
    BY <2>4, <2>5, <2>6
<1>2. ASSUME NEW n \in Picks, PickEnds(n) \/ PickRead(n) PROVE FilesInv' /\ DoneStays
  <2>1. PICK p \in Paths, version \in 0 .. MaxVersions : Close(n, p, version) /\ p = pick[n].path
          /\ ((pick[n].stage = "dialog" /\ version = Absent) \/ version = pick[n].version)
    BY <1>0, <1>2, VersionBound DEF PickEnds, PickRead, PickType, Absent
  <2>2. /\ pick[n] \in PickType /\ pick[n].slot \in Slots /\ pick[n].stage \in {"dialog", "reading"}
        /\ UNCHANGED <<disk, versions, picks, released>>
    BY <1>0, <1>2 DEF PickEnds, PickRead, PickType
  <2>3. /\ pick' \in [Picks -> PickType]
        /\ pick'[n].stage = "done" /\ pick'[n].slot = pick[n].slot
        /\ \A m \in Picks : m # n => pick'[m] = pick[m]
    BY <1>0, <2>1, <2>2 DEF Close, PickType
  <2>4. /\ pending' \in [Slots -> 0 .. picks]
        /\ \A s \in Slots : pending'[s] = pending[s] \/ pending'[s] = 0
    BY <1>0, <2>1, <2>2 DEF Close
  <2>5. /\ chosen' \in [Slots -> 0 .. picks] /\ selections' \subseteq selections \cup {n}
        /\ n \in selections' \ selections =>
             n \in 1 .. picks /\ n > released[pick[n].slot[1]]
    <3>1. CASE UNCHANGED <<chosen, selections>>
      BY <1>0, <3>1
    <3>2. CASE ~UNCHANGED <<chosen, selections>>
      <4>1. IsLatest(n) /\ selections' = selections \cup {n}
            /\ chosen' = [chosen EXCEPT ![pick[n].slot] = n]
        BY <1>2, <3>2 DEF PickEnds, PickRead, Takes
      <4>2. n \in 1 .. picks /\ pending[pick[n].slot] = n /\ n # 0
        BY <1>0, <2>2, <4>1, PickBound DEF IsLatest, Picks
      <4> QED
        BY <1>0, <2>2, <4>1, <4>2 DEF PendingIsNew
    <3> QED
      BY <3>1, <3>2
  <2>6. FilesTypeOK'
    BY <1>0, <2>2, <2>3, <2>4, <2>5, PickBound DEF FilesTypeOK
  <2>7. SelectionsAreMade'
    BY <1>0, <2>3, <2>5 DEF SelectionsAreMade
  <2>8. PendingIsNew'
    BY <2>2, <2>4 DEF PendingIsNew
  <2>9. ReleasedStaysReleased'
    BY <1>0, <2>2, <2>3, <2>5 DEF ReleasedStaysReleased
  <2>10. DoneStays
    BY <1>0, <2>2, <2>3 DEF DoneStays
  <2> QED
    BY <2>6, <2>7, <2>8, <2>9, <2>10
<1>3. ASSUME NEW n \in Picks, NEW p \in Paths, PickChosen(n, p) PROVE FilesInv' /\ DoneStays
  <2>1. /\ pick[n].stage = "dialog" /\ pick[n] \in PickType
        /\ pick' = [pick EXCEPT ![n].stage = "reading", ![n].path = p, ![n].version = disk[p]]
        /\ UNCHANGED <<disk, versions, picks, pending, selections, chosen, released>>
    BY <1>0, <1>3 DEF PickChosen
  <2>2. /\ pick' \in [Picks -> PickType] /\ pick'[n].slot = pick[n].slot
        /\ \A m \in Picks : m # n => pick'[m] = pick[m]
    BY <1>0, <2>1 DEF PickType
  <2>3. FilesTypeOK'
    BY <1>0, <2>1, <2>2 DEF FilesTypeOK
  <2>4. SelectionsAreMade' /\ PendingIsNew' /\ ReleasedStaysReleased' /\ DoneStays
    BY <1>0, <2>1, <2>2 DEF SelectionsAreMade, PendingIsNew, ReleasedStaysReleased, DoneStays
  <2> QED
    BY <2>3, <2>4
<1>4. ASSUME NEW o \in Owners, ReleaseRequest(o) PROVE FilesInv' /\ DoneStays
  <2>1. UNCHANGED <<disk, versions, picks, pick>>
    BY <1>4 DEF ReleaseRequest
  <2>2. /\ selections' = {n \in selections : pick[n].slot[1] # o}
        /\ pending' = PendingAfter(o) /\ released' = [released EXCEPT ![o] = picks]
        /\ chosen' \in [Slots -> 0 .. picks]
    BY <1>0, <1>4 DEF ReleaseRequest, Absent
  <2>3. pending' \in [Slots -> 0 .. picks] /\ released' \in [Owners -> 0 .. picks]
    BY <1>0, <2>2 DEF PendingAfter
  <2>4. FilesTypeOK'
    BY <1>0, <2>1, <2>2, <2>3, PickBound DEF FilesTypeOK
  <2>5. PendingIsNew'
    BY <1>0, <2>2 DEF PendingIsNew, PendingAfter
  <2>6. ReleasedStaysReleased'
    BY <1>0, <2>1, <2>2 DEF ReleasedStaysReleased
  <2>7. SelectionsAreMade' /\ DoneStays
    BY <1>0, <2>1, <2>2 DEF SelectionsAreMade, DoneStays
  <2> QED
    BY <2>4, <2>5, <2>6, <2>7
<1>5. CASE Reset
  <2>1. FilesTypeOK'
    BY <1>0, <1>5, PickBound DEF Reset, FilesTypeOK, Absent
  <2> QED
    BY <1>0, <1>5, <2>1 DEF Reset, SelectionsAreMade, PendingIsNew, ReleasedStaysReleased, DoneStays
<1>6. ASSUME NEW p \in Paths, Change(p) \/ Remove(p) PROVE FilesInv' /\ DoneStays
  <2>1. /\ versions' \in 0 .. MaxVersions /\ disk' \in [Paths -> 0 .. versions']
        /\ UNCHANGED <<picks, pick, pending, selections, chosen, released>>
    BY <1>0, <1>6, VersionBound DEF Change, Remove, Absent
  <2>2. FilesTypeOK'
    BY <1>0, <2>1, PickBound DEF FilesTypeOK
  <2> QED
    BY <1>0, <2>1, <2>2 DEF SelectionsAreMade, PendingIsNew, ReleasedStaysReleased, DoneStays
<1>7. CASE UNCHANGED fileVars
  <2>1. FilesTypeOK'
    BY <1>7 DEF fileVars, FilesTypeOK
  <2> QED
    BY <1>0, <1>7, <2>1 DEF fileVars, SelectionsAreMade, PendingIsNew, ReleasedStaysReleased, DoneStays
<1> QED
  BY <1>1, <1>2, <1>3, <1>4, <1>5, <1>6, <1>7 DEF FilesNext

-----------------------------------------------------------------------------
(* The body of the request *)

(***************************************************************************)
(* What has been read stands for what was selected as long as calls that   *)
(* are over stay as they are.                                              *)
(***************************************************************************)
LEMMA BodyStays ==
  ASSUME BodyInv, DoneStays, UNCHANGED <<rows, payload, request>>, reading' \in Nat,
         picks \in Nat,
         stage' = "idle" => stage = "idle",
         stage' = "building" => stage = "building" /\ unread' = unread,
         sent' # <<>> => sent # <<>>
  PROVE  BodyInv'
<1>1. \A i \in 1 .. Len(rows) :
        /\ rows'[i] \in 1 .. picks' /\ pick'[rows'[i]].stage = "done"
        /\ pick'[rows'[i]].version = pick[rows[i]].version
  <2> SUFFICES ASSUME NEW i \in 1 .. Len(rows)
               PROVE  /\ rows[i] \in 1 .. picks' /\ pick'[rows[i]].stage = "done"
                      /\ pick'[rows[i]].version = pick[rows[i]].version
    OBVIOUS
  <2>1. rows[i] \in 1 .. picks /\ pick[rows[i]].stage = "done"
    BY DEF BodyInv
  <2> QED
    BY <2>1 DEF DoneStays
<1>2. \A i \in 1 .. Len(payload) : i \in 1 .. Len(rows)
  BY DEF BodyInv
<1>3. \A i \in 1 .. Len(payload') : payload'[i] = <<rows'[i], SelectedVersion(rows[i])'>>
  BY <1>1, <1>2 DEF BodyInv, SelectedVersion
<1> QED
  BY <1>1, <1>3 DEF BodyInv, SelectedVersion

(***************************************************************************)
(* Steps that leave the files alone.                                       *)
(***************************************************************************)
LEMMA FilesStutter ==
  ASSUME FilesInv, UNCHANGED fileVars
  PROVE  FilesInv' /\ DoneStays
BY FilesKeep

LEMMA SendKeeps == ASSUME UploadInv, Send PROVE BodyInv'
<1>1. PICK order \in [1 .. request.files -> Fields] :
        /\ \A i \in DOMAIN order : Valid(chosen[Row(order[i])])
        /\ rows' = [i \in DOMAIN order |-> chosen[Row(order[i])]]
  BY DEF Send
<1>2. request.files \in Nat /\ picks \in Nat /\ selections \subseteq 1 .. picks
  BY RequestsAreTyped DEF UploadInv, ClientInv, TypeOK, RequestType, FilesInv, FilesTypeOK
<1>3. \A i \in 1 .. request.files :
        rows'[i] \in 1 .. picks /\ pick[rows'[i]].stage = "done"
  BY <1>1, <1>2 DEF Valid, Matches, UploadInv, FilesInv, SelectionsAreMade
<1>4. rows' \in Seq(Nat) /\ Len(rows') = request.files
  <2>1. rows' = [i \in 1 .. request.files |-> chosen[Row(order[i])]]
    BY <1>1
  <2>2. \A i \in 1 .. request.files : chosen[Row(order[i])] \in Nat
    <3> SUFFICES ASSUME NEW i \in 1 .. request.files PROVE chosen[Row(order[i])] \in Nat
      OBVIOUS
    <3>1. rows'[i] \in Nat
      BY <1>2, <1>3
    <3> QED
      BY <2>1, <3>1
  <2>3. rows' \in [1 .. request.files -> Nat]
    BY <2>1, <2>2
  <2> QED
    BY <1>2, <2>3
<1>5. /\ payload' = <<>> /\ reading' \in Nat /\ UNCHANGED <<fileVars, request>>
      /\ sent = <<>> /\ stage = "idle"
  BY DEF Send, Start, SameFlags, UploadInv, BodyInv, ClientInv, Progress
<1>6. CASE request.files = 0
  BY <1>2, <1>3, <1>4, <1>5, <1>6 DEF BodyInv, Send, Start, Open, fileVars, SelectedVersion
<1>7. CASE request.files # 0
  <2>1. stage' = "building" /\ unread' = request.files /\ sent' = <<>>
    BY <1>5, <1>7 DEF Send, Start
  <2> QED
    BY <1>2, <1>3, <1>4, <1>5, <2>1 DEF BodyInv, fileVars, SelectedVersion
<1> QED
  BY <1>6, <1>7

(***************************************************************************)
(* A file is added to the body only if it is the one selected for the row. *)
(***************************************************************************)
LEMMA BytesEndsKeeps == ASSUME UploadInv, BytesEnds PROVE BodyInv'
<1>1. /\ stage = "building" /\ sent = <<>> /\ unread \in Nat \ {0} /\ reading \in Nat
      /\ request' = request /\ rows' = rows /\ reading' \in Nat /\ UNCHANGED fileVars
      /\ picks \in Nat
  BY DEF BytesEnds, FileRead, SameFlags, UploadInv, BodyInv, ClientInv, TypeOK, Progress, Absent,
     FilesInv, FilesTypeOK
<1>2. DoneStays
  BY <1>1, FilesStutter DEF UploadInv
<1>3. FileRead(IsSelected(NextRow, reading))
  BY DEF BytesEnds
<1>4. CASE Aborted \/ ~IsSelected(NextRow, reading)
  <2>1. stage' = "settled" /\ sent' = sent
    BY <1>3, <1>4 DEF FileRead, Settle, SameHop
  <2>2. payload' = payload
    BY <2>1 DEF BytesEnds
  <2> QED
    BY <1>1, <1>2, <2>1, <2>2, BodyStays DEF UploadInv
<1>5. CASE ~Aborted /\ IsSelected(NextRow, reading)
  <2> DEFINE n == Len(payload)
  <2>1. /\ unread' = unread - 1
        /\ IF unread = 1 THEN stage' = "waiting" /\ sent' # <<>>
                         ELSE stage' = "building" /\ sent' = <<>>
    <3>1. CASE unread = 1
      <4>1. Open(FirstHop(request)) /\ unread' = 0
        BY <1>3, <1>5, <3>1 DEF FileRead
      <4> QED
        BY <1>1, <3>1, <4>1, FirstSentIsSafe DEF UploadInv, Open
    <3>2. CASE unread # 1
      BY <1>1, <1>3, <1>5, <3>2 DEF FileRead, control
    <3> QED
      BY <3>1, <3>2
  <2>2. payload' = Append(payload, <<NextRow, reading>>)
    BY <2>1 DEF BytesEnds
  <2>3. /\ payload \in Seq(Nat \X Nat) /\ n \in Nat /\ n + unread = Len(rows)
        /\ Len(rows) = request.files /\ n + 1 \in 1 .. Len(rows)
        /\ \A i \in 1 .. Len(rows) : rows[i] \in 1 .. picks /\ pick[rows[i]].stage = "done"
        /\ \A i \in 1 .. n : payload[i] = <<rows[i], SelectedVersion(rows[i])>>
    <3>1. BodyInv
      BY DEF UploadInv
    <3>2. /\ rows \in Seq(Nat) /\ payload \in Seq(Nat \X Nat)
          /\ n + unread = Len(rows) /\ Len(rows) = request.files
      BY <1>1, <3>1 DEF BodyInv
    <3>3. n \in Nat /\ n + 1 \in 1 .. Len(rows)
      <4>1. n \in Nat /\ Len(rows) \in Nat
        BY <3>2
      <4> HIDE DEF n
      <4> QED
        BY <1>1, <3>2, <4>1
    <3>4. /\ \A i \in 1 .. Len(rows) : rows[i] \in 1 .. picks /\ pick[rows[i]].stage = "done"
          /\ \A i \in 1 .. n : payload[i] = <<rows[i], SelectedVersion(rows[i])>>
      BY <3>1, Zenon DEF BodyInv
    <3> QED
      BY <3>2, <3>3, <3>4
  <2>4. NextRow \in Nat /\ NextRow = rows[n + 1] /\ reading = SelectedVersion(rows[n + 1])
    BY <1>1, <1>5, <2>3 DEF NextRow, IsSelected
  <2>5. /\ payload' \in Seq(Nat \X Nat) /\ Len(payload') = n + 1
        /\ \A i \in 1 .. n : payload'[i] = payload[i]
        /\ payload'[n + 1] = <<NextRow, reading>>
    BY <1>1, <2>2, <2>3, <2>4
  <2>6. \A i \in 1 .. n + 1 : payload'[i] = <<rows[i], SelectedVersion(rows[i])>>
    <3> SUFFICES ASSUME NEW i \in 1 .. n + 1 PROVE payload'[i] = <<rows[i], SelectedVersion(rows[i])>>
      OBVIOUS
    <3>1. i \in 1 .. n \/ i = n + 1
      BY <2>3
    <3> QED
      BY <2>3, <2>4, <2>5, <3>1
  <2>7. UNCHANGED <<pick, picks>>
    BY <1>1 DEF fileVars
  <2>8. \A i \in 1 .. Len(payload') : payload'[i] = <<rows'[i], pick'[rows'[i]].version>>
    BY <1>1, <2>5, <2>6, <2>7 DEF SelectedVersion
  <2>9. /\ Len(payload') + unread' = Len(rows') /\ Len(payload') <= Len(rows')
        /\ Len(rows') = request'.files
        /\ unread = 1 => Len(payload') = request'.files
    BY <1>1, <2>1, <2>3, <2>5
  <2>10. /\ rows' \in Seq(Nat)
         /\ \A i \in 1 .. Len(rows') : rows'[i] \in 1 .. picks' /\ pick'[rows'[i]].stage = "done"
    BY <1>1, <2>3, <2>7 DEF UploadInv, BodyInv
  <2>11. /\ stage' # "idle"
         /\ stage' = "building" => Len(payload') + unread' = Len(rows') /\ Len(rows') = request'.files
         /\ sent' # <<>> => Len(payload') = request'.files
    <3>1. stage' \in {"waiting", "building"} /\ (unread # 1 => sent' = <<>>)
      BY <2>1
    <3> QED
      BY <2>9, <3>1
  <2>12. payload' \in Seq(Nat \X Nat) /\ reading' \in Nat /\ Len(payload') <= Len(rows')
    BY <1>1, <2>5, <2>9
  <2> HIDE DEF n
  <2> QED
    BY <2>8, <2>10, <2>11, <2>12 DEF BodyInv, SelectedVersion
<1> QED
  BY <1>4, <1>5

(***************************************************************************)
(* The client goes on alone with a body that is built, or is stopped while *)
(* it is being built.                                                      *)
(***************************************************************************)
LEMMA ClientLeavesBody ==
  ASSUME ClientInv, ClientAlone \/ Refused
  PROVE  /\ request' = request
         /\ stage' = "idle" => stage = "idle"
         /\ stage' = "building" => stage = "building" /\ unread' = unread
         /\ sent' # <<>> => sent # <<>>
<1> USE DEF SameFlags, SameHop, SameResponse, Settle
<1>1. ASSUME NEW kind \in Outcomes, SocketFails(kind) \/ StartFails(kind)
      PROVE  UNCHANGED <<request, sent>> /\ stage' = "settled"
  BY <1>1 DEF SocketFails, StartFails
<1>2. CASE Server
  <2>1. stage \in {"waiting", "receiving"} /\ request' = request
    BY <1>2 DEF Server, FollowRedirect, RefuseRedirect, DeclaredTooLarge, Data, HeadersRefused,
       ResponseBegins, Ended
  <2>2. stage' \notin {"idle", "building"}
    BY <1>2, <2>1 DEF Server, FollowRedirect, Open, RefuseRedirect, DeclaredTooLarge, Data,
       HeadersRefused, ResponseBegins, Ended, control
  <2> QED
    BY <2>1, <2>2 DEF ClientInv, Progress
<1>3. CASE Decoder
  <2>1. UNCHANGED <<request, sent, unread>> /\ (stage' = stage \/ stage' = "settled")
    BY <1>3 DEF Decoder, Decompress, DecompressFails, Decoded, Finish, control
  <2> QED
    BY <2>1
<1>4. CASE AbortStopsHop
  BY <1>4 DEF AbortStopsHop
<1>5. CASE Cancel \/ TimeOut
  BY <1>5 DEF Cancel, TimeOut, control
<1> QED
  BY <1>1, <1>2, <1>3, <1>4, <1>5 DEF ClientAlone, Refused

LEMMA UploadStep == UploadInv /\ [TransportNext]_transportVars => UploadInv'
<1> SUFFICES ASSUME UploadInv, [TransportNext]_transportVars PROVE UploadInv'
  OBVIOUS
<1>1. ClientInv'
  BY ClientStep, StepsAreTheClients DEF UploadInv, transportVars
<1>2. FilesInv' /\ DoneStays
  <2>1. [FilesNext]_fileVars
    BY DEF TransportNext, Send, Refused, BytesBegins, BytesEnds, BytesThrows, ClientAlone,
       FilesAlone, transportVars
  <2> QED
    BY <2>1, FilesKeep DEF UploadInv
<1>3. /\ picks \in Nat /\ reading \in Nat
      /\ \A p \in Paths : disk[p] \in Nat
  BY VersionBound DEF UploadInv, FilesInv, FilesTypeOK, BodyInv
<1>4. CASE Send
  BY <1>4, SendKeeps, <1>1, <1>2 DEF UploadInv
<1>5. CASE BytesEnds
  BY <1>5, BytesEndsKeeps, <1>1, <1>2 DEF UploadInv
<1>6. CASE BytesBegins
  <2>1. UNCHANGED <<vars, rows, payload>> /\ reading' \in Nat
    <3>1. pick[NextRow].path \in Paths
      <4>1. NextRow \in Picks
        BY <1>6, PickBound DEF BytesBegins, Matches, UploadInv, FilesInv, FilesTypeOK, Picks
      <4> QED
        BY <4>1 DEF UploadInv, FilesInv, FilesTypeOK, PickType
    <3> QED
      BY <1>3, <1>6, <3>1 DEF BytesBegins
  <2> QED
    BY <1>1, <1>2, <1>3, <2>1, BodyStays DEF UploadInv, vars, control
<1>7. CASE BytesThrows
  <2>1. /\ UNCHANGED <<request, sent, rows, payload, reading>> /\ stage' = "settled"
    BY <1>7 DEF BytesThrows, FileRead, Settle, SameHop, SameFlags
  <2> QED
    BY <1>1, <1>2, <1>3, <2>1, BodyStays DEF UploadInv
<1>8. CASE ClientAlone \/ Refused
  <2>1. UNCHANGED <<rows, payload, reading>>
    BY <1>8 DEF ClientAlone, Refused
  <2> QED
    BY <1>1, <1>2, <1>3, <1>8, <2>1, BodyStays, ClientLeavesBody DEF UploadInv
<1>9. CASE FilesAlone \/ UNCHANGED transportVars
  <2>1. UNCHANGED <<vars, rows, payload, reading>>
    BY <1>9 DEF FilesAlone, transportVars
  <2> QED
    BY <1>1, <1>2, <1>3, <2>1, BodyStays DEF UploadInv, vars, control
<1> QED
  BY <1>4, <1>5, <1>6, <1>7, <1>8, <1>9 DEF TransportNext

LEMMA UploadInit == TransportInit => UploadInv
<1> SUFFICES ASSUME TransportInit PROVE UploadInv
  OBVIOUS
<1>1. ClientInv /\ FilesInv
  BY ClientInit, FilesStart DEF TransportInit
<1>2. BodyInv
  BY DEF TransportInit, Init, BodyInv, Absent
<1> QED
  BY <1>1, <1>2 DEF UploadInv

(***************************************************************************)
(* Whatever happens to the user's files and selections while a request is  *)
(* being built, of however many rows and dialogs, every file that is sent  *)
(* is the version selected for its row, and no selection outlives the      *)
(* release of its request: RequestFileService.ts as HttpClient.ts uses it. *)
(***************************************************************************)
THEOREM FilesAlwaysAsSelected == TransportSpec => []FilesAreAsSelected
<1>1. UploadInv => FilesAreAsSelected
  <2> SUFFICES ASSUME UploadInv PROVE FilesAreAsSelected
    OBVIOUS
  <2>1. UploadIsSelected
    <3>1. DOMAIN payload = 1 .. Len(payload)
      BY DEF UploadInv, BodyInv
    <3> QED
      BY <3>1 DEF UploadInv, BodyInv, UploadIsSelected
  <2>2. ReleasedStaysReleased
    BY DEF UploadInv, FilesInv
  <2> QED
    BY <2>1, <2>2 DEF FilesAreAsSelected
<1> QED
  BY <1>1, UploadInit, UploadStep, PTL DEF TransportSpec
=============================================================================
