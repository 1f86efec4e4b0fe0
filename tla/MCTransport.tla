---------------------------- MODULE MCTransport -----------------------------
(***************************************************************************)
(* Model checking of Transport.  Requests without files meet every server  *)
(* and redirect chain of three hops; requests with one or two files meet   *)
(* every change of files and selections while they are read.               *)
(***************************************************************************)
EXTENDS Transport

CONSTANTS o1, o2, r1, f1, f2, p1, p2

Plain ==
  [method |-> "POST", userinfo |-> "user", headers |-> {"authorization", "host", "accept"},
   auth |-> "none", body |-> "text", files |-> 0, followRedirects |-> TRUE]

MCRequests ==
  { Plain,
    [Plain EXCEPT !.method = "PUT", !.auth = "apiKey", !.userinfo = "none",
                  !.headers = {"key", "content-type", "transfer-encoding"}],
    [Plain EXCEPT !.method = "HEAD", !.body = "none",
                  !.headers = {"cookie", "content-length", "content-type"}],
    [Plain EXCEPT !.method = "GET", !.body = "none", !.followRedirects = FALSE],
    [Plain EXCEPT !.body = "form", !.files = 2, !.headers = {"content-type"}, !.followRedirects = FALSE],
    [Plain EXCEPT !.body = "file", !.files = 1, !.headers = {"cookie"}, !.followRedirects = FALSE] }
=============================================================================
