------------------------------- MODULE PlainHttp -------------------------------
(***************************************************************************)
(* One plain HTTP exchange through the proxy: HttpHandler (src/mitm).      *)
(*                                                                         *)
(* The request is buffered whole, scanned when it ends and then answered   *)
(* with 403 or sent upstream.  A secret of the body is the interval of     *)
(* positions it occupies; the URL and the headers hold one or do not.      *)
(* Either side may fail at any moment.                                     *)
(***************************************************************************)
EXTENDS Integers, FiniteSets

CONSTANTS Exchanges,   \* the requests considered
          ClampMax,    \* DEFAULT_MAX_BYTES of the scanner's clamp
          MaxReplies   \* bound: response chunks considered

Part == {"body", "headers", "url"}

ASSUME ExchangesAssumption ==
    /\ ClampMax \in Nat /\ MaxReplies \in Nat
    /\ \A r \in Exchanges :
         /\ r.isAllowed \in BOOLEAN /\ r.mode \in {"block", "warn", "off"}
         /\ r.length \in Nat /\ r.leaky \subseteq {"headers", "url"}
         /\ r.badPort \in BOOLEAN    \* a port in the Host header that is out of range
         /\ \A s \in r.secrets : 1 <= s.first /\ s.first <= s.last /\ s.last <= r.length

VARIABLES
    req,       \* the request, fixed at the start
    client,    \* "open", "gone"
    received,  \* length of bodyChunks
    ended,     \* has the 'end' handler run?
    found,     \* parts of the request in which the scanner reported a secret
    proxyReq,  \* "none", "sent", "responding", "done", "cut", "failed"
    answer,    \* what writeHead was called with: "none", "403", "502", "upstream"
    replied,   \* response chunks piped to the client
    crashed    \* has a handler thrown?  Nobody catches it: the process ends

vars == <<req, client, received, ended, found, proxyReq, answer, replied, crashed>>

-------------------------------------------------------------------------------
Scans == ~req.isAllowed /\ req.mode # "off"

(* Mutation: a hit is put down to the request, not to a part of it. *)
HitsOfRequest(n) ==
    IF req.leaky # {} \/ \E s \in req.secrets : s.last <= n
      THEN {"request"} ELSE {}

(* The parts whose scan finds a secret; the clamp keeps ClampMax bytes. *)
Hits(n) == req.leaky \cup
           (IF \E s \in req.secrets : s.last <= n /\ s.last <= ClampMax THEN {"body"} ELSE {})

(* Mutation: blocked || scan(...), which stops at the body. *)
ReportedShort(n) ==
    IF ~Scans THEN {} ELSE IF "body" \in Hits(n) THEN {"body"} ELSE Hits(n)

(* All three scans run; the result of each is or-ed to the others'. *)
Reported(n) == IF Scans THEN Hits(n) ELSE {}

(* Mutation: only the result of the body's scan decides. *)
BlockedByBody(n) == "body" \in Reported(n) /\ req.mode = "block"

Blocked(n)  == Reported(n) # {} /\ req.mode = "block"

Init ==
    /\ req \in Exchanges
    /\ client = "open" /\ received = 0 /\ ended = FALSE /\ found = {}
    /\ proxyReq = "none" /\ answer = "none" /\ replied = 0 /\ crashed = FALSE

(* ServerResponse.writeHead of node, which throws once a response has begun. *)
WriteHead(status) ==
    IF answer = "none" THEN answer' = status /\ UNCHANGED crashed
                       ELSE crashed' = TRUE  /\ UNCHANGED answer

-------------------------------------------------------------------------------
(* The request. *)

Data ==
    /\ client = "open" /\ received < req.length
    /\ \E n \in (received + 1) .. req.length : received' = n
    /\ UNCHANGED <<req, client, ended, found, proxyReq, answer, replied, crashed>>

(* A request that is cut off emits no 'end'; after 'end' the exchange goes on
   without its client. *)
ClientGone ==
    /\ client = "open"
    /\ client' = "gone"
    /\ UNCHANGED <<req, received, ended, found, proxyReq, answer, replied, crashed>>

(* Mutation: no return after the 403. *)
EndBlockedOn ==
    /\ client = "open" /\ received = req.length /\ ~ended
    /\ Blocked(received)
    /\ ended' = TRUE
    /\ found' = Reported(received)
    /\ WriteHead("403")
    /\ proxyReq' = "sent"
    /\ UNCHANGED <<req, client, received, replied>>

EndBlocked ==
    /\ client = "open" /\ received = req.length /\ ~ended
    /\ Blocked(received)
    /\ ended' = TRUE
    /\ found' = Reported(received)
    /\ WriteHead("403")
    /\ UNCHANGED <<req, client, received, proxyReq, replied>>

(* Mutation: only a request with a body is sent on. *)
EndForwardedBody ==
    /\ client = "open" /\ received = req.length /\ ~ended
    /\ ~Blocked(received) /\ received > 0
    /\ ended' = TRUE
    /\ found' = Reported(received)
    /\ proxyReq' = "sent"
    /\ UNCHANGED <<req, client, received, answer, replied, crashed>>

(* http.request throws for a port out of range. *)
EndForwarded ==
    /\ client = "open" /\ received = req.length /\ ~ended
    /\ ~Blocked(received)
    /\ ended' = TRUE
    /\ found' = Reported(received)
    /\ IF req.badPort THEN crashed' = TRUE    /\ UNCHANGED proxyReq
                      ELSE proxyReq' = "sent" /\ UNCHANGED crashed
    /\ UNCHANGED <<req, client, received, answer, replied>>

-------------------------------------------------------------------------------
(* The upstream request. *)

Response ==
    /\ proxyReq = "sent"
    /\ proxyReq' = "responding"
    /\ WriteHead("upstream")
    /\ UNCHANGED <<req, client, received, ended, found, replied>>

Pipe ==
    /\ proxyReq = "responding" /\ replied < MaxReplies
    /\ replied' = replied + 1
    /\ UNCHANGED <<req, client, received, ended, found, proxyReq, answer, crashed>>

(* The response ends, or its connection closes in the middle without an
   error: pipe ends the answer in the first case only. *)
ResponseEnds ==
    /\ proxyReq = "responding"
    /\ proxyReq' \in {"done", "cut"}
    /\ UNCHANGED <<req, client, received, ended, found, answer, replied, crashed>>

(* A refused or reset connection, or a malformed response, at any time before
   the response has ended. *)
UpstreamError ==
    /\ proxyReq \in {"sent", "responding"}
    /\ proxyReq' = "failed"
    /\ WriteHead("502")
    /\ UNCHANGED <<req, client, received, ended, found, replied>>

Next == /\ ~crashed
        /\ \/ Data \/ ClientGone \/ EndBlocked \/ EndForwarded
           \/ Response \/ Pipe \/ ResponseEnds \/ UpstreamError

(* node runs the handler of an ended request. *)
Spec == Init /\ [][Next]_vars /\ WF_vars(EndBlocked \/ EndForwarded)

-------------------------------------------------------------------------------
TypeOK ==
    /\ req \in Exchanges /\ client \in {"open", "gone"}
    /\ received \in 0 .. req.length /\ ended \in BOOLEAN
    /\ found \subseteq Part
    /\ proxyReq \in {"none", "sent", "responding", "done", "cut", "failed"}
    /\ answer \in {"none", "403", "502", "upstream"}
    /\ replied \in 0 .. MaxReplies /\ crashed \in BOOLEAN

(* Every part of an ended request that holds a secret within the clamp is
   reported, in block mode too, where the first hit already decides. *)
EveryPartReported ==
    Scans /\ ended => /\ req.leaky \subseteq found
                      /\ (\E s \in req.secrets : s.last <= ClampMax) => "body" \in found

(* Two things only make a handler of the exchange throw, which ends the process:
   a Host header whose port is out of range, once the request has passed the
   scans, and an upstream that fails after its response began.  No order of the
   two ends, the response and its failure makes a third, and a request that was
   answered with 403 never does. *)
CrashExplained ==
    crashed => \/ req.badPort /\ proxyReq = "none" /\ answer = "none"
               \/ proxyReq = "failed" /\ answer = "upstream"

(* Nothing is sent, answered or found before the end of the request. *)
QuietBeforeEnd ==
    ~ended => proxyReq = "none" /\ answer = "none" /\ found = {} /\ ~crashed

(* The scans at the end saw all of the request, and decided. *)
ScannedAtEnd ==
    /\ ended => received = req.length /\ found = Reported(req.length)
    /\ proxyReq # "none" => ~Blocked(req.length)

(* What the client was told agrees with what became of the upstream request. *)
AnswerAgrees ==
    /\ proxyReq = "none" => answer \in {"none", "403"}
    /\ proxyReq = "sent" => answer = "none"
    /\ proxyReq \in {"responding", "done", "cut"} => answer = "upstream"

(* The inductive invariant: what the exchange has done agrees with how much of
   the request it has scanned. *)
IInv == TypeOK /\ QuietBeforeEnd /\ ScannedAtEnd /\ AnswerAgrees /\ CrashExplained

(* The exchange is an egress gate: position 1 is the head, URL and headers,
   and the body follows.  All of it is handed over at once or not at all. *)
Secrets(r) == {[first |-> s.first + 1, last |-> s.last + 1] :
                  s \in {t \in r.secrets : t.last <= ClampMax}}
              \cup {[first |-> 1, last |-> 1] : p \in r.leaky}
Parcel(r)  == [enforced |-> ~r.isAllowed /\ r.mode = "block",
               length |-> r.length + 1, guarded |-> Secrets(r)]
Gate == INSTANCE EgressGate WITH
            Parcels <- {Parcel(r) : r \in Exchanges}, parcel <- Parcel(req),
            forwarded <- IF proxyReq = "none" THEN 0 ELSE req.length + 1,
            open <- client = "open" /\ ~ended
GateSpec == Gate!Spec

(* A request that arrived whole is dealt with, blocked or sent upstream, unless
   its port ends the process. *)
RequestHandled ==
    (received = req.length)
        ~> (answer = "403" \/ proxyReq # "none" \/ client = "gone" \/ (crashed /\ req.badPort))

-------------------------------------------------------------------------------
(* test/integration/mitm.test.js:162 says that the proxy gracefully returns
   502 on connection failures.  Here: a failure of the upstream connection
   never throws, whenever it strikes. *)
GracefulFailure == proxyReq = "failed" => ~crashed
===============================================================================
