------------------------------ MODULE TlsTunnel -------------------------------
(***************************************************************************)
(* One intercepted HTTPS tunnel: TlsInterceptor on the decrypted client    *)
(* socket and UpstreamConnector on the real one (src/mitm).                *)
(*                                                                         *)
(* The request is a sequence of byte positions 1 .. req.length; a secret   *)
(* is the interval of positions it occupies, in whatever form the matcher  *)
(* knows it (verbatim or encoded).  A scan of a window of the stream finds *)
(* exactly the secrets that lie inside the window.  Bytes and UTF-16 units *)
(* are taken to coincide (ASCII traffic).                                  *)
(*                                                                         *)
(* Every handler is one action: JavaScript runs it to the end before the   *)
(* next event of either socket.                                            *)
(***************************************************************************)
EXTENDS Integers, FiniteSets

CONSTANTS MaxSecretLength, \* longest verbatim secret, from RunCommand
          OverlapFloor,    \* 200
          OverlapCeil,     \* 8192
          MaxBuffer,       \* MAX_BUFFER_BYTES, 1 MB
          ClampMax,        \* DEFAULT_MAX_BYTES of the scanner's clamp, 1 MB
          HeaderCap,       \* 16384
          MethodProbe,     \* 4
          MaxChunk,        \* most bytes one 'data' event carries
          MaxReplies,      \* bound: response chunks considered
          Requests         \* the requests considered

Secret == [first : Nat \ {0}, last : Nat \ {0}]

(* length    bytes the client would send                                   *)
(* method    length of the HTTP method prefix ("GET " is 4), 0 if not HTTP  *)
(* headerEnd position of the last byte of CR LF CR LF, 0 if there is none   *)
Request == [isAllowed : BOOLEAN, mode : {"block", "warn", "off"},
            length : Nat, method : Nat, headerEnd : Nat,
            secrets : SUBSET Secret]

ASSUME SizesAssumption ==
    /\ MaxSecretLength \in Nat /\ OverlapFloor \in Nat \ {0}
    /\ OverlapCeil \in Nat \ {0} /\ OverlapFloor <= OverlapCeil
    /\ MaxBuffer \in Nat /\ ClampMax \in Nat /\ HeaderCap \in Nat
    /\ MethodProbe \in Nat \ {0} /\ MaxChunk \in Nat \ {0} /\ MaxReplies \in Nat
    /\ HeaderCap <= MaxBuffer /\ MaxBuffer <= ClampMax
    /\ OverlapCeil + MaxChunk <= ClampMax

ASSUME RequestsAssumption ==
    \A r \in Requests :
        /\ r \in Request
        /\ \A s \in r.secrets : s.first <= s.last /\ s.last <= r.length

VARIABLES
    req,            \* the request, fixed at the start
    client,         \* tlsSocket: "open", "ended" (FIN handled), "destroyed"
    received,       \* bytes the 'data' handler has been given
    totalBytes,     \* the field: bytes counted against MAX_BUFFER_BYTES
    overlap,        \* length of lastOverlap
    held,           \* length of headerBuffer
    headersFlushed, isHttpChecked, isHttp,
    upstreamSocket, \* is the field non-null?
    upstream,       \* the socket: "none", "connecting", "open", "ended", "destroyed"
    connects,       \* upstream connections opened
    written,        \* bytes written to the upstream socket
    delivered,      \* bytes of those that reached the upstream host
    replied,        \* response chunks written to the client
    found,          \* secrets the scanner has reported
    blocked         \* has a scan severed the tunnel?

scanState == <<totalBytes, overlap, found>>
gateState == <<held, headersFlushed, isHttpChecked, isHttp>>
upState   == <<upstreamSocket, upstream, connects>>
vars == <<req, client, received, scanState, gateState, upState, written,
          delivered, replied, blocked>>

-------------------------------------------------------------------------------
Lesser(a, b)  == IF a <= b THEN a ELSE b
Greater(a, b) == IF a >= b THEN a ELSE b

overlapSize == Lesser(OverlapCeil, Greater(OverlapFloor, MaxSecretLength))

(* scanner.scan on the window from .. to: the clamp keeps its first ClampMax
   bytes, the matcher finds the secrets that lie inside. *)
Hits(from, to) ==
    {s \in req.secrets : from <= s.first /\ s.last <= Lesser(to, from + ClampMax - 1)}

Scans     == ~req.isAllowed /\ req.mode # "off"
Blocks(h) == req.mode = "block" /\ h # {}

Live(socket) == socket \in {"connecting", "open", "ended"}   \* && !destroyed
Destroyed(socket) == IF Live(socket) THEN "destroyed" ELSE socket

Init ==
    /\ req \in Requests
    /\ client = "open" /\ received = 0 /\ totalBytes = 0 /\ overlap = 0
    /\ held = 0 /\ headersFlushed = FALSE /\ isHttpChecked = FALSE /\ isHttp = TRUE
    /\ upstreamSocket = FALSE /\ upstream = "none" /\ connects = 0
    /\ written = 0 /\ delivered = 0 /\ replied = 0
    /\ found = {} /\ blocked = FALSE

-------------------------------------------------------------------------------
(* tlsSocket.on('data'): one chunk of n bytes. *)

(* Mutation: the limit is tested as if the chunk had to fit below it. *)
BuffersEarlyStop == totalBytes + MaxChunk < MaxBuffer

Buffers == totalBytes < MaxBuffer

(* Mutation: the chunk is scanned without lastOverlap. *)
ChunkHitsAlone(n) ==
    IF Buffers /\ Scans THEN Hits(received + 1, received + n) ELSE {}

(* What the scan of lastOverlap + chunk finds. *)
ChunkHits(n) ==
    IF Buffers /\ Scans THEN Hits(received + 1 - overlap, received + n) ELSE {}

Chunk(n) ==
    /\ client = "open"
    /\ received + n <= req.length
    /\ received' = received + n
    /\ totalBytes' = IF Buffers THEN totalBytes + n ELSE totalBytes
    /\ UNCHANGED <<req, delivered, replied>>

PassesScan(n) ==
    /\ Chunk(n)
    /\ ~Blocks(ChunkHits(n))
    /\ overlap' = IF Buffers /\ Scans THEN Lesser(overlapSize, overlap + n) ELSE overlap

(* Mutation: a blocking branch that leaves the upstream socket alone. *)
SeverClientOnly ==
    /\ client' = "destroyed"
    /\ blocked' = TRUE
    /\ UNCHANGED <<upState, written>>

(* Both safeDestroy calls of a blocking branch. *)
Sever ==
    /\ client' = "destroyed"
    /\ upstream' = IF upstreamSocket THEN Destroyed(upstream) ELSE upstream
    /\ blocked' = TRUE
    /\ UNCHANGED <<upstreamSocket, connects, written>>

EnsureUpstream ==
    /\ upstreamSocket' = TRUE
    /\ upstream' = IF upstreamSocket THEN upstream ELSE "connecting"
    /\ connects' = IF upstreamSocket THEN connects ELSE connects + 1

(* Mutation: the overlap is held back from every write. *)
WriteUpstreamLess(upto) ==
    /\ EnsureUpstream
    /\ written' = IF Live(upstream') THEN upto - overlapSize ELSE written

(* up.write of everything received and not yet written, if up is alive. *)
WriteUpstream(upto) ==
    /\ EnsureUpstream
    /\ written' = IF Live(upstream') THEN upto ELSE written

ChunkBlocked(n) ==
    /\ Chunk(n)
    /\ Blocks(ChunkHits(n))
    /\ found' = found \cup ChunkHits(n)
    /\ Sever
    /\ UNCHANGED <<overlap, gateState>>

(* The first time headerBuffer has MethodProbe bytes its prefix is compared
   with the method names: a name that is not there in full does not match. *)
Probed(n)       == isHttpChecked \/ held + n >= MethodProbe
StartsMethod(n) == req.method > 0 /\ held + n >= req.method
HttpAfter(n)    == IF isHttpChecked \/ ~Probed(n) THEN isHttp ELSE StartsMethod(n)

HeldChunk(n) ==
    /\ ~headersFlushed
    /\ PassesScan(n)
    /\ isHttpChecked' = Probed(n)
    /\ isHttp' = HttpAfter(n)

BypassGate(n) ==
    /\ HeldChunk(n)
    /\ ~isHttpChecked /\ ~HttpAfter(n)
    /\ headersFlushed' = TRUE
    /\ held' = 0
    /\ found' = found \cup ChunkHits(n)
    /\ WriteUpstream(received + n)
    /\ UNCHANGED <<client, blocked>>

(* Mutation: traffic that is not scanned waits for its headers too. *)
GateOpensLate(n) ==
    \/ req.headerEnd \in 1 .. (held + n)
    \/ held + n >= HeaderCap

GateOpens(n) ==
    \/ req.headerEnd \in 1 .. (held + n)
    \/ ~Scans
    \/ held + n >= HeaderCap

(* Mutation: the chunk that opens the gate is scanned, not the whole block. *)
GateHitsChunk(n) == IF Scans THEN Hits(received + 1, received + n) ELSE {}

GateHits(n) == IF Scans THEN Hits(1, held + n) ELSE {}

HoldHeaders(n) ==
    /\ HeldChunk(n)
    /\ isHttpChecked \/ HttpAfter(n)
    /\ ~GateOpens(n)
    /\ held' = held + n
    /\ found' = found \cup ChunkHits(n)
    /\ UNCHANGED <<client, headersFlushed, upState, written, blocked>>

HeadersBlocked(n) ==
    /\ HeldChunk(n)
    /\ isHttpChecked \/ HttpAfter(n)
    /\ GateOpens(n) /\ Blocks(GateHits(n))
    /\ held' = held + n
    /\ found' = found \cup ChunkHits(n) \cup GateHits(n)
    /\ Sever
    /\ UNCHANGED headersFlushed

FlushHeaders(n) ==
    /\ HeldChunk(n)
    /\ isHttpChecked \/ HttpAfter(n)
    /\ GateOpens(n) /\ ~Blocks(GateHits(n))
    /\ headersFlushed' = TRUE
    /\ held' = 0
    /\ found' = found \cup ChunkHits(n) \cup GateHits(n)
    /\ WriteUpstream(received + n)
    /\ UNCHANGED <<client, blocked>>

ForwardChunk(n) ==
    /\ headersFlushed
    /\ PassesScan(n)
    /\ found' = found \cup ChunkHits(n)
    /\ WriteUpstream(received + n)
    /\ UNCHANGED <<client, gateState, blocked>>

ClientData ==
    \E n \in 1 .. MaxChunk :
        \/ ChunkBlocked(n) \/ BypassGate(n) \/ HoldHeaders(n)
        \/ HeadersBlocked(n) \/ FlushHeaders(n) \/ ForwardChunk(n)

-------------------------------------------------------------------------------
(* tlsSocket.on('end') and on('error'). *)

(* Mutation: 'end' scans only the headers it still holds. *)
EndHitsNone == {}

EndHits  == IF Scans /\ totalBytes > 0 THEN Hits(1, totalBytes) ELSE {}
HeldHits == IF Scans /\ ~headersFlushed /\ held > 0 THEN Hits(1, held) ELSE {}

ClientEndBlocked ==
    /\ client = "open"
    /\ Blocks(EndHits \cup HeldHits)
    /\ found' = found \cup (IF Blocks(EndHits) THEN EndHits ELSE EndHits \cup HeldHits)
    /\ Sever
    /\ UNCHANGED <<req, received, totalBytes, overlap, gateState, delivered, replied>>

(* The rest of the headers is written, and the socket it was written to is
   destroyed before the handler returns. *)
ClientEnd ==
    /\ client = "open"
    /\ ~Blocks(EndHits \cup HeldHits)
    /\ client' = "ended"
    /\ found' = found \cup EndHits \cup HeldHits
    /\ LET flush == ~headersFlushed /\ held > 0 IN
         /\ written' = IF flush THEN received ELSE written
         /\ held' = IF flush THEN 0 ELSE held
         /\ connects' = IF flush /\ ~upstreamSocket THEN connects + 1 ELSE connects
         /\ upstreamSocket' = (upstreamSocket \/ flush)
         /\ upstream' = IF flush \/ upstreamSocket THEN "destroyed" ELSE upstream
    /\ UNCHANGED <<req, received, totalBytes, overlap, headersFlushed, isHttpChecked,
                   isHttp, delivered, replied, blocked>>

ClientError ==
    /\ client = "open"
    /\ client' = "destroyed"
    /\ upstream' = IF upstreamSocket THEN Destroyed(upstream) ELSE upstream
    /\ UNCHANGED <<req, received, scanState, gateState, upstreamSocket, connects,
                   written, delivered, replied, blocked>>

-------------------------------------------------------------------------------
(* The upstream socket: what the network does, and UpstreamConnector's handlers. *)

UpstreamConnect ==
    /\ upstream = "connecting"
    /\ upstream' = "open"
    /\ UNCHANGED <<req, client, received, scanState, gateState, upstreamSocket,
                   connects, written, delivered, replied, blocked>>

Deliver ==
    /\ upstream \in {"open", "ended"}
    /\ \E d \in (delivered + 1) .. written : delivered' = d
    /\ UNCHANGED <<req, client, received, scanState, gateState, upState, written,
                   replied, blocked>>

UpstreamData ==
    /\ upstream = "open"
    /\ replied < MaxReplies
    /\ replied' = IF Live(client) THEN replied + 1 ELSE replied
    /\ UNCHANGED <<req, client, received, scanState, gateState, upState, written,
                   delivered, blocked>>

(* A response chunk that holds a complete secret, in block mode. *)
UpstreamDataBlocked ==
    /\ upstream = "open"
    /\ Scans /\ req.mode = "block"
    /\ client' = "destroyed"
    /\ upstream' = "destroyed"
    /\ upstreamSocket' = FALSE
    /\ blocked' = TRUE
    /\ UNCHANGED <<req, received, scanState, gateState, connects, written,
                   delivered, replied>>

(* The handler forgets the socket; node ends it, since allowHalfOpen is off. *)
UpstreamEnd ==
    /\ upstream = "open"
    /\ upstream' = "ended"
    /\ client' = IF client = "open" THEN "destroyed" ELSE client
    /\ upstreamSocket' = FALSE
    /\ UNCHANGED <<req, received, scanState, gateState, connects, written,
                   delivered, replied, blocked>>

UpstreamFinish ==
    /\ upstream = "ended"
    /\ upstream' = "destroyed"
    /\ UNCHANGED <<req, client, received, scanState, gateState, upstreamSocket,
                   connects, written, delivered, replied, blocked>>

(* Mutation: the error handler forgets the client socket. *)
UpstreamErrorSilent ==
    /\ upstream \in {"connecting", "open"}
    /\ upstream' = "destroyed"
    /\ upstreamSocket' = FALSE
    /\ UNCHANGED <<req, client, received, scanState, gateState, connects, written,
                   delivered, replied, blocked>>

UpstreamError ==
    /\ upstream \in {"connecting", "open"}
    /\ upstream' = "destroyed"
    /\ client' = IF client = "open" THEN "destroyed" ELSE client
    /\ upstreamSocket' = FALSE
    /\ UNCHANGED <<req, received, scanState, gateState, connects, written,
                   delivered, replied, blocked>>

Next ==
    \/ ClientData \/ ClientEnd \/ ClientEndBlocked \/ ClientError
    \/ UpstreamConnect \/ Deliver \/ UpstreamData \/ UpstreamDataBlocked
    \/ UpstreamEnd \/ UpstreamFinish \/ UpstreamError

(* The kernel either completes or fails a connection attempt and delivers
   what was written to a live connection; nothing is assumed of the client
   or of the upstream host. *)
Fairness == WF_vars(UpstreamConnect) /\ WF_vars(Deliver)

Spec == Init /\ [][Next]_vars /\ Fairness

-------------------------------------------------------------------------------
TypeOK ==
    /\ req \in Requests
    /\ client \in {"open", "ended", "destroyed"}
    /\ received \in 0 .. req.length /\ totalBytes \in Nat /\ overlap \in Nat
    /\ held \in Nat /\ headersFlushed \in BOOLEAN
    /\ isHttpChecked \in BOOLEAN /\ isHttp \in BOOLEAN
    /\ upstreamSocket \in BOOLEAN
    /\ upstream \in {"none", "connecting", "open", "ended", "destroyed"}
    /\ connects \in Nat /\ written \in Nat /\ delivered \in Nat /\ replied \in Nat
    /\ found \subseteq req.secrets
    /\ blocked \in BOOLEAN

Enforced == ~req.isAllowed /\ req.mode = "block"

(* A secret the sliding window is wide enough for. *)
FitsOverlap(s) == s.last - s.first <= overlapSize

(* A secret of the header block, or of the capped part of a request without one. *)
InHeaders(s) ==
    s.last <= HeaderCap /\ (req.headerEnd = 0 \/ s.last <= req.headerEnd)

(* However the client cuts its request into chunks, no byte that completes a
   secret is handed to the upstream socket in block mode, as long as the
   secret fits the overlap and ends in a chunk that began below
   MAX_BUFFER_BYTES (the sliding window of TlsInterceptor). *)
NoSecretForwarded ==
    Enforced => \A s \in req.secrets :
                    FitsOverlap(s) /\ s.last <= totalBytes => written < s.last

(* In block and in warn mode alike the scanner has reported every such secret
   of the bytes received so far, and once the client has ended its request
   every secret of the first megabyte, whatever its length. *)
ScannedAreFound ==
    Scans =>
        \A s \in req.secrets :
            \/ FitsOverlap(s) /\ s.last <= totalBytes
            \/ client = "ended" /\ s.last <= Lesser(totalBytes, ClampMax)
            => s \in found

(* The header gate: of a request recognised as HTTP no secret of the header
   block is handed over, whatever its length, because the block is scanned
   whole before its first byte leaves. *)
HeaderSecretsHeld ==
    Enforced /\ isHttp =>
        \A s \in req.secrets :
            InHeaders(s) => written < s.last

(* Traffic that must not be inspected is not held back: of an excluded host,
   of the channel switched off, and of a protocol that is not HTTP once the
   prefix has been probed, everything received has been handed over. *)
BypassNotHeld ==
    client = "open" /\ (~Scans \/ (req.method = 0 /\ received >= MethodProbe))
        => written = received

(* ensureUpstream never opens a second connection: no byte of a request can
   reach the host without the bytes before it. *)
OneUpstream == connects <= 1

(* After either side has torn the tunnel down nothing more is written in
   either direction, and after a block nothing more reaches the host. *)
SilentAfterTeardown ==
    [][/\ client # "open" => written' = written /\ replied' = replied
       /\ blocked => delivered' = delivered]_vars

(* Why the properties above hold: the strengthening their proofs rest on. *)

(* Below the limit the field counts every byte and lastOverlap is as long as
   it can be; the header buffer holds all that came, or nothing. *)
CountersAgree ==
    /\ totalBytes <= received /\ written <= received
    /\ totalBytes < MaxBuffer => totalBytes = received
    /\ client = "open" =>
         /\ Scans /\ totalBytes < MaxBuffer => overlap = Lesser(overlapSize, totalBytes)
         /\ ~headersFlushed => held = received /\ written = 0
         /\ headersFlushed => written = received

(* While an enforced tunnel is open the scanner has reported nothing. *)
CleanWhileOpen == Enforced /\ client = "open" => found = {}

GateWasClean ==
    Enforced /\ isHttp /\ headersFlushed /\ client = "open"
        => \A s \in req.secrets : ~InHeaders(s)

(* The field and the socket agree as long as the client side is open, and a
   client that has ended leaves no socket behind. *)
SocketsAgree ==
    /\ client = "open" /\ upstreamSocket => upstream \in {"connecting", "open"}
    /\ client = "open" /\ ~upstreamSocket =>
           upstream = "none" /\ connects = 0 /\ ~headersFlushed
    /\ connects <= 1
    /\ client = "ended" => upstream \in {"none", "destroyed"}
    /\ blocked => client = "destroyed" /\ upstream \in {"none", "destroyed"}

Reported ==
    Scans => \A s \in req.secrets :
        FitsOverlap(s) /\ s.last <= totalBytes => s \in found

ReportedAtEnd ==
    Scans /\ client = "ended" => \A s \in req.secrets :
        s.last <= Lesser(totalBytes, ClampMax) => s \in found

(* Only what looks like HTTP, and is to be scanned, is held back. *)
HeldForAReason ==
    client = "open" /\ ~headersFlushed =>
        /\ ~Scans => received = 0
        /\ isHttpChecked \/ received >= MethodProbe => isHttpChecked /\ req.method > 0

(* The inductive invariant of the tunnel. *)
IInv == /\ TypeOK /\ CountersAgree /\ CleanWhileOpen /\ GateWasClean /\ SocketsAgree
        /\ Reported /\ ReportedAtEnd /\ HeldForAReason
        /\ NoSecretForwarded /\ HeaderSecretsHeld

(* What has been handed over arrives, unless the tunnel is torn down: an
   upstream failure never leaves a client waiting on a dead socket. *)
ForwardedArrives ==
    \A k \in 1 .. MaxBuffer :
        (written >= k) ~> (delivered >= k \/ client # "open")

(* The tunnel is an egress gate over the secrets that fit the overlap and
   end within the first megabyte. *)
Guarded == {s \in req.secrets : FitsOverlap(s) /\ s.last <= MaxBuffer}
Gate == INSTANCE EgressGate WITH
            Parcels <- {[enforced |-> ~r.isAllowed /\ r.mode = "block",
                         length   |-> r.length,
                         guarded  |-> {s \in r.secrets : FitsOverlap(s) /\ s.last <= MaxBuffer}]
                        : r \in Requests},
            parcel <- [enforced |-> Enforced, length |-> req.length, guarded |-> Guarded],
            forwarded <- written,
            open <- client = "open"
GateSpec == Gate!Spec

-------------------------------------------------------------------------------
(* docs/network-security-deep-dive-and-roadmap.md:126 says that incoming
   chunks are gated into headerBuffer until CR LF CR LF has been seen, and the
   comment at TlsInterceptor.ts:83 that early chunks cannot leak.  Here: no
   byte of an HTTP request leaves before its header block is complete or the
   cap is reached. *)
HeadersGated ==
    Scans /\ client = "open" /\ req.method > 0 /\ written > 0
        => \/ received >= HeaderCap
           \/ req.headerEnd \in 1 .. received
===============================================================================
