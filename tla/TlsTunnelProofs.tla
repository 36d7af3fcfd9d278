--------------------------- MODULE TlsTunnelProofs ----------------------------
(* Theorems about TlsTunnel for every value of its constants. *)
EXTENDS TlsTunnel, TLAPS

-------------------------------------------------------------------------------
(* The request and the window. *)

(* What the assumption on the requests says of the one a state holds. *)
LEMMA RequestFacts ==
    ASSUME req \in Requests
    PROVE  /\ req.length \in Nat /\ req.method \in Nat /\ req.headerEnd \in Nat
           /\ req.isAllowed \in BOOLEAN /\ req.mode \in {"block", "warn", "off"}
           /\ \A s \in req.secrets :
                 /\ s.first \in Nat \ {0} /\ s.last \in Nat \ {0}
                 /\ s.first <= s.last /\ s.last <= req.length
<1>1. req \in Request /\ \A s \in req.secrets : s.first <= s.last /\ s.last <= req.length
  BY RequestsAssumption
<1>2. req.secrets \subseteq Secret
  BY <1>1 DEF Request
<1>3. ASSUME NEW s \in req.secrets PROVE s.first \in Nat \ {0} /\ s.last \in Nat \ {0}
  BY <1>2 DEF Secret
<1> QED BY <1>1, <1>3 DEF Request

(* overlapSize is a size and does not exceed OverlapCeil. *)
LEMMA OverlapBounds == overlapSize \in Nat /\ overlapSize <= OverlapCeil
BY SizesAssumption DEF overlapSize, Lesser, Greater

(* A secret that fits the overlap and ends in the chunk being scanned lies in
   the window lastOverlap + chunk: nothing can slip between two chunks. *)
LEMMA WindowCovers ==
    ASSUME TypeOK, CountersAgree, client = "open", Scans, Buffers,
           NEW n \in 1 .. MaxChunk, received + n <= req.length,
           NEW s \in req.secrets, FitsOverlap(s),
           s.last > totalBytes, s.last <= totalBytes + n
    PROVE  s \in ChunkHits(n)
<1>1. totalBytes = received /\ overlap = Lesser(overlapSize, received) /\ received \in Nat
  BY RequestFacts DEF TypeOK, CountersAgree, Buffers
<1>2. s.first \in Nat \ {0} /\ s.last \in Nat \ {0} /\ s.last - s.first <= overlapSize
  BY RequestFacts DEF TypeOK, FitsOverlap
<1>3. overlap \in Nat /\ overlap <= OverlapCeil /\ overlap <= received
  BY <1>1, OverlapBounds, SizesAssumption DEF Lesser
<1>4. received + 1 - overlap <= s.first
  BY <1>1, <1>2, OverlapBounds DEF Lesser
<1>5. s.last <= Lesser(received + n, (received + 1 - overlap) + ClampMax - 1)
  BY <1>1, <1>2, <1>3, SizesAssumption DEF Lesser
<1> QED BY <1>4, <1>5 DEF ChunkHits, Hits

(* What a scan finds are secrets of the request. *)
LEMMA HitsAreSecrets ==
    /\ \A n : ChunkHits(n) \subseteq req.secrets /\ GateHits(n) \subseteq req.secrets
    /\ EndHits \subseteq req.secrets /\ HeldHits \subseteq req.secrets
BY DEF ChunkHits, GateHits, EndHits, HeldHits, Hits

-------------------------------------------------------------------------------
(* Type correctness. *)

(* The initial states are well typed. *)
LEMMA TypeInit == Init => TypeOK
<1> SUFFICES ASSUME Init PROVE TypeOK
  OBVIOUS
<1>1. req.length \in Nat
  BY RequestFacts DEF Init
<1>2. received \in 0 .. req.length /\ found \subseteq req.secrets
  BY <1>1 DEF Init
<1> QED BY <1>2 DEF Init, TypeOK

(* What a chunk does to the counters keeps their types. *)
LEMMA TypeChunk ==
    ASSUME TypeOK, NEW n \in 1 .. MaxChunk, Chunk(n)
    PROVE  /\ req' = req /\ received' \in 0 .. req.length /\ totalBytes' \in Nat
           /\ delivered' = delivered /\ replied' = replied
<1>1. req.length \in Nat /\ MaxChunk \in Nat
  BY RequestFacts, SizesAssumption DEF TypeOK
<1> QED BY <1>1 DEF TypeOK, Chunk

(* A chunk that passes its scan keeps the type of the overlap. *)
LEMMA TypeScan ==
    ASSUME TypeOK, NEW n \in 1 .. MaxChunk, PassesScan(n)
    PROVE  overlap' \in Nat
<1>1. n \in Nat
  BY SizesAssumption
<1> QED BY <1>1, OverlapBounds DEF TypeOK, PassesScan, Lesser

(* The two safeDestroy calls keep the types of the sockets. *)
LEMMA TypeSever ==
    ASSUME TypeOK, Sever
    PROVE  /\ client' \in {"open", "ended", "destroyed"} /\ blocked' \in BOOLEAN
           /\ upstream' \in {"none", "connecting", "open", "ended", "destroyed"}
           /\ upstreamSocket' \in BOOLEAN /\ connects' \in Nat /\ written' \in Nat
BY DEF TypeOK, Sever, Destroyed

(* ensureUpstream and up.write keep the types of the upstream side. *)
LEMMA TypeWrite ==
    ASSUME TypeOK, NEW k \in Nat, WriteUpstream(k)
    PROVE  /\ upstream' \in {"none", "connecting", "open", "ended", "destroyed"}
           /\ upstreamSocket' \in BOOLEAN /\ connects' \in Nat /\ written' \in Nat
BY DEF TypeOK, WriteUpstream, EnsureUpstream

(* Every branch of the 'data' handler keeps the type invariant. *)
LEMMA TypeClientData == TypeOK /\ ClientData => TypeOK'
<1> SUFFICES ASSUME TypeOK, NEW n \in 1 .. MaxChunk,
                    \/ ChunkBlocked(n) \/ BypassGate(n) \/ HoldHeaders(n)
                    \/ HeadersBlocked(n) \/ FlushHeaders(n) \/ ForwardChunk(n)
             PROVE  TypeOK'
  BY DEF ClientData
<1>1. n \in Nat /\ held + n \in Nat /\ received + n \in Nat
  BY SizesAssumption, RequestFacts DEF TypeOK
<1>2. StartsMethod(n) \in BOOLEAN /\ Probed(n) \in BOOLEAN /\ HttpAfter(n) \in BOOLEAN
  BY DEF StartsMethod, Probed, HttpAfter, TypeOK
<1>3. CASE ChunkBlocked(n)
  BY <1>3, TypeChunk, TypeSever, HitsAreSecrets DEF ChunkBlocked, TypeOK, gateState
<1>4. CASE BypassGate(n)
  <2>1. Chunk(n) /\ PassesScan(n) /\ HeldChunk(n)
    BY <1>4 DEF BypassGate, HeldChunk, PassesScan
  <2>2. WriteUpstream(received + n)
    BY <1>4 DEF BypassGate
  <2> QED BY <1>1, <1>2, <1>4, <2>1, <2>2, TypeChunk, TypeScan, TypeWrite, HitsAreSecrets
          DEF BypassGate, HeldChunk, TypeOK
<1>5. CASE HoldHeaders(n)
  <2>1. Chunk(n) /\ PassesScan(n) /\ HeldChunk(n)
    BY <1>5 DEF HoldHeaders, HeldChunk, PassesScan
  <2> QED BY <1>1, <1>2, <1>5, <2>1, TypeChunk, TypeScan, HitsAreSecrets
          DEF HoldHeaders, HeldChunk, TypeOK, upState
<1>6. CASE HeadersBlocked(n)
  <2>1. Chunk(n) /\ PassesScan(n) /\ HeldChunk(n)
    BY <1>6 DEF HeadersBlocked, HeldChunk, PassesScan
  <2> QED BY <1>1, <1>2, <1>6, <2>1, TypeChunk, TypeScan, TypeSever, HitsAreSecrets
          DEF HeadersBlocked, HeldChunk, TypeOK
<1>7. CASE FlushHeaders(n)
  <2>1. Chunk(n) /\ PassesScan(n) /\ HeldChunk(n)
    BY <1>7 DEF FlushHeaders, HeldChunk, PassesScan
  <2>2. WriteUpstream(received + n)
    BY <1>7 DEF FlushHeaders
  <2> QED BY <1>1, <1>2, <1>7, <2>1, <2>2, TypeChunk, TypeScan, TypeWrite, HitsAreSecrets
          DEF FlushHeaders, HeldChunk, TypeOK
<1>8. CASE ForwardChunk(n)
  <2>1. Chunk(n) /\ PassesScan(n) /\ WriteUpstream(received + n)
    BY <1>8 DEF ForwardChunk, PassesScan
  <2> QED BY <1>1, <1>8, <2>1, TypeChunk, TypeScan, TypeWrite, HitsAreSecrets
          DEF ForwardChunk, TypeOK, gateState
<1> QED BY <1>3, <1>4, <1>5, <1>6, <1>7, <1>8

(* So does every step. *)
LEMMA TypeNext == TypeOK /\ [Next]_vars => TypeOK'
<1> SUFFICES ASSUME TypeOK, [Next]_vars PROVE TypeOK'
  OBVIOUS
<1>1. CASE ClientData
  BY <1>1, TypeClientData
<1>2. CASE ClientEnd
  <2>1. received \in Nat
    BY RequestFacts DEF TypeOK
  <2> QED BY <1>2, <2>1, HitsAreSecrets DEF TypeOK, ClientEnd
<1>3. CASE ClientEndBlocked
  BY <1>3, TypeSever, HitsAreSecrets DEF TypeOK, ClientEndBlocked, gateState
<1>4. CASE ClientError
  BY <1>4 DEF TypeOK, ClientError, Destroyed, scanState, gateState
<1>5. CASE UpstreamConnect \/ UpstreamFinish
  BY <1>5 DEF TypeOK, UpstreamConnect, UpstreamFinish, scanState, gateState
<1>6. CASE Deliver
  <2>1. PICK d \in (delivered + 1) .. written : delivered' = d
    BY <1>6 DEF Deliver
  <2>2. delivered' \in Nat
    BY <2>1 DEF TypeOK
  <2> QED BY <1>6, <2>2 DEF TypeOK, Deliver, scanState, gateState, upState
<1>7. CASE UpstreamData
  BY <1>7 DEF TypeOK, UpstreamData, scanState, gateState, upState
<1>8. CASE UpstreamDataBlocked
  BY <1>8 DEF TypeOK, UpstreamDataBlocked, scanState, gateState
<1>9. CASE UpstreamEnd \/ UpstreamError
  BY <1>9 DEF TypeOK, UpstreamEnd, UpstreamError, scanState, gateState
<1>10. CASE UNCHANGED vars
  BY <1>10 DEF TypeOK, vars, scanState, gateState, upState
<1> QED BY <1>1, <1>2, <1>3, <1>4, <1>5, <1>6, <1>7, <1>8, <1>9, <1>10 DEF Next

(* Every variable of the tunnel keeps its type. *)
THEOREM TypeCorrect == Spec => []TypeOK
BY TypeInit, TypeNext, PTL DEF Spec

-------------------------------------------------------------------------------
(* The inductive invariant.  First what a chunk does to it. *)

(* After a chunk everything its window covers is reported. *)
LEMMA ChunkReported ==
    ASSUME IInv, NEW n \in 1 .. MaxChunk, Chunk(n),
           found \subseteq found', ChunkHits(n) \subseteq found'
    PROVE  Reported'
<1> SUFFICES ASSUME Scans, NEW s \in req.secrets, FitsOverlap(s), s.last <= totalBytes'
             PROVE  s \in found'
  BY DEF Reported, Scans, Chunk, FitsOverlap
<1>1. CASE s.last <= totalBytes
  BY <1>1 DEF IInv, Reported
<1>2. CASE s.last > totalBytes
  <2>1. Buffers /\ totalBytes' = totalBytes + n
    BY <1>2, RequestFacts DEF Chunk, IInv, TypeOK
  <2> QED BY <1>2, <2>1, WindowCovers DEF IInv, Chunk
<1>3. s.last \in Nat /\ totalBytes \in Nat
  BY RequestFacts DEF IInv, TypeOK
<1> QED BY <1>1, <1>2, <1>3

(* A chunk that passes the scan leaves no secret the overlap covers behind. *)
LEMMA PassedIsClean ==
    ASSUME IInv, NEW n \in 1 .. MaxChunk, Chunk(n), ~Blocks(ChunkHits(n)), Enforced,
           NEW s \in req.secrets, FitsOverlap(s), s.last <= totalBytes'
    PROVE  FALSE
<1>1. Scans /\ ChunkHits(n) = {} /\ found = {}
  BY DEF IInv, CleanWhileOpen, Enforced, Scans, Blocks, Chunk
<1>2. s.last > totalBytes
  BY <1>1, RequestFacts DEF IInv, Reported, TypeOK
<1>3. Buffers /\ totalBytes' = totalBytes + n
  BY <1>2, RequestFacts DEF Chunk, IInv, TypeOK
<1> QED BY <1>1, <1>2, <1>3, WindowCovers DEF IInv, Chunk

(* Opening the gate: every secret of the header block would have been found. *)
LEMMA GateCovers ==
    ASSUME IInv, NEW n \in 1 .. MaxChunk, Scans, GateOpens(n),
           NEW s \in req.secrets, InHeaders(s)
    PROVE  s \in GateHits(n)
<1>1. /\ s.first \in Nat \ {0} /\ s.last \in Nat \ {0} /\ s.first <= s.last
      /\ held + n \in Nat /\ req.headerEnd \in Nat
  BY RequestFacts, SizesAssumption DEF IInv, TypeOK
<1>2. s.last <= held + n
  BY <1>1, SizesAssumption DEF GateOpens, InHeaders
<1>3. s.last <= 1 + ClampMax - 1
  BY <1>1, SizesAssumption DEF InHeaders
<1> QED BY <1>1, <1>2, <1>3 DEF GateHits, Hits, Lesser

(* A severed tunnel: nothing was written, and the offending secret ends in
   the bytes that were not written. *)
LEMMA SeverKeeps ==
    ASSUME IInv, NEW n \in 1 .. MaxChunk, Chunk(n), Sever
    PROVE  /\ CleanWhileOpen' /\ GateWasClean' /\ SocketsAgree' /\ CountersAgree'
           /\ NoSecretForwarded' /\ ReportedAtEnd' /\ HeldForAReason'
<1>1. client' = "destroyed" /\ written' = written
  BY DEF Sever
<1>2. /\ n \in Nat /\ received \in Nat /\ totalBytes \in Nat /\ written \in Nat
      /\ received' = received + n /\ req' = req /\ client = "open"
  BY RequestFacts, SizesAssumption DEF IInv, TypeOK, Chunk
<1>3. totalBytes' = totalBytes \/ (totalBytes = received /\ totalBytes' = totalBytes + n)
  BY <1>2 DEF IInv, CountersAgree, Chunk, Buffers
<1>4. CountersAgree'
  BY <1>1, <1>2, <1>3, SizesAssumption DEF IInv, CountersAgree, Chunk, Buffers
<1>5. SocketsAgree'
  BY <1>1, <1>2 DEF IInv, SocketsAgree, Sever, Destroyed, Live
<1>6. NoSecretForwarded'
  <2> SUFFICES ASSUME Enforced, NEW s \in req.secrets, FitsOverlap(s), s.last <= totalBytes'
               PROVE  written < s.last
    BY <1>1, <1>2 DEF NoSecretForwarded, Enforced, FitsOverlap
  <2>1. found = {} /\ Scans
    BY <1>2 DEF IInv, CleanWhileOpen, Enforced, Scans
  <2>2. s.last > totalBytes /\ s.last \in Nat
    BY <1>2, <2>1, RequestFacts DEF IInv, Reported, TypeOK
  <2> QED BY <1>2, <1>3, <2>2 DEF IInv, CountersAgree
<1> QED BY <1>1, <1>4, <1>5, <1>6 DEF CleanWhileOpen, GateWasClean, ReportedAtEnd,
        HeldForAReason

(* What a scanned chunk that may be written does to the counters. *)
LEMMA WriteKeeps ==
    ASSUME IInv, NEW n \in 1 .. MaxChunk, PassesScan(n), WriteUpstream(received + n),
           headersFlushed', client' = client, blocked' = blocked
    PROVE  CountersAgree' /\ SocketsAgree' /\ ReportedAtEnd' /\ HeldForAReason'
<1>1. /\ n \in Nat /\ received \in Nat /\ totalBytes \in Nat /\ written \in Nat
      /\ received' = received + n /\ req' = req /\ client = "open" /\ overlap \in Nat
  BY RequestFacts, SizesAssumption DEF IInv, TypeOK, Chunk, PassesScan
<1>2. upstream' \in {"connecting", "open"} /\ upstreamSocket' /\ connects' <= 1
  BY <1>1 DEF IInv, SocketsAgree, WriteUpstream, EnsureUpstream
<1>3. written' = received'
  BY <1>1, <1>2 DEF WriteUpstream, Live
<1>4. SocketsAgree'
  BY <1>1, <1>2 DEF IInv, SocketsAgree
<1>5. Scans /\ totalBytes' < MaxBuffer => overlap' = Lesser(overlapSize, totalBytes')
  BY <1>1, OverlapBounds, SizesAssumption
     DEF IInv, CountersAgree, PassesScan, Chunk, Buffers, Lesser
<1>6. totalBytes' <= received' /\ (totalBytes' < MaxBuffer => totalBytes' = received')
  BY <1>1, SizesAssumption DEF IInv, CountersAgree, PassesScan, Chunk, Buffers
<1> QED BY <1>1, <1>3, <1>4, <1>5, <1>6
        DEF CountersAgree, Scans, ReportedAtEnd, HeldForAReason

(* What a chunk that passes its scan does to the counters. *)
LEMMA PassKeeps ==
    ASSUME IInv, NEW n \in 1 .. MaxChunk, Chunk(n), ~Blocks(ChunkHits(n)),
           found' \subseteq found \cup ChunkHits(n) \cup GateHits(n),
           Blocks(GateHits(n)) => found' \subseteq found \cup ChunkHits(n)
    PROVE  CleanWhileOpen' /\ NoSecretForwarded'
<1>1. req' = req /\ client = "open"
  BY DEF Chunk
<1>2. NoSecretForwarded'
  <2> SUFFICES ASSUME Enforced, NEW s \in req.secrets, FitsOverlap(s), s.last <= totalBytes'
               PROVE  FALSE
    BY <1>1 DEF NoSecretForwarded, Enforced, FitsOverlap
  <2> QED BY PassedIsClean
<1>3. CleanWhileOpen'
  <2> SUFFICES ASSUME Enforced PROVE found' = {}
    BY <1>1 DEF CleanWhileOpen, Enforced
  <2>1. found = {} /\ ChunkHits(n) = {}
    BY <1>1 DEF IInv, CleanWhileOpen, Blocks, Enforced
  <2> QED BY <2>1 DEF Blocks, Enforced
<1> QED BY <1>2, <1>3

(* The chunk whose scan blocks: nothing is written and both sides go down. *)
LEMMA IInvChunkBlocked ==
    ASSUME IInv, NEW n \in 1 .. MaxChunk, ChunkBlocked(n)
    PROVE  TypeOK' => IInv'
<1>1. Chunk(n) /\ Sever /\ req' = req
  BY DEF ChunkBlocked, Chunk
<1>2. Reported'
  BY <1>1, ChunkReported DEF ChunkBlocked
<1>3. HeaderSecretsHeld'
  BY <1>1 DEF IInv, HeaderSecretsHeld, InHeaders, Enforced, ChunkBlocked, Sever, gateState
<1> QED BY <1>1, <1>2, <1>3, SeverKeeps DEF IInv

(* The chunk that shows the traffic is not HTTP is handed over scanned. *)
LEMMA IInvBypassGate ==
    ASSUME IInv, NEW n \in 1 .. MaxChunk, BypassGate(n)
    PROVE  TypeOK' => IInv'
<1>1. /\ Chunk(n) /\ PassesScan(n) /\ WriteUpstream(received + n) /\ ~Blocks(ChunkHits(n))
      /\ headersFlushed' /\ client' = client /\ blocked' = blocked /\ ~isHttp'
  BY DEF BypassGate, HeldChunk, PassesScan
<1>2. Reported'
  BY <1>1, ChunkReported DEF BypassGate
<1>3. CountersAgree' /\ SocketsAgree' /\ ReportedAtEnd' /\ HeldForAReason'
  BY <1>1, WriteKeeps
<1>4. CleanWhileOpen' /\ NoSecretForwarded'
  BY <1>1, PassKeeps DEF BypassGate
<1> QED BY <1>1, <1>2, <1>3, <1>4 DEF IInv, GateWasClean, HeaderSecretsHeld

(* A chunk that is held back keeps the gate shut and the counters in step. *)
LEMMA IInvHoldHeaders ==
    ASSUME IInv, NEW n \in 1 .. MaxChunk, HoldHeaders(n)
    PROVE  TypeOK' => IInv'
<1>1. /\ Chunk(n) /\ PassesScan(n) /\ ~Blocks(ChunkHits(n)) /\ req' = req
      /\ ~headersFlushed' /\ ~headersFlushed /\ client' = client /\ client = "open"
      /\ written' = written /\ held' = held + n
  BY DEF HoldHeaders, HeldChunk, PassesScan, Chunk
<1>2. Reported'
  BY <1>1, ChunkReported DEF HoldHeaders
<1>3. /\ n \in Nat /\ received \in Nat /\ totalBytes \in Nat /\ overlap \in Nat
      /\ received' = received + n /\ written = 0 /\ held = received
  BY <1>1, RequestFacts, SizesAssumption DEF IInv, TypeOK, Chunk, CountersAgree
<1>4. Scans /\ totalBytes' < MaxBuffer => overlap' = Lesser(overlapSize, totalBytes')
  BY <1>1, <1>3, OverlapBounds, SizesAssumption
     DEF IInv, CountersAgree, PassesScan, Chunk, Buffers, Lesser
<1>5. totalBytes' <= received' /\ (totalBytes' < MaxBuffer => totalBytes' = received')
  BY <1>1, <1>3, SizesAssumption DEF IInv, CountersAgree, PassesScan, Chunk, Buffers
<1>6. CountersAgree'
  BY <1>1, <1>3, <1>4, <1>5 DEF CountersAgree, Scans
<1>7. SocketsAgree'
  BY <1>1 DEF IInv, SocketsAgree, HoldHeaders, upState
<1>8. CleanWhileOpen' /\ NoSecretForwarded'
  BY <1>1, PassKeeps DEF HoldHeaders
<1>9. HeaderSecretsHeld'
  BY <1>1, <1>3, RequestFacts DEF HeaderSecretsHeld, IInv, TypeOK
<1>10. HeldForAReason'
  <2>1. /\ Scans /\ (isHttpChecked \/ HttpAfter(n)) /\ isHttpChecked' = Probed(n)
        /\ req.method \in Nat /\ MethodProbe \in Nat
    BY RequestFacts, SizesAssumption
       DEF HoldHeaders, HeldChunk, GateOpens, IInv, TypeOK
  <2>2. Scans'
    BY <1>1, <2>1 DEF Scans
  <2>3. CASE isHttpChecked
    BY <1>1, <2>1, <2>2, <2>3 DEF IInv, HeldForAReason, Probed
  <2>4. CASE ~isHttpChecked
    BY <1>1, <1>3, <2>1, <2>2, <2>4 DEF HeldForAReason, Probed, HttpAfter, StartsMethod
  <2> QED BY <2>3, <2>4
<1> QED BY <1>1, <1>2, <1>6, <1>7, <1>8, <1>9, <1>10 DEF IInv, GateWasClean, ReportedAtEnd

(* The header block whose scan blocks is never written. *)
LEMMA IInvHeadersBlocked ==
    ASSUME IInv, NEW n \in 1 .. MaxChunk, HeadersBlocked(n)
    PROVE  TypeOK' => IInv'
<1>1. Chunk(n) /\ Sever /\ req' = req /\ written' = 0
  BY DEF HeadersBlocked, HeldChunk, PassesScan, Chunk, Sever, IInv, CountersAgree
<1>2. Reported'
  BY <1>1, ChunkReported DEF HeadersBlocked
<1>3. HeaderSecretsHeld'
  BY <1>1, RequestFacts DEF HeaderSecretsHeld, IInv, TypeOK
<1> QED BY <1>1, <1>2, <1>3, SeverKeeps DEF IInv

(* The header block is handed over only after all of it was found clean. *)
LEMMA IInvFlushHeaders ==
    ASSUME IInv, NEW n \in 1 .. MaxChunk, FlushHeaders(n)
    PROVE  TypeOK' => IInv'
<1>1. /\ Chunk(n) /\ PassesScan(n) /\ WriteUpstream(received + n) /\ ~Blocks(ChunkHits(n))
      /\ headersFlushed' /\ client' = client /\ blocked' = blocked /\ req' = req
      /\ GateOpens(n) /\ ~Blocks(GateHits(n))
  BY DEF FlushHeaders, HeldChunk, PassesScan, Chunk
<1>2. Reported'
  BY <1>1, ChunkReported DEF FlushHeaders
<1>3. CountersAgree' /\ SocketsAgree' /\ ReportedAtEnd' /\ HeldForAReason'
  BY <1>1, WriteKeeps
<1>4. CleanWhileOpen' /\ NoSecretForwarded'
  BY <1>1, PassKeeps DEF FlushHeaders
<1>5. Enforced => \A s \in req.secrets : ~InHeaders(s)
  BY <1>1, GateCovers DEF Enforced, Scans, Blocks
<1>6. HeaderSecretsHeld' /\ GateWasClean'
  BY <1>1, <1>5 DEF HeaderSecretsHeld, GateWasClean, Enforced, InHeaders
<1> QED BY <1>2, <1>3, <1>4, <1>6 DEF IInv

(* Past the gate a chunk is handed over only if its window is clean. *)
LEMMA IInvForwardChunk ==
    ASSUME IInv, NEW n \in 1 .. MaxChunk, ForwardChunk(n)
    PROVE  TypeOK' => IInv'
<1>1. /\ Chunk(n) /\ PassesScan(n) /\ WriteUpstream(received + n) /\ ~Blocks(ChunkHits(n))
      /\ headersFlushed /\ headersFlushed' /\ client' = client /\ client = "open"
      /\ blocked' = blocked /\ req' = req /\ isHttp' = isHttp
  BY DEF ForwardChunk, PassesScan, Chunk, gateState
<1>2. Reported'
  BY <1>1, ChunkReported DEF ForwardChunk
<1>3. CountersAgree' /\ SocketsAgree' /\ ReportedAtEnd' /\ HeldForAReason'
  BY <1>1, WriteKeeps
<1>4. CleanWhileOpen' /\ NoSecretForwarded'
  BY <1>1, PassKeeps DEF ForwardChunk
<1>5. HeaderSecretsHeld' /\ GateWasClean'
  BY <1>1 DEF IInv, HeaderSecretsHeld, GateWasClean, Enforced, InHeaders
<1> QED BY <1>2, <1>3, <1>4, <1>5 DEF IInv

-------------------------------------------------------------------------------
(* The other handlers. *)

(* A step that neither reads nor writes request bytes and leaves the client
   alone, or one that takes the client down. *)
LEMMA IInvOther ==
    ASSUME IInv, SocketsAgree',
           UNCHANGED <<req, received, totalBytes, overlap, gateState, written>>,
           found \subseteq found',
           (client' = client /\ found' = found) \/ client' = "destroyed"
               \/ (client' = client /\ client # "open")
    PROVE  TypeOK' => IInv'
<1>1. CountersAgree' /\ CleanWhileOpen' /\ GateWasClean' /\ HeldForAReason'
  BY DEF IInv, CountersAgree, CleanWhileOpen, GateWasClean, HeldForAReason, InHeaders,
         Enforced, Scans, gateState
<1>2. Reported' /\ ReportedAtEnd' /\ NoSecretForwarded' /\ HeaderSecretsHeld'
  BY DEF IInv, Reported, ReportedAtEnd, NoSecretForwarded, HeaderSecretsHeld, InHeaders, FitsOverlap,
         Enforced, Scans, gateState
<1> QED BY <1>1, <1>2 DEF IInv

(* The 'end' handler: what it flushes was scanned, and all is reported. *)
LEMMA IInvClientEnd == IInv /\ ClientEnd => (TypeOK' => IInv')
<1> SUFFICES ASSUME IInv, ClientEnd PROVE TypeOK' => IInv'
  OBVIOUS
<1>1. /\ client = "open" /\ client' = "ended" /\ req' = req /\ received' = received
      /\ totalBytes' = totalBytes /\ found \subseteq found' /\ isHttp' = isHttp
      /\ headersFlushed' = headersFlushed /\ blocked' = blocked
  BY DEF ClientEnd
<1>2. /\ received \in Nat /\ totalBytes \in Nat /\ written \in Nat /\ held \in Nat
      /\ written <= received
      /\ \A s \in req.secrets : s.last \in Nat \ {0} /\ s.first \in Nat \ {0}
  BY RequestFacts DEF IInv, TypeOK, CountersAgree
<1>3. written' \in {written, received}
  BY <1>1 DEF ClientEnd
<1>4. CountersAgree'
  BY <1>1, <1>2, <1>3 DEF IInv, CountersAgree
<1>5. SocketsAgree'
  BY <1>1 DEF IInv, SocketsAgree, ClientEnd
<1>6. Reported'
  BY <1>1 DEF IInv, Reported, Scans, FitsOverlap
<1>7. NoSecretForwarded'
  <2> SUFFICES ASSUME Enforced, NEW s \in req.secrets, FitsOverlap(s), s.last <= totalBytes
               PROVE  FALSE
    BY <1>1 DEF NoSecretForwarded, Enforced, FitsOverlap
  <2> QED BY <1>1 DEF IInv, Reported, CleanWhileOpen, Enforced, Scans
<1>8. HeaderSecretsHeld'
  <2> SUFFICES ASSUME Enforced, isHttp, NEW s \in req.secrets, InHeaders(s)
               PROVE  written' < s.last
    BY <1>1 DEF HeaderSecretsHeld, Enforced, InHeaders
  <2>1. CASE written' = written
    BY <2>1 DEF IInv, HeaderSecretsHeld
  <2>2. CASE written' # written
    <3>1. ~headersFlushed /\ held > 0 /\ held = received /\ written' = received
      BY <1>1, <2>2 DEF ClientEnd, IInv, CountersAgree
    <3>2. HeldHits = {}
      BY DEF ClientEnd, Blocks, Enforced
    <3>3. s \notin Hits(1, held)
      BY <3>1, <3>2 DEF HeldHits, Enforced, Scans
    <3>4. s.last <= 1 + ClampMax - 1
      BY <1>2, SizesAssumption DEF InHeaders
    <3> QED BY <1>2, <3>1, <3>3, <3>4 DEF Hits, Lesser
  <2> QED BY <2>1, <2>2
<1>9. ReportedAtEnd'
  <2> SUFFICES ASSUME Scans, NEW s \in req.secrets, s.last <= Lesser(totalBytes, ClampMax)
               PROVE  s \in EndHits
    BY <1>1 DEF ReportedAtEnd, Scans, ClientEnd
  <2>1. /\ s.last <= totalBytes /\ s.last <= 1 + ClampMax - 1 /\ totalBytes > 0
        /\ s.first >= 1
    BY <1>2, SizesAssumption DEF Lesser
  <2> QED BY <2>1 DEF EndHits, Hits, Lesser
<1> QED BY <1>1, <1>4, <1>5, <1>6, <1>7, <1>8, <1>9
        DEF IInv, CleanWhileOpen, GateWasClean, HeldForAReason

(* The initial states satisfy the inductive invariant. *)
LEMMA IInvInit == Init => IInv
<1> SUFFICES ASSUME Init PROVE IInv
  OBVIOUS
<1>1. TypeOK
  BY TypeInit
<1>2. \A s \in req.secrets : s.last \in Nat \ {0}
  BY <1>1, RequestFacts DEF TypeOK
<1>3. Reported /\ NoSecretForwarded /\ HeaderSecretsHeld
  BY <1>2 DEF Init, Reported, NoSecretForwarded, HeaderSecretsHeld
<1>4. CountersAgree
  BY OverlapBounds DEF Init, CountersAgree, Lesser
<1>5. HeldForAReason
  BY SizesAssumption DEF Init, HeldForAReason
<1> QED BY <1>1, <1>3, <1>4, <1>5
        DEF Init, IInv, CleanWhileOpen, GateWasClean, SocketsAgree, ReportedAtEnd

(* The inductive invariant is kept by every step. *)
LEMMA IInvNext == IInv /\ [Next]_vars => IInv'
<1> SUFFICES ASSUME IInv, [Next]_vars PROVE IInv'
  OBVIOUS
<1>1. TypeOK'
  BY TypeNext DEF IInv
<1>2. CASE ClientData
  BY <1>1, <1>2, IInvChunkBlocked, IInvBypassGate, IInvHoldHeaders, IInvHeadersBlocked,
     IInvFlushHeaders, IInvForwardChunk DEF ClientData
<1>3. CASE ClientEnd
  BY <1>1, <1>3, IInvClientEnd
<1>4. CASE ClientEndBlocked
  <2>1. SocketsAgree'
    BY <1>4 DEF IInv, SocketsAgree, ClientEndBlocked, Sever, Destroyed, Live
  <2> QED BY <1>1, <1>4, <2>1, IInvOther DEF ClientEndBlocked, Sever
<1>5. CASE ClientError
  <2>1. SocketsAgree'
    BY <1>5 DEF IInv, SocketsAgree, ClientError, Destroyed, Live
  <2> QED BY <1>1, <1>5, <2>1, IInvOther DEF ClientError, scanState
<1>6. CASE UpstreamConnect \/ UpstreamFinish
  <2>1. SocketsAgree'
    BY <1>6 DEF IInv, SocketsAgree, UpstreamConnect, UpstreamFinish, gateState
  <2> QED BY <1>1, <1>6, <2>1, IInvOther DEF UpstreamConnect, UpstreamFinish, scanState
<1>7. CASE Deliver \/ UpstreamData
  <2>1. SocketsAgree'
    BY <1>7 DEF IInv, SocketsAgree, Deliver, UpstreamData, upState, gateState
  <2> QED BY <1>1, <1>7, <2>1, IInvOther DEF Deliver, UpstreamData, scanState
<1>8. CASE UpstreamDataBlocked
  <2>1. SocketsAgree'
    BY <1>8 DEF IInv, SocketsAgree, UpstreamDataBlocked
  <2> QED BY <1>1, <1>8, <2>1, IInvOther DEF UpstreamDataBlocked, scanState
<1>9. CASE UpstreamEnd \/ UpstreamError
  <2>1. SocketsAgree'
    BY <1>9 DEF IInv, SocketsAgree, UpstreamEnd, UpstreamError, TypeOK
  <2>2. client' = "destroyed" \/ (client' = client /\ client # "open")
    BY <1>9 DEF UpstreamEnd, UpstreamError
  <2> QED BY <1>1, <1>9, <2>1, <2>2, IInvOther DEF UpstreamEnd, UpstreamError, scanState
<1>10. CASE UNCHANGED vars
  <2>1. SocketsAgree'
    BY <1>10 DEF IInv, SocketsAgree, vars, upState, gateState
  <2> QED BY <1>1, <1>10, <2>1, IInvOther DEF vars, scanState
<1> QED BY <1>2, <1>3, <1>4, <1>5, <1>6, <1>7, <1>8, <1>9, <1>10 DEF Next

(* The inductive invariant of the tunnel holds of every behaviour. *)
THEOREM Invariance == Spec => []IInv
BY IInvInit, IInvNext, PTL DEF Spec

-------------------------------------------------------------------------------
(* The properties. *)

(* No complete secret that fits the overlap leaves in block mode, however the
   request is cut into chunks. *)
THEOREM WindowedScan == Spec => []NoSecretForwarded
<1>1. IInv => NoSecretForwarded
  BY DEF IInv
<1> QED BY <1>1, Invariance, PTL

(* No secret of the header block of a recognised HTTP request leaves. *)
THEOREM HeaderGate == Spec => []HeaderSecretsHeld
<1>1. IInv => HeaderSecretsHeld
  BY DEF IInv
<1> QED BY <1>1, Invariance, PTL

(* In warn and in block mode every such secret is reported. *)
THEOREM Detection == Spec => []ScannedAreFound
<1>1. IInv => ScannedAreFound
  BY DEF IInv, Reported, ReportedAtEnd, ScannedAreFound
<1> QED BY <1>1, Invariance, PTL

(* A tunnel opens at most one upstream connection. *)
THEOREM SingleUpstream == Spec => []OneUpstream
<1>1. IInv => OneUpstream
  BY DEF IInv, SocketsAgree, OneUpstream
<1> QED BY <1>1, Invariance, PTL

(* Traffic that is not inspected is not held back. *)
THEOREM Bypass == Spec => []BypassNotHeld
<1>1. IInv => BypassNotHeld
  BY RequestFacts DEF IInv, TypeOK, CountersAgree, HeldForAReason, BypassNotHeld
<1> QED BY <1>1, Invariance, PTL

(* A tunnel that was torn down stays silent. *)
THEOREM Silence == Spec => SilentAfterTeardown
<1>1. IInv /\ [Next]_vars =>
          [/\ client # "open" => written' = written /\ replied' = replied
           /\ blocked => delivered' = delivered]_vars
  <2> SUFFICES ASSUME IInv, Next
               PROVE  /\ client # "open" => written' = written /\ replied' = replied
                      /\ blocked => delivered' = delivered
    OBVIOUS
  <2>1. CASE ClientData
    BY <2>1 DEF ClientData, ChunkBlocked, BypassGate, HoldHeaders, HeadersBlocked,
       FlushHeaders, ForwardChunk, HeldChunk, PassesScan, Chunk
  <2>2. CASE ClientEnd \/ ClientEndBlocked \/ ClientError
    BY <2>2 DEF ClientEnd, ClientEndBlocked, ClientError
  <2>3. CASE Deliver
    BY <2>3 DEF Deliver, IInv, SocketsAgree
  <2>4. CASE \/ UpstreamConnect \/ UpstreamData \/ UpstreamDataBlocked
             \/ UpstreamEnd \/ UpstreamFinish \/ UpstreamError
    BY <2>4 DEF UpstreamConnect, UpstreamData, UpstreamDataBlocked, UpstreamEnd,
       UpstreamFinish, UpstreamError, IInv, TypeOK, SocketsAgree, Live
  <2> QED BY <2>1, <2>2, <2>3, <2>4 DEF Next
<1> QED BY <1>1, Invariance, PTL DEF Spec, SilentAfterTeardown

-------------------------------------------------------------------------------
(* The tunnel implements the egress gate. *)

(* How any step moves the two sockets. *)
LEMMA StepShape ==
    ASSUME IInv, [Next]_vars
    PROVE  /\ req' = req /\ written' >= written
           /\ client # "open" => client' # "open"
           /\ written' > written => client = "open"
<1>1. written \in Nat /\ received \in Nat /\ written <= received
  BY RequestFacts DEF IInv, TypeOK, CountersAgree
<1>2. CASE ClientData
  <2> SUFFICES ASSUME NEW n \in 1 .. MaxChunk,
                      \/ ChunkBlocked(n) \/ BypassGate(n) \/ HoldHeaders(n)
                      \/ HeadersBlocked(n) \/ FlushHeaders(n) \/ ForwardChunk(n)
               PROVE  req' = req /\ written' >= written /\ client = "open"
    BY <1>2 DEF ClientData
  <2>1. req' = req /\ client = "open" /\ n \in Nat
    BY SizesAssumption DEF ChunkBlocked, BypassGate, HoldHeaders, HeadersBlocked,
       FlushHeaders, ForwardChunk, HeldChunk, PassesScan, Chunk
  <2>2. written' \in {written, received + n}
    BY DEF ChunkBlocked, BypassGate, HoldHeaders, HeadersBlocked, FlushHeaders,
       ForwardChunk, WriteUpstream, Sever
  <2> QED BY <1>1, <2>1, <2>2
<1>3. CASE ClientEnd \/ ClientEndBlocked \/ ClientError
  BY <1>1, <1>3 DEF ClientEnd, ClientEndBlocked, ClientError, Sever
<1>4. CASE \/ UpstreamConnect \/ Deliver \/ UpstreamData \/ UpstreamDataBlocked
           \/ UpstreamEnd \/ UpstreamFinish \/ UpstreamError
  BY <1>1, <1>4 DEF UpstreamConnect, Deliver, UpstreamData, UpstreamDataBlocked,
     UpstreamEnd, UpstreamFinish, UpstreamError
<1>5. CASE UNCHANGED vars
  BY <1>1, <1>5 DEF vars
<1> QED BY <1>2, <1>3, <1>4, <1>5 DEF Next

(* Nothing guarded is in the bytes handed over. *)
LEMMA NothingGuardedWritten ==
    ASSUME IInv, Enforced, NEW s \in req.secrets, FitsOverlap(s), s.last <= MaxBuffer
    PROVE  written < s.last
<1>1. /\ s.last \in Nat /\ written \in Nat /\ received \in Nat /\ totalBytes \in Nat
      /\ MaxBuffer \in Nat /\ written <= received
      /\ totalBytes < MaxBuffer => totalBytes = received
  BY RequestFacts, SizesAssumption DEF IInv, TypeOK, CountersAgree
<1>2. s.last <= totalBytes => written < s.last
  BY DEF IInv, NoSecretForwarded
<1> QED BY <1>1, <1>2

(* TlsTunnel keeps the promise of EgressGate: it hands bytes over in order and
   closes rather than let a guarded secret out. *)
THEOREM ImplementsGate == Spec => GateSpec
<1>1. Init => Gate!Init
  BY DEF Init, Gate!Init, Enforced, Guarded
<1>2. IInv /\ IInv' /\ [Next]_vars => [Gate!Next]_(Gate!vars)
  <2> SUFFICES ASSUME IInv, IInv', [Next]_vars
               PROVE  [Gate!Next]_(Gate!vars)
    OBVIOUS
  <2>1. /\ req' = req /\ written' >= written
        /\ client # "open" => client' # "open"
        /\ written' > written => client = "open"
    BY StepShape
  <2>2. Enforced' = Enforced /\ Guarded' = Guarded
    BY <2>1 DEF Enforced, Guarded
  <2>3. CASE written' = written /\ (client' = "open") = (client = "open")
    BY <2>1, <2>2, <2>3 DEF Gate!vars
  <2>4. CASE written' = written /\ (client' = "open") # (client = "open")
    <3>1. client = "open" /\ client' # "open"
      BY <2>1, <2>4
    <3> QED BY <2>1, <2>2, <2>4, <3>1 DEF Gate!Next, Gate!Close
  <2>5. CASE written' # written
    <3>1. /\ written \in Nat /\ written' \in Nat /\ req.length \in Nat
          /\ written' <= req.length /\ written' > written /\ client = "open"
      BY <2>1, <2>5, RequestFacts DEF IInv, TypeOK, CountersAgree
    <3>2. ASSUME Enforced, NEW s \in Guarded PROVE ~(s.last <= written')
      <4>1. s \in req.secrets /\ FitsOverlap(s) /\ s.last <= MaxBuffer /\ s.last \in Nat
        BY RequestFacts DEF Guarded, IInv, TypeOK
      <4>2. NoSecretForwarded' /\ CountersAgree'
        BY DEF IInv
      <4>3. s.last <= totalBytes' => written' < s.last
        BY <2>1, <3>2, <4>1, <4>2 DEF NoSecretForwarded, Enforced, FitsOverlap
      <4>4. /\ totalBytes' \in Nat /\ received' \in Nat /\ written' <= received'
            /\ totalBytes' < MaxBuffer => totalBytes' = received'
        BY <2>1, <3>1, <4>2, RequestFacts DEF CountersAgree, IInv, TypeOK
      <4> QED BY <3>1, <4>1, <4>3, <4>4, SizesAssumption
    <3>3. Gate!Forward
      BY <2>2, <3>1, <3>2, <2>1 DEF Gate!Forward, Gate!Leaks
    <3> QED BY <3>3 DEF Gate!Next
  <2> QED BY <2>3, <2>4, <2>5
<1> QED BY <1>1, <1>2, Invariance, PTL DEF Spec, GateSpec, Gate!Spec

===============================================================================
