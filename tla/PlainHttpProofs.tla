---------------------------- MODULE PlainHttpProofs ----------------------------
(* Theorems about PlainHttp for every set of exchanges. *)
EXTENDS PlainHttp, TLAPS

-------------------------------------------------------------------------------
(* What the assumption says of the request of a state. *)
LEMMA RequestFacts ==
    ASSUME req \in Exchanges
    PROVE  /\ req.length \in Nat /\ ClampMax \in Nat /\ MaxReplies \in Nat
           /\ req.isAllowed \in BOOLEAN /\ req.mode \in {"block", "warn", "off"}
           /\ req.leaky \subseteq Part \ {"body"} /\ req.badPort \in BOOLEAN
           /\ \A s \in req.secrets : 1 <= s.first /\ s.first <= s.last /\ s.last <= req.length
BY ExchangesAssumption DEF Part

(* What is reported are parts of a request. *)
LEMMA ReportedAreParts ==
    ASSUME req \in Exchanges, NEW n
    PROVE  Reported(n) \subseteq Part
BY RequestFacts DEF Reported, Hits, Part

(* The initial states satisfy the invariant. *)
LEMMA IInvInit == Init => IInv
<1> SUFFICES ASSUME Init PROVE IInv
  OBVIOUS
<1>1. req \in Exchanges /\ 0 \in 0 .. req.length /\ 0 \in 0 .. MaxReplies
  BY RequestFacts DEF Init
<1>2. TypeOK
  BY <1>1 DEF Init, TypeOK
<1>3. QuietBeforeEnd /\ ScannedAtEnd /\ AnswerAgrees /\ CrashExplained
  BY DEF Init, QuietBeforeEnd, ScannedAtEnd, AnswerAgrees, CrashExplained
<1> QED BY <1>2, <1>3 DEF IInv

(* writeHead keeps the types of what it sets. *)
LEMMA WriteHeadTypes ==
    ASSUME TypeOK, NEW status \in {"403", "502", "upstream"}, WriteHead(status)
    PROVE  answer' \in {"none", "403", "502", "upstream"} /\ crashed' \in BOOLEAN
BY DEF TypeOK, WriteHead

(* Every step keeps the invariant. *)
LEMMA IInvNext == IInv /\ [Next]_vars => IInv'
<1> SUFFICES ASSUME IInv, [Next]_vars PROVE IInv'
  OBVIOUS
<1> USE RequestFacts DEF IInv, TypeOK, QuietBeforeEnd, ScannedAtEnd, AnswerAgrees, CrashExplained
<1>1. CASE Data
  <2>1. /\ received' \in 0 .. req.length /\ received < req.length
        /\ UNCHANGED <<req, client, ended, found, proxyReq, answer, replied, crashed>>
    BY <1>1 DEF Data
  <2>2. ~ended
    BY <2>1
  <2> QED BY <2>1, <2>2 DEF Reported, Blocked, Hits, Scans
<1>2. CASE ClientGone
  BY <1>2 DEF ClientGone, Reported, Blocked, Hits, Scans
<1>3. CASE EndBlocked
  BY <1>3, ReportedAreParts, WriteHeadTypes DEF WriteHead, EndBlocked, Reported, Blocked, Hits, Scans
<1>4. CASE EndForwarded
  BY <1>4, ReportedAreParts DEF EndForwarded, Reported, Blocked, Hits, Scans
<1>5. CASE Response
  BY <1>5, WriteHeadTypes DEF WriteHead, Response, Reported, Blocked, Hits, Scans
<1>6. CASE Pipe
  BY <1>6 DEF Pipe, Reported, Blocked, Hits, Scans
<1>7. CASE ResponseEnds
  BY <1>7 DEF ResponseEnds, Reported, Blocked, Hits, Scans
<1>8. CASE UpstreamError
  BY <1>8, WriteHeadTypes DEF WriteHead, UpstreamError, Reported, Blocked, Hits, Scans
<1>9. CASE UNCHANGED vars
  BY <1>9 DEF vars, Reported, Blocked, Hits, Scans
<1> QED BY <1>1, <1>2, <1>3, <1>4, <1>5, <1>6, <1>7, <1>8, <1>9 DEF Next

(* The invariant holds of every exchange. *)
THEOREM Invariance == Spec => []IInv
BY IInvInit, IInvNext, PTL DEF Spec

(* Every variable keeps its type. *)
THEOREM TypeCorrect == Spec => []TypeOK
<1>1. IInv => TypeOK
  BY DEF IInv
<1> QED BY <1>1, Invariance, PTL

(* Every part of an ended request that holds a secret is reported. *)
THEOREM AllPartsReported == Spec => []EveryPartReported
<1>1. IInv => EveryPartReported
  <2> SUFFICES ASSUME IInv, Scans, ended
               PROVE  /\ req.leaky \subseteq found
                      /\ (\E s \in req.secrets : s.last <= ClampMax) => "body" \in found
    BY DEF EveryPartReported
  <2>1. found = Hits(req.length)
    BY DEF IInv, ScannedAtEnd, Reported
  <2>2. \A s \in req.secrets : s.last <= req.length
    BY RequestFacts DEF IInv, TypeOK
  <2> QED BY <2>1, <2>2 DEF Hits
<1> QED BY <1>1, Invariance, PTL

(* No handler of an exchange throws but for the two reasons given. *)
THEOREM CrashesExplained == Spec => []CrashExplained
<1>1. IInv => CrashExplained
  BY DEF IInv
<1> QED BY <1>1, Invariance, PTL

-------------------------------------------------------------------------------
(* The exchange implements the egress gate. *)

(* A request that no scan blocked holds nothing guarded. *)
LEMMA NothingGuarded ==
    ASSUME IInv, ~Blocked(req.length), Parcel(req).enforced
    PROVE  Parcel(req).guarded = {}
<1>1. Scans /\ req.mode = "block" /\ Hits(req.length) = {}
  BY DEF Parcel, Scans, Blocked, Reported
<1>2. req.leaky = {}
  BY <1>1 DEF Hits
<1>3. \A s \in req.secrets : ~(s.last <= ClampMax)
  BY <1>1, RequestFacts DEF Hits, IInv, TypeOK
<1> QED BY <1>2, <1>3 DEF Parcel, Secrets

(* The whole request is handed over at once, clean or not at all, and nothing
   is handed over after the exchange was closed. *)
THEOREM ImplementsGate == Spec => GateSpec
<1> USE DEF Gate!Init, Gate!Next, Gate!Forward, Gate!Close, Gate!vars, Gate!Leaks
<1>1. Init => Gate!Init
  BY DEF Init
<1>2. IInv /\ [Next]_vars => [Gate!Next]_(Gate!vars)
  <2> SUFFICES ASSUME IInv, [Next]_vars PROVE [Gate!Next]_(Gate!vars)
    OBVIOUS
  <2>0. CASE EndForwarded /\ req.badPort
    BY <2>0 DEF EndForwarded
  <2>1. CASE EndForwarded /\ ~req.badPort
    <3>1. /\ proxyReq = "none" /\ proxyReq' = "sent" /\ req' = req /\ client = "open"
          /\ ~ended /\ ended' = TRUE /\ ~Blocked(req.length) /\ req.length \in Nat
      BY <2>1, RequestFacts DEF EndForwarded, IInv, QuietBeforeEnd, TypeOK
    <3>2. ~(Parcel(req).enforced /\ \E s \in Parcel(req).guarded : s.last <= req.length + 1)
      BY <3>1, NothingGuarded
    <3>3. req.length + 1 \in 1 .. Parcel(req).length
      BY <3>1 DEF Parcel
    <3> QED BY <3>1, <3>2, <3>3
  <2>2. CASE EndBlocked
    BY <2>2 DEF EndBlocked
  <2>3. CASE ClientGone
    BY <2>3 DEF ClientGone
  <2>4. CASE Data \/ Pipe \/ UNCHANGED vars
    BY <2>4 DEF Data, Pipe, vars
  <2>5. CASE Response \/ ResponseEnds \/ UpstreamError
    BY <2>5 DEF Response, ResponseEnds, UpstreamError
  <2> QED BY <2>0, <2>1, <2>2, <2>3, <2>4, <2>5 DEF Next
<1> QED BY <1>1, <1>2, Invariance, PTL DEF Spec, GateSpec, Gate!Spec

===============================================================================
