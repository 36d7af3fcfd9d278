------------------------ MODULE StdioSupervisorProofs -------------------------
(* Theorems about StdioSupervisor for every child, every channel modes and any
   number of expiries. *)
EXTENDS StdioSupervisor, FiniteSetTheorems, TLAPS

-------------------------------------------------------------------------------
(* Lines and halves. *)

(* A script is a sequence of lines, of which the halves are numbered. *)
LEMMA ScriptFacts ==
    ASSUME script \in Scripts
    PROVE  /\ script.length \in Nat /\ Len(script.err) \in Nat /\ script.terminated \in BOOLEAN
           /\ Halves = 1 .. 2 * Len(script.err)
           /\ \A k \in 1 .. Len(script.err) : script.err[k] \in Kind
           /\ \A s \in script.secrets : s.first \in 1 .. script.length
                                        /\ s.last \in s.first .. script.length
<1>1. /\ script.length \in Nat /\ script.err \in Seq(Kind) /\ script.terminated \in BOOLEAN
      /\ \A s \in script.secrets : s.first \in 1 .. script.length
                                   /\ s.last \in s.first .. script.length
  BY ScriptsAssumption
<1> QED BY <1>1 DEF Halves

(* The halves of a line are neighbours. *)
LEMMA LineHas ==
    ASSUME NEW h \in Nat, NEW k \in Nat, h % 2 = 0, h > 0, k <= h
    PROVE  LineOf(k) = LineOf(h) <=> k \in {h - 1, h}
BY DEF LineOf

(* Whole lines fill what lies between two beginnings of a line, and no two of
   them share a half. *)
LEMMA LinesFill ==
    ASSUME NEW from \in Nat, NEW next \in Nat, from % 2 = 1, next % 2 = 1
    PROVE  /\ \A k \in from .. (next - 1) :
                  \E h \in {x \in from .. (next - 1) : x % 2 = 0} : k \in {h - 1, h}
           /\ \A h \in {x \in from .. (next - 1) : x % 2 = 0} :
                  {h - 1, h} \subseteq from .. (next - 1)
           /\ \A h, g \in {x \in from .. (next - 1) : x % 2 = 0} :
                  h # g => {h - 1, h} \cap {g - 1, g} = {}
<1>1. ASSUME NEW k \in from .. (next - 1)
      PROVE  \E h \in {x \in from .. (next - 1) : x % 2 = 0} : k \in {h - 1, h}
  <2>1. CASE k % 2 = 0
    BY <2>1
  <2>2. CASE k % 2 # 0
    <3>1. k + 1 \in {x \in from .. (next - 1) : x % 2 = 0} /\ k = (k + 1) - 1
      BY <2>2
    <3> QED BY <3>1
  <2> QED BY <2>1, <2>2
<1>2. ASSUME NEW h \in {x \in from .. (next - 1) : x % 2 = 0}
      PROVE  {h - 1, h} \subseteq from .. (next - 1)
  <2>1. h \in from .. (next - 1) /\ h # from
    OBVIOUS
  <2>2. h - 1 \in from .. (next - 1)
    BY <2>1
  <2> QED BY <2>1, <2>2
<1>3. ASSUME NEW h \in {x \in from .. (next - 1) : x % 2 = 0},
             NEW g \in {x \in from .. (next - 1) : x % 2 = 0}, h # g
      PROVE  {h - 1, h} \cap {g - 1, g} = {}
  <2>1. h \in Nat /\ g \in Nat /\ h % 2 = 0 /\ g % 2 = 0
    OBVIOUS
  <2>2. h - 1 # g /\ g - 1 # h /\ h - 1 # g - 1
    BY <1>3, <2>1
  <2> QED BY <1>3, <2>2
<1> QED BY <1>1, <1>2, <1>3

(* Two intervals that meet make one. *)
LEMMA Intervals ==
    ASSUME NEW a \in Nat, NEW b \in Nat, 1 <= a, a <= b
    PROVE  /\ (1 .. (a - 1)) \cup (a .. (b - 1)) = 1 .. (b - 1)
           /\ \A x \in 1 .. (a - 1) : x \notin a .. (b - 1)
OBVIOUS

(* Two different halves are two. *)
LEMMA TwoHalves == ASSUME NEW h \in Nat, NEW g \in Nat, h # g PROVE Cardinality({h, g}) = 2
<1>1. IsFiniteSet({h}) /\ Cardinality({h}) = 1
  BY FS_Singleton
<1>2. Cardinality({h} \cup {g}) = 2
  BY <1>1, FS_AddElement
<1>3. {h} \cup {g} = {h, g}
  OBVIOUS
<1> QED BY <1>2, <1>3

(* A piece that ends with its line and begins no later is the whole line: it is
   recognised for what it is. *)
LEMMA WholeLine ==
    ASSUME script \in Scripts, NEW from \in Nat, NEW h \in Halves, h % 2 = 0, from % 2 = 1, from <= h
    PROVE  /\ Piece(from, h) = {h - 1, h} /\ h - 1 \in Halves /\ h - 1 >= from
           /\ KindOf(Piece(from, h)) = script.err[h \div 2]
<1>1. h \in Nat /\ h > 0 /\ Halves = 1 .. 2 * Len(script.err) /\ Len(script.err) \in Nat
  BY ScriptFacts
<1>2. h - 1 \in Halves /\ h - 1 >= from
  BY <1>1
<1>3. Piece(from, h) = {h - 1, h}
  BY <1>1, <1>2, LineHas DEF Piece
<1>4. Cardinality(Piece(from, h)) = 2
  BY <1>1, <1>3, TwoHalves
<1>5. LineOf(CHOOSE k \in Piece(from, h) : TRUE) = h \div 2
  <2>1. \A k \in {h - 1, h} : LineOf(k) = h \div 2
    BY <1>1 DEF LineOf
  <2> QED BY <1>3, <2>1
<1> QED BY <1>2, <1>3, <1>4, <1>5 DEF KindOf

(* Every piece is of one of the kinds. *)
LEMMA KindOfPiece ==
    ASSUME script \in Scripts, NEW piece, piece \subseteq Halves
    PROVE  KindOf(piece) \in Kind
<1>1. CASE Cardinality(piece) = 2
  <2>1. piece # {}
    BY <1>1, FS_EmptySet
  <2>2. PICK k \in piece : k = CHOOSE x \in piece : TRUE
    BY <2>1
  <2>3. LineOf(k) \in 1 .. Len(script.err)
    BY <2>2, ScriptFacts DEF LineOf
  <2> QED BY <1>1, <2>2, <2>3, ScriptFacts DEF KindOf
<1>2. CASE Cardinality(piece) # 2
  BY <1>2 DEF KindOf, Kind
<1> QED BY <1>1, <1>2

(* The lines cut off from a text that ends at upto are those before the new
   remainder, and what remains is less than a line, or the unterminated end. *)
LEMMA Split ==
    ASSUME TypeOK, RemainderIsOneLine, NEW upto \in (errRead + 1) .. errWritten
    PROVE  LET next == RemainderAfter(upto)
           IN  /\ next \in remainder .. (upto + 1) /\ next % 2 = 1
               /\ {h \in remainder .. upto : Newline(h)} = {h \in remainder .. (next - 1) : h % 2 = 0}
               /\ next <= upto => \/ upto = next
                                  \/ upto = next + 1 /\ upto = 2 * Len(script.err)
                                     /\ ~script.terminated
<1> DEFINE L    == 2 * Len(script.err)
           ends == {h \in remainder .. upto : Newline(h)}
           last == IF upto % 2 = 1 THEN upto - 1
                   ELSE IF upto < L \/ script.terminated THEN upto ELSE upto - 2
<1>1. /\ Len(script.err) \in Nat /\ errWritten \in 0 .. L /\ errRead \in 0 .. errWritten
      /\ remainder \in 1 .. (errRead + 1) /\ remainder % 2 = 1 /\ upto \in Nat /\ upto <= L
      /\ remainder <= upto
  BY ScriptFacts DEF TypeOK, RemainderIsOneLine
<1>2. last \in Int /\ last <= upto /\ last % 2 = 0
  BY <1>1
<1>3. \A h \in remainder .. upto : Newline(h) <=> h % 2 = 0 /\ h <= last
  BY <1>1 DEF Newline
<1>4. CASE last < remainder
  <2>1. ends = {} /\ RemainderAfter(upto) = remainder
    BY <1>1, <1>2, <1>3, <1>4 DEF RemainderAfter
  <2>2. \A h \in remainder .. (remainder - 1) : FALSE
    BY <1>1
  <2>3. \/ upto = remainder
        \/ upto = remainder + 1 /\ upto = L /\ ~script.terminated
    BY <1>1, <1>4
  <2> QED BY <1>1, <2>1, <2>2, <2>3
<1>5. CASE last >= remainder
  <2>1. last \in ends /\ \A g \in ends : g <= last /\ g \in Int
    BY <1>1, <1>2, <1>3, <1>5
  <2> HIDE DEF ends, last
  <2>2. (CHOOSE h \in ends : \A g \in ends : g <= h) = last
    <3>1. \A h \in ends : (\A g \in ends : g <= h) => h = last
      BY <2>1
    <3> QED BY <2>1, <3>1
  <2>3. RemainderAfter(upto) = 1 + last
    BY <2>1, <2>2 DEF RemainderAfter, ends
  <2>4. ends = {h \in remainder .. last : h % 2 = 0}
    BY <1>1, <1>2, <1>3 DEF ends
  <2>5. /\ 1 + last \in remainder .. (upto + 1) /\ (1 + last) % 2 = 1 /\ (1 + last) - 1 = last
        /\ 1 + last <= upto => \/ upto = 1 + last
                               \/ upto = 1 + last + 1 /\ upto = L /\ ~script.terminated
    BY <1>1, <1>2, <1>5 DEF last
  <2> QED BY <2>3, <2>4, <2>5 DEF ends
<1> QED BY <1>1, <1>2, <1>4, <1>5

-------------------------------------------------------------------------------
(* What handlers share. *)

(* An event is added for a channel only if an expiry was used up, or it is the
   first of that channel. *)
LEMMA RecordKeeps ==
    ASSUME TypeOK, ExpiriesCount, ReportIsFaithful, NEW found \in SUBSET Channel, Record(found)
    PROVE  /\ recent' \subseteq detected' /\ detected' \subseteq Channel
           /\ events' \in [Channel -> Nat] /\ expiries' = expiries
           /\ detected' = detected \cup found
           /\ ExpiriesCount' /\ ReportIsFaithful'
<1>1. /\ events \in [Channel -> Nat] /\ expiries \in Nat
      /\ recent \subseteq detected /\ detected \subseteq Channel
  BY SettingsAssumption DEF TypeOK
<1>2. /\ detected' = detected \cup found /\ recent' = recent \cup found /\ expiries' = expiries
      /\ events' = [c \in Channel |-> IF c \in found \ recent THEN events[c] + 1 ELSE events[c]]
  BY DEF Record
<1>3. events' \in [Channel -> Nat]
  BY <1>1, <1>2
<1>4. ASSUME NEW c \in Channel
      PROVE  /\ c \in detected' <=> events'[c] > 0
             /\ events'[c] <= 1 + expiries
             /\ c \notin recent' => events'[c] <= expiries
  <2>1. /\ c \in detected <=> events[c] > 0
        /\ events[c] <= 1 + expiries
        /\ c \notin recent => events[c] <= expiries
    BY DEF ReportIsFaithful, ExpiriesCount
  <2>2. CASE c \in found \ recent
    BY <1>1, <1>2, <2>1, <2>2
  <2>3. CASE c \notin found \ recent
    <3>1. events'[c] = events[c]
      BY <1>2, <2>3
    <3>2. c \in detected' <=> c \in detected
      BY <1>1, <1>2, <2>3
    <3> QED BY <1>1, <1>2, <2>1, <3>1, <3>2
  <2> QED BY <2>2, <2>3
<1>5. ExpiriesCount' /\ ReportIsFaithful'
  BY <1>2, <1>4 DEF ExpiriesCount, ReportIsFaithful
<1> QED BY <1>1, <1>2, <1>3, <1>5

(* A scan that reports in block mode is not forgotten. *)
LEMMA BlockKeeps ==
    ASSUME TypeOK, BlocksRemembered, parent = "running", parent' = parent, modes' = modes,
           NEW found \in SUBSET Channel, detected' = detected \cup found,
           NEW blocked \in BOOLEAN, OnBlock(blocked),
           \A c \in found \ {"network"} : modes[c] = "block" => blocked
    PROVE  /\ BlocksRemembered' /\ forceExit' \in BOOLEAN /\ killed' \in BOOLEAN
           /\ forceExit \/ blocked => forceExit'
           /\ UNCHANGED <<child, status>>
<1>1. forceExit' = (forceExit \/ blocked) /\ killed' = (killed \/ (blocked /\ child = "running"))
  BY DEF OnBlock
<1>2. forceExit' \in BOOLEAN /\ killed' \in BOOLEAN /\ UNCHANGED <<child, status>>
  BY <1>1 DEF TypeOK, OnBlock
<1>3. forceExit \/ blocked => forceExit'
  BY <1>1
<1>4. ASSUME NEW c \in detected' \ {"network"}, modes[c] = "block" PROVE forceExit'
  <2>1. CASE c \in detected
    BY <1>3, <1>4, <2>1 DEF BlocksRemembered
  <2>2. CASE c \in found
    BY <1>3, <1>4, <2>2
  <2> QED BY <1>4, <2>1, <2>2
<1>5. BlocksRemembered'
  BY <1>4 DEF BlocksRemembered
<1> QED BY <1>2, <1>3, <1>5

(* A line is reported through a channel, and blocks if that one does. *)
LEMMA FindsReports ==
    ASSUME NEW kind \in Kind, Finds(kind)
    PROVE  /\ ReportsTo(kind) \in Channel \ {"network"}
           /\ modes[ReportsTo(kind)] = "block" => Blocks(kind)
BY DEF Kind, Channel, Finds, Blocks, ReportsTo

(* Each piece is taken or skipped, it is skipped only after a block, and what
   is shown of it is shown as it is for what it is. *)
LEMMA PiecesHandled ==
    ASSUME TypeOK, ExpiriesCount, ReportIsFaithful, BlocksRemembered,
           parent = "running", parent' = parent, modes' = modes,
           NEW pieces \in SUBSET SUBSET Halves, HandlePieces(pieces)
    PROVE  /\ recent' \subseteq detected' /\ detected' \subseteq Channel
           /\ events' \in [Channel -> Nat] /\ expiries' = expiries
           /\ forceExit' \in BOOLEAN /\ killed' \in BOOLEAN /\ UNCHANGED <<child, status>>
           /\ ExpiriesCount' /\ ReportIsFaithful' /\ BlocksRemembered'
           /\ forceExit => forceExit'
           /\ \E skipped \in SUBSET pieces :
                 LET taken == pieces \ skipped
                 IN  /\ handled' = handled \cup UNION taken
                     /\ dropped' = dropped \cup UNION skipped
                     /\ shown' = shown \cup UNION {p \in taken : PrintsAsIs(KindOf(p))}
                     /\ skipped # {} => forceExit'
<1> DEFINE blocking     == {p \in pieces : Blocks(KindOf(p))}
           before(p, q) == \A i \in p, j \in q : i < j
           skipped      == {p \in pieces : \E q \in blocking : before(q, p)}
           taken        == pieces \ skipped
           found        == {ReportsTo(KindOf(p)) : p \in {q \in taken : Finds(KindOf(q))}}
<1>1. /\ handled' = handled \cup UNION taken
      /\ dropped' = dropped \cup UNION skipped
      /\ shown' = shown \cup UNION {p \in taken : PrintsAsIs(KindOf(p))}
      /\ Record(found)
      /\ OnBlock(blocking # {})
  BY DEF HandlePieces
<1>2. \A p \in pieces : KindOf(p) \in Kind
  BY KindOfPiece DEF TypeOK
<1>3. /\ found \in SUBSET Channel
      /\ \A c \in found \ {"network"} : modes[c] = "block" => blocking # {}
  BY <1>2, FindsReports
<1>4. skipped # {} => blocking # {}
  OBVIOUS
<1>5. skipped \in SUBSET pieces
  OBVIOUS
<1> HIDE DEF blocking, skipped, taken, found
<1>6. /\ recent' \subseteq detected' /\ detected' \subseteq Channel
      /\ events' \in [Channel -> Nat] /\ expiries' = expiries
      /\ detected' = detected \cup found
      /\ ExpiriesCount' /\ ReportIsFaithful'
  BY <1>1, <1>3, RecordKeeps
<1>7. /\ BlocksRemembered' /\ forceExit' \in BOOLEAN /\ killed' \in BOOLEAN
      /\ forceExit \/ blocking # {} => forceExit'
      /\ UNCHANGED <<child, status>>
  <2>1. (blocking # {}) \in BOOLEAN
    OBVIOUS
  <2>2. PICK blocked \in BOOLEAN : blocked <=> blocking # {}
    BY <2>1
  <2>3. OnBlock(blocked)
    BY <1>1, <2>2 DEF OnBlock
  <2> QED BY <1>3, <1>6, <2>2, <2>3, BlockKeeps
<1>8. /\ handled' = handled \cup UNION (pieces \ skipped)
      /\ dropped' = dropped \cup UNION skipped
      /\ shown' = shown \cup UNION {p \in pieces \ skipped : PrintsAsIs(KindOf(p))}
      /\ skipped # {} => forceExit'
  BY <1>1, <1>4, <1>7 DEF taken
<1> QED BY <1>5, <1>6, <1>7, <1>8

-------------------------------------------------------------------------------
(* The inductive invariant, action by action. *)

(* The initial states satisfy it: nothing was written. *)
LEMMA IInvInit == Init => IInv
<1> SUFFICES ASSUME Init PROVE IInv
  OBVIOUS
<1>1. script \in Scripts /\ script.length \in Nat /\ Len(script.err) \in Nat
  BY ScriptFacts DEF Init
<1>2. TypeOK
  <2>1. /\ outWritten \in 0 .. script.length /\ outRead \in 0 .. outWritten
        /\ errRead \in 0 .. errWritten /\ remainder \in 1 .. (errRead + 1)
        /\ expiries \in 0 .. MaxExpiries
    BY <1>1, SettingsAssumption DEF Init
  <2>2. events \in [Channel -> Nat]
    BY DEF Init
  <2>3. /\ cuts \subseteq 1 .. script.length /\ exposed \subseteq script.secrets
        /\ handled \subseteq Halves /\ dropped \subseteq Halves /\ shown \subseteq handled
        /\ recent \subseteq detected /\ detected \subseteq Channel
    BY DEF Init
  <2> QED BY <2>1, <2>2, <2>3 DEF Init, TypeOK
<1>3. ReadUpToACut /\ RemainderIsOneLine /\ ExpiriesCount /\ BlocksRemembered
  BY DEF Init, ReadUpToACut, RemainderIsOneLine, ExpiriesCount, BlocksRemembered
<1>4. StderrLinesStayWhole /\ OnlySplitSecretsExposed
  BY DEF Init, StderrLinesStayWhole, OnlySplitSecretsExposed
<1>5. NoLineLost
  <2>1. \A h \in 1 .. (remainder - 1) : FALSE
    BY DEF Init
  <2> QED BY <2>1 DEF Init, NoLineLost
<1>6. ReportIsFaithful
  BY DEF Init, ReportIsFaithful
<1> QED BY <1>2, <1>3, <1>4, <1>5, <1>6 DEF IInv

(* stderr as it stands stays in order, whatever else happens. *)
LEMMA StderrKept ==
    ASSUME IInv, UNCHANGED <<script, modes, errVars>>, forceExit => forceExit',
           child = "exited" => child' = "exited"
    PROVE  RemainderIsOneLine' /\ StderrLinesStayWhole' /\ NoLineLost'
<1>1. UNCHANGED <<errWritten, errRead, remainder, errEnded, handled, dropped, shown>>
  BY DEF errVars
<1>2. RemainderIsOneLine'
  BY <1>1 DEF IInv, RemainderIsOneLine
<1>3. StderrLinesStayWhole' /\ NoLineLost'
  BY <1>1 DEF IInv, StderrLinesStayWhole, NoLineLost
<1> QED BY <1>2, <1>3

(* So does stdout. *)
LEMMA StdoutKept ==
    ASSUME IInv, UNCHANGED <<script, modes, outRead, cuts, exposed>>
    PROVE  ReadUpToACut' /\ OnlySplitSecretsExposed'
BY DEF IInv, ReadUpToACut, OnlySplitSecretsExposed

(* The report stays true as long as no handler scans. *)
LEMMA LogKept ==
    ASSUME IInv, UNCHANGED logVars
    PROVE  ExpiriesCount' /\ ReportIsFaithful'
BY DEF IInv, ExpiriesCount, ReportIsFaithful, logVars

(* The steps of the child change no more than what it has written. *)
LEMMA IInvChild == ASSUME IInv, WriteOut \/ WriteErr \/ ChildExit PROVE IInv'
<1>1. /\ UNCHANGED <<script, modes, outRead, cuts, exposed>>
      /\ UNCHANGED <<errRead, remainder, errEnded, handled, dropped, shown>>
      /\ UNCHANGED <<logVars, killed, forceExit, exitVars>>
      /\ child = "running"
  BY DEF WriteOut, WriteErr, ChildExit, outVars, errVars, procVars
<1>2. ReadUpToACut' /\ OnlySplitSecretsExposed' /\ ExpiriesCount' /\ ReportIsFaithful'
  BY <1>1, StdoutKept, LogKept
<1>3. BlocksRemembered' /\ StderrLinesStayWhole' /\ NoLineLost'
  BY <1>1 DEF IInv, BlocksRemembered, StderrLinesStayWhole, NoLineLost, logVars, exitVars
<1>4. ~errEnded
  BY <1>1 DEF IInv, RemainderIsOneLine
<1>5. RemainderIsOneLine'
  BY <1>1, <1>4 DEF IInv, RemainderIsOneLine
<1>6. TypeOK'
  <2> USE DEF IInv, TypeOK
  <2>1. CASE WriteOut
    <3>1. outWritten' \in 0 .. script.length /\ outRead \in 0 .. outWritten'
      BY <2>1, ScriptFacts DEF WriteOut
    <3> QED BY <2>1, <3>1 DEF WriteOut, errVars, logVars, procVars, exitVars, Halves
  <2>2. CASE WriteErr
    <3>1. errWritten' \in {0} \cup Halves /\ errRead \in 0 .. errWritten'
      BY <2>2, ScriptFacts DEF WriteErr
    <3> QED BY <2>2, <3>1 DEF WriteErr, outVars, logVars, procVars, exitVars, Halves
  <2>3. CASE ChildExit
    <3>1. status' \in {0, 2, BySignal, NoCode} /\ child' = "exited"
      BY <2>3 DEF ChildExit
    <3> QED BY <2>3, <3>1 DEF ChildExit, outVars, errVars, logVars, exitVars, Halves
  <2> QED BY <2>1, <2>2, <2>3
<1> QED BY <1>2, <1>3, <1>5, <1>6 DEF IInv

(* A secret that a chunk of stdout exposes began before the chunk: it is split
   by the cut at which the chunk begins. *)
LEMMA IInvHandleStdout == ASSUME IInv, HandleStdout PROVE IInv'
<1>1. PICK upto \in (outRead + 1) .. outWritten :
         LET inside == {s \in script.secrets : outRead < s.first /\ s.last <= upto}
             across == {s \in script.secrets :
                           s.first <= outRead /\ outRead < s.last /\ s.last <= upto}
             leaked == StdoutLeak(inside)
         IN  /\ outRead' = upto
             /\ cuts' = cuts \cup {upto}
             /\ exposed' = exposed \cup across \cup (IF leaked THEN {} ELSE inside)
             /\ Record(IF leaked THEN {"stdout"} ELSE {})
             /\ OnBlock(leaked /\ modes["stdout"] = "block")
  BY DEF HandleStdout
<1> DEFINE inside == {s \in script.secrets : outRead < s.first /\ s.last <= upto}
           across == {s \in script.secrets :
                         s.first <= outRead /\ outRead < s.last /\ s.last <= upto}
           found  == IF StdoutLeak(inside) THEN {"stdout"} ELSE {}
<1>2. /\ outRead' = upto /\ cuts' = cuts \cup {upto}
      /\ exposed' = exposed \cup across \cup (IF StdoutLeak(inside) THEN {} ELSE inside)
      /\ Record(found) /\ OnBlock(StdoutLeak(inside) /\ modes["stdout"] = "block")
  BY <1>1
<1>3. parent = "running" /\ UNCHANGED <<script, modes, outWritten, errVars, exitVars>>
  BY DEF HandleStdout
<1>4. found \in SUBSET Channel /\ StdoutLeak(inside) \in BOOLEAN
  BY DEF Channel, StdoutLeak
<1>5. modes["stdout"] # "off" /\ ~StdoutLeak(inside) => inside = {}
  BY DEF StdoutLeak
<1>6. TypeOK /\ ExpiriesCount /\ ReportIsFaithful /\ BlocksRemembered
  BY DEF IInv
<1>7. /\ outRead \in Nat /\ outWritten \in Nat /\ upto \in Nat /\ upto <= script.length
      /\ outRead < upto /\ upto <= outWritten /\ script.length \in Nat
  BY <1>6, ScriptFacts DEF TypeOK
<1> HIDE DEF inside, across, found
<1>8. /\ recent' \subseteq detected' /\ detected' \subseteq Channel
      /\ events' \in [Channel -> Nat] /\ expiries' = expiries
      /\ detected' = detected \cup found
      /\ ExpiriesCount' /\ ReportIsFaithful'
  BY <1>2, <1>4, <1>6, RecordKeeps
<1>9. /\ BlocksRemembered' /\ forceExit' \in BOOLEAN /\ killed' \in BOOLEAN
      /\ forceExit => forceExit'
      /\ UNCHANGED <<child, status>>
  <2>1. PICK blocked \in BOOLEAN : blocked = (StdoutLeak(inside) /\ modes["stdout"] = "block")
    BY <1>4
  <2>2. OnBlock(blocked)
    BY <1>2, <2>1
  <2>3. \A c \in found \ {"network"} : modes[c] = "block" => blocked
    BY <2>1 DEF found
  <2>4. parent' = parent /\ modes' = modes
    BY <1>3 DEF exitVars
  <2> QED BY <1>3, <1>4, <1>6, <1>8, <2>2, <2>3, <2>4, BlockKeeps
<1>10. ReadUpToACut'
  BY <1>2 DEF ReadUpToACut
<1>11. OnlySplitSecretsExposed'
  <2> SUFFICES ASSUME modes["stdout"] # "off", NEW s \in exposed'
               PROVE  \E c \in cuts' : s.first <= c /\ c < s.last
    BY <1>3 DEF OnlySplitSecretsExposed
  <2>1. CASE s \in exposed
    BY <1>2, <2>1 DEF IInv, OnlySplitSecretsExposed
  <2>2. CASE s \in across
    <3>1. s \in script.secrets /\ s.first <= outRead /\ outRead < s.last
      BY <2>2 DEF across
    <3>2. outRead # 0
      BY <1>6, <1>7, <3>1, ScriptFacts DEF TypeOK
    <3>3. outRead \in cuts'
      BY <1>2, <3>2 DEF IInv, ReadUpToACut
    <3> QED BY <3>1, <3>3
  <2> QED BY <1>2, <1>5, <2>1, <2>2
<1>12. RemainderIsOneLine' /\ StderrLinesStayWhole' /\ NoLineLost'
  BY <1>3, <1>9, StderrKept
<1>13. TypeOK'
  <2>1. /\ outRead' \in 0 .. outWritten /\ cuts' \subseteq 1 .. script.length
        /\ exposed' \subseteq script.secrets
    <3>1. outRead' \in 0 .. outWritten
      BY <1>2, <1>7
    <3>2. cuts \subseteq 1 .. script.length /\ upto \in 1 .. script.length
      BY <1>6, <1>7 DEF TypeOK
    <3>3. exposed \subseteq script.secrets
      BY <1>6 DEF TypeOK
    <3>4. across \subseteq script.secrets /\ inside \subseteq script.secrets
      BY DEF across, inside
    <3> QED BY <1>2, <3>1, <3>2, <3>3, <3>4
  <2>2. UNCHANGED <<errWritten, errRead, remainder, errEnded, handled, dropped, shown, parent, exitCode>>
    BY <1>3 DEF errVars, exitVars
  <2> QED BY <1>3, <1>6, <1>8, <1>9, <2>1, <2>2 DEF TypeOK, Halves
<1> QED BY <1>8, <1>9, <1>10, <1>11, <1>12, <1>13 DEF IInv

(* A chunk of stderr: the pieces are the whole lines before the new remainder. *)
LEMMA IInvHandleStderr == ASSUME IInv, HandleStderr PROVE IInv'
<1>1. PICK upto \in (errRead + 1) .. errWritten :
         /\ errRead' = upto
         /\ remainder' = RemainderAfter(upto)
         /\ HandlePieces({Piece(remainder, h) : h \in {g \in remainder .. upto : Newline(g)}})
  BY DEF HandleStderr
<1> DEFINE next   == remainder'
           evens  == {h \in remainder .. (next - 1) : h % 2 = 0}
           pieces == {Piece(remainder, h) : h \in evens}
<1>2. parent = "running" /\ UNCHANGED <<script, modes, outVars, errWritten, errEnded, exitVars>>
  BY DEF HandleStderr
<1>3. /\ TypeOK /\ ExpiriesCount /\ ReportIsFaithful /\ BlocksRemembered /\ RemainderIsOneLine
      /\ NoLineLost /\ StderrLinesStayWhole
  BY DEF IInv
<1>4. /\ next \in remainder .. (upto + 1) /\ next % 2 = 1
      /\ {h \in remainder .. upto : Newline(h)} = evens
      /\ next <= upto => \/ upto = next
                         \/ upto = next + 1 /\ upto = 2 * Len(script.err) /\ ~script.terminated
  BY <1>1, <1>3, Split
<1>5. /\ script \in Scripts /\ Len(script.err) \in Nat /\ Halves = 1 .. 2 * Len(script.err)
      /\ errRead \in Nat /\ errWritten \in 0 .. 2 * Len(script.err) /\ upto \in Nat
      /\ upto <= errWritten /\ remainder \in 1 .. (errRead + 1) /\ remainder % 2 = 1
      /\ errRead < upto
  BY <1>3, <1>4, ScriptFacts DEF TypeOK, RemainderIsOneLine
<1>6a. /\ remainder \in Nat /\ remainder >= 1 /\ next \in Nat /\ remainder <= next
       /\ next - 1 <= 2 * Len(script.err)
  BY <1>4, <1>5
<1>6b. \A h : h \in evens <=> h \in Nat /\ remainder <= h /\ h < next /\ h % 2 = 0
  BY <1>6a
<1> HIDE DEF evens
<1>6. ASSUME NEW h \in evens
      PROVE  /\ h \in Halves /\ Piece(remainder, h) = {h - 1, h} /\ h - 1 >= remainder
             /\ KindOf(Piece(remainder, h)) = script.err[h \div 2]
  <2>1. h \in Halves /\ h % 2 = 0 /\ remainder <= h
    BY <1>5, <1>6a, <1>6b
  <2> QED BY <1>5, <1>6a, <2>1, WholeLine
<1>7. pieces \in SUBSET SUBSET Halves
  BY DEF Piece
<1>8. HandlePieces(pieces)
  BY <1>1, <1>4
<1>9. parent' = parent /\ modes' = modes /\ script' = script
  BY <1>2 DEF exitVars
<1>10. /\ recent' \subseteq detected' /\ detected' \subseteq Channel
       /\ events' \in [Channel -> Nat] /\ expiries' = expiries
       /\ forceExit' \in BOOLEAN /\ killed' \in BOOLEAN /\ UNCHANGED <<child, status>>
       /\ ExpiriesCount' /\ ReportIsFaithful' /\ BlocksRemembered'
       /\ forceExit => forceExit'
       /\ \E skipped \in SUBSET pieces :
             LET taken == pieces \ skipped
             IN  /\ handled' = handled \cup UNION taken
                 /\ dropped' = dropped \cup UNION skipped
                 /\ shown' = shown \cup UNION {p \in taken : PrintsAsIs(KindOf(p))}
                 /\ skipped # {} => forceExit'
  <2> HIDE DEF pieces
  <2> QED BY <1>2, <1>3, <1>7, <1>8, <1>9, PiecesHandled
<1>11. PICK skipped \in SUBSET pieces :
             /\ handled' = handled \cup UNION (pieces \ skipped)
             /\ dropped' = dropped \cup UNION skipped
             /\ shown' = shown \cup UNION {p \in pieces \ skipped : PrintsAsIs(KindOf(p))}
             /\ skipped # {} => forceExit'
  BY <1>10
<1>12. UNION pieces = remainder .. (next - 1)
  <2>1. /\ \A k \in remainder .. (next - 1) : \E h \in evens : k \in {h - 1, h}
        /\ \A h \in evens : {h - 1, h} \subseteq remainder .. (next - 1)
    BY <1>4, <1>5, <1>6a, LinesFill DEF evens
  <2> QED BY <1>6, <2>1
<1>13. \A p, q \in pieces : p # q => p \cap q = {}
  <2>1. \A h, g \in evens : h # g => {h - 1, h} \cap {g - 1, g} = {}
    BY <1>4, <1>5, <1>6a, LinesFill DEF evens
  <2>2. \A p \in pieces : \E h \in evens : p = {h - 1, h}
    BY <1>6
  <2> QED BY <2>1, <2>2
<1>14. \A p \in pieces : \E h \in evens : p = {h - 1, h} /\ KindOf(p) = script.err[h \div 2]
  BY <1>6
<1>15. handled \cup dropped \subseteq 1 .. (remainder - 1) /\ ~errEnded
  <2>1. ~errEnded
    BY <1>3, <1>5 DEF RemainderIsOneLine
  <2> QED BY <1>3, <2>1 DEF NoLineLost
<1> HIDE DEF pieces
<1>16. NoLineLost'
  <2> DEFINE A == UNION (pieces \ skipped)
             B == UNION skipped
             old == 1 .. (remainder - 1)
             new == remainder .. (next - 1)
  <2>1. A \cup B = new
    BY <1>12
  <2>2. A \cap B = {}
    <3> SUFFICES ASSUME NEW x, NEW p \in pieces \ skipped, NEW q \in skipped, x \in p, x \in q
                 PROVE  FALSE
      OBVIOUS
    <3>1. p # q /\ p \in pieces /\ q \in pieces
      OBVIOUS
    <3> QED BY <1>13, <3>1
  <2>3. /\ handled \cup dropped = old /\ handled \cap dropped = {}
        /\ dropped # {} => forceExit
    BY <1>3, <1>15 DEF NoLineLost
  <2>4. old \cup new = 1 .. (next - 1) /\ \A x \in old : x \notin new
    BY <1>6a, Intervals
  <2>5. handled' = handled \cup A /\ dropped' = dropped \cup B
    BY <1>11
  <2>6. B # {} => forceExit'
    BY <1>11
  <2> HIDE DEF A, B, old, new
  <2>7. handled' \cup dropped' = 1 .. (next - 1)
    BY <2>1, <2>3, <2>4, <2>5
  <2>8. handled' \cap dropped' = {}
    BY <2>1, <2>2, <2>3, <2>4, <2>5
  <2>9. dropped' # {} => forceExit'
    BY <1>10, <2>3, <2>5, <2>6
  <2>10. ~errEnded'
    BY <1>2, <1>15
  <2> QED BY <2>7, <2>8, <2>9, <2>10 DEF NoLineLost
<1>17. StderrLinesStayWhole'
  <2> SUFFICES ASSUME NEW k \in 1 .. Len(script.err), script.err[k] # "plain",
                      ~(script.err[k] = "leak" /\ modes["stderr"] = "off"),
                      2 * k - 1 \in shown', 2 * k \in shown'
               PROVE  FALSE
    BY <1>9 DEF StderrLinesStayWhole
  <2>1. shown \subseteq 1 .. (remainder - 1)
    BY <1>3, <1>15 DEF TypeOK
  <2>2. ~({2 * k - 1, 2 * k} \subseteq shown)
    BY <1>3 DEF StderrLinesStayWhole
  <2>3. \A j \in {2 * k - 1, 2 * k} : j \notin shown =>
            \E h \in evens : /\ j \in {h - 1, h} /\ h % 2 = 0 /\ h \in Nat
                             /\ PrintsAsIs(script.err[h \div 2])
    <3> SUFFICES ASSUME NEW j \in shown', j \notin shown
                 PROVE  \E h \in evens : /\ j \in {h - 1, h} /\ h % 2 = 0 /\ h \in Nat
                                         /\ PrintsAsIs(script.err[h \div 2])
      OBVIOUS
    <3>1. PICK p \in pieces \ skipped : j \in p /\ PrintsAsIs(KindOf(p))
      BY <1>11
    <3>2. PICK h \in evens : p = {h - 1, h} /\ KindOf(p) = script.err[h \div 2]
      BY <1>14
    <3> QED BY <1>6b, <3>1, <3>2
  <2>4. \E h \in Nat : h % 2 = 0 /\ (2 * k = h \/ 2 * k - 1 = h \/ 2 * k = h - 1 \/ 2 * k - 1 = h - 1)
                       /\ PrintsAsIs(script.err[h \div 2])
    BY <2>2, <2>3
  <2>5. \A h \in Nat :
            h % 2 = 0 /\ (2 * k = h \/ 2 * k - 1 = h \/ 2 * k = h - 1 \/ 2 * k - 1 = h - 1)
               => h \div 2 = k
    BY <1>5
  <2>6. PrintsAsIs(script.err[k])
    BY <2>4, <2>5
  <2> QED BY <2>6 DEF PrintsAsIs, Finds, ReportsTo
<1>18. RemainderIsOneLine'
  BY <1>1, <1>2, <1>4, <1>15 DEF RemainderIsOneLine
<1>19. ReadUpToACut' /\ OnlySplitSecretsExposed'
  BY <1>2, StdoutKept DEF outVars
<1>20. TypeOK'
  <2>1. errRead' \in 0 .. errWritten /\ remainder' \in 1 .. (errRead' + 1)
    BY <1>1, <1>4, <1>5
  <2>2. handled' \subseteq Halves /\ dropped' \subseteq Halves /\ shown' \subseteq handled'
    BY <1>3, <1>7, <1>11 DEF TypeOK
  <2>3. UNCHANGED <<script, modes, outWritten, outRead, cuts, exposed, errWritten, errEnded,
                    parent, exitCode>>
    BY <1>2 DEF outVars, exitVars
  <2> QED BY <1>3, <1>10, <2>1, <2>2, <2>3 DEF TypeOK, Halves
<1> QED BY <1>10, <1>16, <1>17, <1>18, <1>19, <1>20 DEF IInv

(* The end of stderr: one piece, of one half or of an unterminated last line. *)
LEMMA IInvHandleStderrEnd == ASSUME IInv, HandleStderrEnd PROVE IInv'
<1> DEFINE rest   == Piece(remainder, errRead)
           pieces == IF remainder <= errRead THEN {rest} ELSE {}
<1>1. /\ parent = "running" /\ child = "exited" /\ errRead = errWritten /\ ~errEnded
      /\ errEnded' = TRUE /\ HandlePieces(pieces)
      /\ UNCHANGED <<script, modes, outVars, errWritten, errRead, remainder, exitVars>>
  BY DEF HandleStderrEnd
<1>2. /\ TypeOK /\ ExpiriesCount /\ ReportIsFaithful /\ BlocksRemembered /\ RemainderIsOneLine
      /\ NoLineLost /\ StderrLinesStayWhole
  BY DEF IInv
<1>3. /\ script \in Scripts /\ Len(script.err) \in Nat /\ Halves = 1 .. 2 * Len(script.err)
      /\ errRead \in Nat /\ errRead <= 2 * Len(script.err)
      /\ remainder \in Nat /\ 1 <= remainder /\ remainder <= errRead + 1 /\ remainder % 2 = 1
  BY <1>2, ScriptFacts DEF TypeOK, RemainderIsOneLine
<1>4. remainder <= errRead =>
          \/ errRead = remainder /\ rest = {remainder}
          \/ /\ errRead = remainder + 1 /\ rest = {remainder, errRead}
             /\ KindOf(rest) = script.err[errRead \div 2]
  <2>1. CASE errRead = remainder
    <3>1. Piece(remainder, remainder) = {remainder}
      BY <1>3, <2>1 DEF Piece
    <3> QED BY <2>1, <3>1
  <2>2. CASE errRead = remainder + 1
    <3>1. errRead \in Halves /\ errRead % 2 = 0 /\ remainder <= errRead /\ errRead - 1 = remainder
      BY <1>3, <2>2
    <3>2. rest = {errRead - 1, errRead} /\ KindOf(rest) = script.err[errRead \div 2]
      BY <1>3, <3>1, WholeLine
    <3> QED BY <2>2, <3>1, <3>2
  <2> QED BY <1>2, <2>1, <2>2 DEF RemainderIsOneLine
<1>5. pieces \in SUBSET SUBSET Halves
  BY DEF Piece
<1>6. parent' = parent /\ modes' = modes /\ script' = script
  BY <1>1 DEF exitVars
<1>7. /\ recent' \subseteq detected' /\ detected' \subseteq Channel
      /\ events' \in [Channel -> Nat] /\ expiries' = expiries
      /\ forceExit' \in BOOLEAN /\ killed' \in BOOLEAN /\ UNCHANGED <<child, status>>
      /\ ExpiriesCount' /\ ReportIsFaithful' /\ BlocksRemembered'
      /\ forceExit => forceExit'
      /\ \E skipped \in SUBSET pieces :
            LET taken == pieces \ skipped
            IN  /\ handled' = handled \cup UNION taken
                /\ dropped' = dropped \cup UNION skipped
                /\ shown' = shown \cup UNION {p \in taken : PrintsAsIs(KindOf(p))}
                /\ skipped # {} => forceExit'
  <2> HIDE DEF pieces
  <2> QED BY <1>1, <1>2, <1>5, <1>6, PiecesHandled
<1>8. PICK skipped \in SUBSET pieces :
            /\ handled' = handled \cup UNION (pieces \ skipped)
            /\ dropped' = dropped \cup UNION skipped
            /\ shown' = shown \cup UNION {p \in pieces \ skipped : PrintsAsIs(KindOf(p))}
            /\ skipped # {} => forceExit'
  BY <1>7
<1>9. /\ handled \cup dropped = 1 .. (remainder - 1) /\ handled \cap dropped = {}
      /\ dropped # {} => forceExit
  BY <1>1, <1>2 DEF NoLineLost
<1>10. UNION pieces = remainder .. errRead
  <2>1. CASE remainder <= errRead
    <3> HIDE DEF rest
    <3>1. rest = remainder .. errRead
      <4>1. CASE errRead = remainder /\ rest = {remainder}
        BY <1>3, <4>1
      <4>2. CASE errRead = remainder + 1 /\ rest = {remainder, errRead}
        <5>1. remainder .. (remainder + 1) = {remainder, remainder + 1}
          BY <1>3
        <5> QED BY <4>2, <5>1
      <4> QED BY <1>4, <2>1, <4>1, <4>2
    <3> QED BY <2>1, <3>1
  <2>2. CASE ~(remainder <= errRead)
    <3>1. \A x \in remainder .. errRead : FALSE
      BY <1>3, <2>2
    <3> QED BY <2>2, <3>1
  <2> QED BY <2>1, <2>2
<1>11. \A p, q \in pieces : p = q
  BY DEF pieces
<1>12. NoLineLost'
  <2> DEFINE A == UNION (pieces \ skipped)
             B == UNION skipped
             old == 1 .. (remainder - 1)
             new == remainder .. errRead
  <2> HIDE DEF pieces
  <2>1. A \cup B = new /\ A \cap B = {}
    BY <1>10, <1>11
  <2>2. old \cup new = 1 .. errRead /\ \A x \in old : x \notin new
    BY <1>3, Intervals
  <2>3. handled' = handled \cup A /\ dropped' = dropped \cup B /\ (B # {} => forceExit')
    BY <1>8
  <2> HIDE DEF A, B
  <2>4. handled \cup dropped = old
    BY <1>9
  <2> HIDE DEF old, new
  <2>5. handled' \cup dropped' = 1 .. errRead /\ handled' \cap dropped' = {}
    BY <1>9, <2>1, <2>2, <2>3, <2>4
  <2>6. dropped' # {} => forceExit'
    BY <1>7, <1>9, <2>3
  <2> QED BY <1>1, <2>5, <2>6 DEF NoLineLost
<1>13. StderrLinesStayWhole'
  <2> SUFFICES ASSUME NEW k \in 1 .. Len(script.err), script.err[k] # "plain",
                      ~(script.err[k] = "leak" /\ modes["stderr"] = "off"),
                      2 * k - 1 \in shown', 2 * k \in shown'
               PROVE  FALSE
    BY <1>6 DEF StderrLinesStayWhole
  <2>1. shown \subseteq 1 .. (remainder - 1)
    BY <1>2, <1>9 DEF TypeOK
  <2>2. ~({2 * k - 1, 2 * k} \subseteq shown)
    BY <1>2 DEF StderrLinesStayWhole
  <2>3. \A j \in shown' : j \notin shown =>
            remainder <= errRead /\ j \in rest /\ PrintsAsIs(KindOf(rest))
    <3> HIDE DEF rest
    <3> QED BY <1>8
  <2>4. k \in Nat /\ 2 * k \in Nat
    BY <1>3
  <2>5. remainder <= errRead
    BY <2>2, <2>3
  <2>6. CASE errRead = remainder /\ rest = {remainder}
    <3>1. 2 * k - 1 \in shown => 2 * k - 1 <= remainder - 1
      BY <2>1
    <3>2. 2 * k \in shown => 2 * k <= remainder - 1
      BY <2>1
    <3>3. 2 * k - 1 = remainder \/ 2 * k = remainder
      BY <2>2, <2>3, <2>6
    <3>4. 2 * k \in rest \/ 2 * k \in shown
      BY <2>3
    <3> QED BY <1>3, <2>4, <2>6, <3>2, <3>3, <3>4
  <2>7. CASE /\ errRead = remainder + 1 /\ rest = {remainder, errRead}
             /\ KindOf(rest) = script.err[errRead \div 2]
    <3>1. PrintsAsIs(script.err[errRead \div 2])
      BY <2>2, <2>3, <2>7
    <3>2. \/ 2 * k - 1 = remainder \/ 2 * k - 1 = remainder + 1
          \/ 2 * k = remainder \/ 2 * k = remainder + 1
      BY <2>2, <2>3, <2>7
    <3>3. errRead \div 2 = k
      <4>1. errRead = 2 * k
        BY <1>3, <2>4, <2>7, <3>2
      <4> QED BY <2>4, <4>1
    <3> QED BY <3>1, <3>3 DEF PrintsAsIs, Finds, ReportsTo
  <2> QED BY <1>4, <2>5, <2>6, <2>7
<1>14. RemainderIsOneLine'
  BY <1>1, <1>2, <1>7 DEF RemainderIsOneLine
<1>15. ReadUpToACut' /\ OnlySplitSecretsExposed'
  BY <1>1, StdoutKept DEF outVars
<1>16. TypeOK'
  <2>1. handled' \subseteq Halves /\ dropped' \subseteq Halves /\ shown' \subseteq handled'
    <3> HIDE DEF pieces
    <3> QED BY <1>2, <1>5, <1>8 DEF TypeOK
  <2>2. UNCHANGED <<script, modes, outWritten, outRead, cuts, exposed, errWritten, errRead,
                    remainder, parent, exitCode>>
    BY <1>1 DEF outVars, exitVars
  <2> QED BY <1>1, <1>2, <1>7, <2>1, <2>2 DEF TypeOK, Halves
<1> QED BY <1>7, <1>12, <1>13, <1>14, <1>15, <1>16 DEF IInv

(* An expiry is what another event may use up. *)
LEMMA IInvExpire == ASSUME IInv, Expire PROVE IInv'
<1>1. PICK c \in recent : recent' = recent \ {c}
  BY DEF Expire
<1>2. /\ expiries < MaxExpiries /\ expiries' = expiries + 1
      /\ UNCHANGED <<script, modes, outVars, errVars, events, detected, procVars, exitVars>>
  BY DEF Expire
<1>3. TypeOK /\ ExpiriesCount /\ ReportIsFaithful /\ expiries \in Nat /\ events \in [Channel -> Nat]
  BY SettingsAssumption DEF IInv, TypeOK
<1>4. RemainderIsOneLine' /\ StderrLinesStayWhole' /\ NoLineLost'
  BY <1>2, StderrKept DEF procVars
<1>5. ReadUpToACut' /\ OnlySplitSecretsExposed'
  BY <1>2, StdoutKept DEF outVars
<1>6. ExpiriesCount' /\ ReportIsFaithful'
  <2>1. \A d \in Channel : /\ d \in detected' <=> events'[d] > 0
                           /\ events'[d] <= expiries + 1 /\ expiries + 1 <= 1 + expiries'
    BY <1>2, <1>3 DEF ReportIsFaithful
  <2> QED BY <1>2, <1>3, <2>1 DEF ExpiriesCount, ReportIsFaithful
<1>7. BlocksRemembered'
  BY <1>2 DEF IInv, BlocksRemembered, procVars, exitVars
<1>8. TypeOK'
  <2>1. expiries' \in 0 .. MaxExpiries /\ recent' \subseteq detected
    BY <1>1, <1>2, <1>3, SettingsAssumption DEF TypeOK
  <2> QED BY <1>2, <1>3, <2>1 DEF TypeOK, Halves, outVars, errVars, procVars, exitVars
<1> QED BY <1>4, <1>5, <1>6, <1>7, <1>8 DEF IInv

(* The network channel reports, but blocks nothing here. *)
LEMMA IInvNetworkLeak == ASSUME IInv, NetworkLeak PROVE IInv'
<1>1. /\ Record({"network"}) /\ {"network"} \in SUBSET Channel
      /\ UNCHANGED <<script, modes, outVars, errVars, procVars, exitVars>>
  BY DEF NetworkLeak, Channel
<1>2. TypeOK /\ ExpiriesCount /\ ReportIsFaithful
  BY DEF IInv
<1>3. /\ recent' \subseteq detected' /\ detected' \subseteq Channel
      /\ events' \in [Channel -> Nat] /\ expiries' = expiries
      /\ detected' = detected \cup {"network"}
      /\ ExpiriesCount' /\ ReportIsFaithful'
  BY <1>1, <1>2, RecordKeeps
<1>4. RemainderIsOneLine' /\ StderrLinesStayWhole' /\ NoLineLost'
  BY <1>1, StderrKept DEF procVars
<1>5. ReadUpToACut' /\ OnlySplitSecretsExposed'
  BY <1>1, StdoutKept DEF outVars
<1>6. BlocksRemembered'
  BY <1>1, <1>3 DEF IInv, BlocksRemembered, procVars, exitVars
<1>7. TypeOK'
  BY <1>1, <1>2, <1>3 DEF TypeOK, Halves, outVars, errVars, procVars, exitVars
<1> QED BY <1>3, <1>4, <1>5, <1>6, <1>7 DEF IInv

(* The supervisor ends, with 1 after a block. *)
LEMMA IInvExit == ASSUME IInv, HandleExit \/ OnSignal PROVE IInv'
<1>1. /\ UNCHANGED <<script, modes, outVars, errVars, logVars, procVars>>
      /\ parent' \in {"done", "interrupted"} /\ (forceExit => exitCode' = 1)
      /\ exitCode' \in {1} \cup (IF status = BySignal THEN {} ELSE {status})
  BY DEF HandleExit, OnSignal
<1>2. RemainderIsOneLine' /\ StderrLinesStayWhole' /\ NoLineLost'
  BY <1>1, StderrKept DEF procVars
<1>3. ReadUpToACut' /\ OnlySplitSecretsExposed' /\ ExpiriesCount' /\ ReportIsFaithful'
  BY <1>1, StdoutKept, LogKept DEF outVars
<1>4. BlocksRemembered'
  BY <1>1 DEF IInv, BlocksRemembered, logVars, procVars
<1>5. TypeOK'
  BY <1>1 DEF IInv, TypeOK, Halves, outVars, errVars, logVars, procVars
<1> QED BY <1>2, <1>3, <1>4, <1>5 DEF IInv

(* Every step of the supervisor and its child keeps the inductive invariant. *)
LEMMA IInvStep == ASSUME IInv, [Next]_vars PROVE IInv'
<1>1. CASE UNCHANGED vars
  <2>1. UNCHANGED <<script, modes, outVars, errVars, logVars, procVars, exitVars>>
    BY <1>1 DEF vars
  <2>2. RemainderIsOneLine' /\ StderrLinesStayWhole' /\ NoLineLost'
    BY <2>1, StderrKept DEF procVars
  <2>3. ReadUpToACut' /\ OnlySplitSecretsExposed' /\ ExpiriesCount' /\ ReportIsFaithful'
    BY <2>1, StdoutKept, LogKept DEF outVars
  <2>4. BlocksRemembered' /\ TypeOK'
    BY <2>1 DEF IInv, BlocksRemembered, TypeOK, Halves, outVars, errVars, logVars, procVars, exitVars
  <2> QED BY <2>2, <2>3, <2>4 DEF IInv
<1>2. CASE Next
  BY <1>2, IInvChild, IInvHandleStdout, IInvHandleStderr, IInvHandleStderrEnd, IInvExpire,
     IInvNetworkLeak, IInvExit DEF Next
<1> QED BY <1>1, <1>2

(* Every state of the supervisor satisfies the inductive invariant. *)
THEOREM Invariance == Spec => []IInv
<1> QED BY IInvInit, IInvStep, PTL DEF Spec

-------------------------------------------------------------------------------
(* What follows. *)

(* Every variable keeps its type. *)
THEOREM TypeCorrect == Spec => []TypeOK
<1>1. IInv => TypeOK
  BY DEF IInv
<1> QED BY <1>1, Invariance, PTL

(* However stderr is cut into chunks, no line with the secret is shown whole
   and no hook message reaches the terminal. *)
THEOREM LinesStayWhole == Spec => []StderrLinesStayWhole
<1>1. IInv => StderrLinesStayWhole
  BY DEF IInv
<1> QED BY <1>1, Invariance, PTL

(* Every half of a line is handled once, or dropped after a block. *)
THEOREM EveryLineHandled == Spec => []NoLineLost
<1>1. IInv => NoLineLost
  BY DEF IInv
<1> QED BY <1>1, Invariance, PTL

(* A stdout secret in plain is one that a chunk boundary split. *)
THEOREM ExposedWereSplit == Spec => []OnlySplitSecretsExposed
<1>1. IInv => OnlySplitSecretsExposed
  BY DEF IInv
<1> QED BY <1>1, Invariance, PTL

(* A run with a blocked leak never exits as a success, whichever came first. *)
THEOREM BlockFailsTheRun == Spec => []BlockedRunFails
<1>1. IInv => BlockedRunFails
  BY DEF IInv, BlocksRemembered, BlockedRunFails
<1> QED BY <1>1, Invariance, PTL

(* The report names every channel that leaked, and each event after the first
   was paid for by an expiry. *)
THEOREM FaithfulReport == Spec => []ReportIsFaithful
<1>1. IInv => ReportIsFaithful
  BY DEF IInv
<1> QED BY <1>1, Invariance, PTL

===============================================================================
