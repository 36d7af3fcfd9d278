------------------------------ MODULE HttpContext ------------------------------
(***************************************************************************)
(* The context of a leak event: extractContext (src/detection/fingerprint) *)
(* and formatNetworkContext (src/detection/HttpParser).                    *)
(*                                                                         *)
(* A context is the set of the pieces of text it prints; labels and layout *)
(* are left out.                                                           *)
(***************************************************************************)
EXTENDS Secrets

CONSTANTS Window,       \* 40: symbols shown on either side of a match
          BodyWindow    \* 20: the same in the body of a request

ASSUME WindowsAssumption == Window \in Nat /\ BodyWindow \in Nat

Withheld == <<"[REDACTED VALUE]">>
Crlf  == "crlf"
Blank == " "
Colon == ": "       \* with the blank after it

Split(text, separator) ==
    FoldLeft(LAMBDA pieces, x :
                 IF x = separator THEN Append(pieces, <<>>)
                 ELSE [pieces EXCEPT ![Len(pieces)] = Append(@, x)],
             <<<<>>>>, text)

Join(lines) ==
    IF lines = <<>> THEN <<>>
    ELSE FoldLeft(LAMBDA acc, l : acc \o <<Crlf>> \o l, lines[1], Tail(lines))

-------------------------------------------------------------------------------
(* parseHttpRequest. *)

Unparsed == [parsed |-> FALSE]

(* The header lines: the last of two with one name counts. *)
HeadersOf(lines) ==
    LET at(l)  == FirstPlace(<<Colon>>, l)
        key(l) == SubSeq(l, 1, at(l) - 1)
        val(l) == SubSeq(l, at(l) + 1, Len(l))
        header == {i \in DOMAIN lines : Occurs(<<Colon>>, lines[i])}
    IN  [k \in {key(lines[i]) : i \in header} |->
            val(lines[Max({i \in header : key(lines[i]) = k})])]

Parse(raw) ==
    LET lines   == Split(raw, Crlf)
        request == Split(lines[1], Blank)
        blanks  == {i \in 2 .. Len(lines) : lines[i] = <<>>}
        bodyAt  == IF blanks = {} THEN Len(lines) + 1 ELSE Min(blanks) + 1
        headers == HeadersOf(SubSeq(lines, 2, IF blanks = {} THEN Len(lines) ELSE bodyAt - 2))
    IN  IF Len(lines) < 2 \/ Len(request) < 2 THEN Unparsed
        ELSE [parsed  |-> TRUE,
              method  |-> request[1],
              url     |-> request[2],
              host    |-> IF <<"Host">> \in DOMAIN headers THEN headers[<<"Host">>] ELSE <<>>,
              headers |-> headers,
              body    |-> Join(SubSeq(lines, bodyAt, Len(lines)))]

-------------------------------------------------------------------------------
(* The snippet around the first occurrence, which alone is replaced. *)
Around(content, value, window) ==
    IF ~Occurs(value, content) THEN {}
    ELSE LET at    == FirstPlace(value, content)
             first == Max({1, at - window})
             last  == Min({Len(content), at + Len(value) - 1 + window})
         IN  {ReplaceFirst(SubSeq(content, first, last), value, Hash)}

(* Mutation: the value of a header is printed as it is. *)
HeaderPieceRaw(key, val, value) == key \o <<Colon>> \o val

HeaderPiece(key, val, value) ==
    key \o <<Colon>> \o
    (IF Occurs(value, val) THEN ReplaceFirst(val, value, Hash)
     ELSE IF key \in {<<"Authorization">>, <<"Cookie">>} THEN Withheld
     ELSE val)

NetworkContext(content, value) ==
    LET request == Parse(content)
    IN  IF ~request.parsed THEN Around(content, value, Window)
        ELSE {request.host, request.method \o <<Blank>> \o request.url}
             \cup {HeaderPiece(k, request.headers[k], value) : k \in DOMAIN request.headers}
             \cup Around(request.body, value, BodyWindow)

Context(event) ==
    IF event.channel = "network" THEN NetworkContext(event.content, event.secret.value)
                                 ELSE Around(event.content, event.secret.value, Window)
===============================================================================
