------------------------------- MODULE MCSession -------------------------------
(* Small worlds for Session: configuration files, sources of secrets and
   traffic, each varied on its own against a plain background. *)
EXTENDS Session

MCConns == {"c1", "c2"}
MCForms == {"base64", "uri", "json"}

S  == <<"a", "b", "c", "d">>       \* a secret by its entropy
S2 == <<"b", "c", "d", "+">>       \* one that overlaps it, with a url-encoded form
K  == <<"sk", "x", "x", "x">>      \* a secret by its pattern
P  == <<"p", "p">>                 \* a secret only under the name of a credential
L  == <<"x", "x", "x", "x">>       \* no secret

MCEntropy(v)        == Cardinality(ToSet(v))
MCMatchesPattern(v) == v # <<>> /\ v[1] = "sk"
Escape(v, from, to) == [i \in DOMAIN v |-> IF v[i] = from THEN to ELSE v[i]]
MCEncoded(f, v)     == CASE f = "base64" -> [i \in DOMAIN v |-> "64" \o v[i]]
                         [] f = "uri"    -> Escape(v, "+", "%2B")
                         [] f = "json"   -> Escape(v, "'", "\\'")

Entry(n, v) == [name |-> n, value |-> v]
Say(ch, t)  == [channel |-> ch, text |-> t, caller |-> "app"]
Test(ch, t) == [channel |-> ch, text |-> t, caller |-> "test"]

Https(target, text) == [scheme |-> "https", target |-> target, text |-> text, sni |-> TRUE]
Http(target, b, h, u) == [scheme |-> "http", target |-> target,
                          body |-> b, headers |-> h, url |-> u]
Get(url, auth, body) == <<"GET", " ">> \o url \o <<"crlf", "Host", ": ", "h1", "crlf",
                        "Authorization", ": ">> \o auth \o <<"crlf", "crlf">> \o body
Clean == Https(<<"h1">>, Get(<<"/">>, <<"t">>, <<>>))

Base == [file |-> Missing, env |-> <<Entry("A", S)>>, dotenv |-> <<>>, mitm |-> TRUE,
         noProxy |-> {}, outputs |-> <<>>, requests |-> <<>>]

(* Configurations: any two of these settings in one file, with what may be
   wrong about each. *)
Settings ==
    {<<"channels", c, v>> : c \in {"stdout", "network"},
                            v \in {String("off"), String("loud"), Number(1)}}
    \cup {<<"channels", "stdio", String("off")>>}
    \cup {<<"exclusions", k, v>> : k \in {"domains", "paths"},
            v \in {Array(<<String("h1")>>), Array(<<String("h1"), Number(1)>>), String("h1")}}
    \cup {<<"entropy", k, v>> : k \in {"threshold", "minLength"}, v \in {Number(3), String("3")}}
Scalars ==
    {<<s, v>> : s \in {"channels", "exclusions", "entropy"}, v \in {Array(<<>>), Null}}
    \cup {<<"quiet", Boolean(TRUE)>>, <<"quiet", Null>>, <<"logFile", Null>>,
          <<"logFile", String("log")>>, <<"logFile", Boolean(TRUE)>>}
FileOf(settings) ==
    Object([k \in {s[1] : s \in settings} |->
        LET there == {s \in settings : s[1] = k}
            nested == {s \in there : Len(s) = 3}
        IN  IF nested = {} THEN (CHOOSE s \in there : TRUE)[2]
            ELSE Object([f \in {s[2] : s \in nested} |-> (CHOOSE s \in nested : s[2] = f)[3]])])
Files == {Missing, Unparsable, Null, Array(<<>>)}
         \cup {FileOf({x, y}) : x \in Settings \cup Scalars, y \in Settings \cup Scalars}
ConfigSetups == {[Base EXCEPT !.file = f, !.outputs = <<Say("stdout", S)>>] : f \in Files}

(* Sources: up to two entries in each, under two names and a system name. *)
EnvValues == {S, K, L}
SourceSetups ==
    {[Base EXCEPT !.env = e, !.dotenv = f, !.outputs = o] :
        e \in {<<>>} \cup {<<Entry(n, v)>> : n \in {"A", "HOME"}, v \in EnvValues}
              \cup {<<Entry("A", v), Entry("B", w)>> : v \in {S, K}, w \in {S, S2}},
        f \in {<<>>} \cup {<<Entry(n, v)>> : n \in {"A", "TOKEN", "PORT"}, v \in {S, P, L}}
              \cup {<<Entry("A", S2), Entry("TOKEN", P)>>, <<Entry("TOKEN", <<" ">> \o S)>>},
        o \in {<<Say("stdout", S \o S2 \o P \o S), Say("stderr", K)>>,
               <<Say("stdout", S2), Say("stdout", S)>>}}

(* Outputs: verbatim, encoded, repeated, overlapping, beyond the clamp, looked
   up, and by an excluded file. *)
Excluding == Object([exclusions |-> Object([paths |-> Array(<<String("test")>>),
                                            domains |-> Array(<<String("h2")>>)])])
Blocking == Object([channels |-> Object([stdout |-> String("block"), dns |-> String("warn")])])
Filler == [i \in 1 .. 18 |-> "x"]
Lines == {S \o S, <<"a">> \o S2, MCEncoded("base64", S), MCEncoded("uri", S2), Filler \o S, P}
OutputSetups ==
    {[Base EXCEPT !.file = f, !.env = <<Entry("A", S), Entry("B", S2)>>,
                   !.dotenv = <<Entry("TOKEN", P)>>, !.outputs = <<x, y, z>>] :
        f \in {Excluding, Blocking},
        x \in {Say("stdout", t) : t \in Lines}, y \in {Test("stdout", t) : t \in Lines},
        z \in {Say("stderr", S), Say("dns", S \o <<".">>), Say("dns", P), Test("dns", S)}}

(* Traffic: two connections, to one host or to two, by either handler. *)
Requests ==
    {Clean, Https(<<"h1", "443">>, Get(S, <<"t">>, <<>>)),
     Https(<<"h2">>, Get(<<"/">>, S \o S, <<>>)),
     Https(<<"h1">>, Get(<<"/">>, S, <<>>)),
     Https(<<"h1">>, Get(<<"/">>, <<"t">>, S)),
     Https(<<"[2001", "db8", "", "1]", "443">>, Get(<<"/">>, <<"t">>, <<>>)),
     [Https(<<"10.0.0.1">>, Get(<<"/">>, <<"t">>, <<>>)) EXCEPT !.sni = FALSE],
     Http(<<"h1", "80">>, MCEncoded("base64", S), <<"t">>, <<"/">>),
     Http(<<"h2">>, <<>>, S, <<"/">>),
     Http(<<"h1">>, <<>>, <<"t">>, S),
     Http(<<"h1">>, <<>>, <<"t">>, <<"/">>),
     Http(<<"h1", "99999">>, <<>>, <<"t">>, <<"/">>),
     Http(<<"h1", "eighty">>, <<>>, <<"t">>, <<"/">>)}
Warning == Object([channels |-> Object([network |-> String("warn")])])
Off     == Object([channels |-> Object([network |-> String("off")])])
Others  == {Clean, Https(<<"h1">>, Get(<<"/">>, S, <<>>)), Http(<<"h1">>, <<>>, <<"t">>, S)}
Pair(x, y) == [c1 |-> x, c2 |-> y]
TrafficSetups ==
    {[Base EXCEPT !.file = f, !.requests = Pair(x, y)] :
        f \in {Missing, Excluding, Warning}, x \in Requests, y \in Others}
    \cup {[Base EXCEPT !.file = f, !.requests = Pair(x, Clean), !.noProxy = {"h1"}, !.mitm = m] :
            f \in {Missing, Off}, x \in Requests, m \in BOOLEAN}

(* A secret that begins in the name of a header, or in the method. *)
Spanning == Https(<<"h1">>, <<"GE", "T", " ", "/", "a", "crlf", "o", "n", ": ", "a", "b",
                              "crlf", "crlf", "x">>)
SpanSetups ==
    {[Base EXCEPT !.env = <<Entry("A", v)>>, !.requests = Pair(Spanning, Clean)] :
        v \in {<<"n", ": ", "a", "b">>, <<"T", " ", "/", "a">>}}

MCSetups == SpanSetups \cup ConfigSetups \cup SourceSetups \cup OutputSetups \cup TrafficSetups
===============================================================================
