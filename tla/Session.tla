-------------------------------- MODULE Session --------------------------------
(***************************************************************************)
(* One `envtrap run` from its configuration to its report: what            *)
(* RunCommandBuilder wires together, with one Scanner behind the pipes of  *)
(* the child and behind all connections of MitmServer.                     *)
(*                                                                         *)
(* Here contents are texts, and a chunk, a line and a request arrive in    *)
(* one piece; how they are cut is the subject of StdioSupervisor and       *)
(* TlsTunnel.  The child is a node program with the hooks loaded.          *)
(***************************************************************************)
EXTENDS Config, HttpContext, FiniteSets

CONSTANTS
    Setups,        \* [file, env, dotenv, mitm, noProxy, outputs, requests]
    Conns,         \* connections of the child; requests says what each carries
    Ports,         \* the texts parseInt turns into a port
    OtherNumbers,  \* those it turns into a number that is none
    DnsShortest,   \* 8: values shorter than this are not looked for in lookups
    MaxExpiries    \* bound: entries of the dedup cache that run out

(* A text of the program: none of its symbols is a mark of envtrap. *)
IsText(t) == /\ t \in Seq(ToSet(t))
             /\ ToSet(t) \cap {Hash[1], Excluded[1], Withheld[1]} = {}

(* A source of secrets. *)
IsSource(entries) ==
    /\ entries \in Seq(ToSet(entries))
    /\ NamedOnce(entries)
    /\ \A e \in ToSet(entries) :
          IsText(e.value) /\ \A f \in Forms : IsText(Encoded(f, e.value))

ASSUME SessionAssumption ==
    /\ MaxExpiries \in Nat /\ DnsShortest \in Nat /\ ShortestSecret \in Nat \ {0} /\ ClampMax \in Nat
    /\ \A s \in Setups : /\ IsFile(s.file) /\ IsSource(s.env) /\ IsSource(s.dotenv)
                         /\ DOMAIN s.requests \subseteq Conns

(* Only a file that sets both entropy.minLength and entropy.threshold to 0 or
   less makes a secret of an empty variable: such files are left out. *)
ASSUME NoEmptySecret ==
    \A s \in Setups : \A e \in ToSet(s.env) :
        EnvCandidate(e, load(s.file).config.entropy) => e.value # <<>>

ASSUME OutputsAssumption ==
    \A s \in Setups : \A i \in DOMAIN s.outputs :
        /\ s.outputs[i].channel \in {"stdout", "stderr", "dns"}
        /\ s.outputs[i].text \in Seq(ToSet(s.outputs[i].text))

ASSUME RequestsAssumption ==
    \A s \in Setups : \A c \in DOMAIN s.requests :
        LET r == s.requests[c]
            texts == IF r.scheme = "https" THEN {r.text}
                     ELSE {r.body, Encoded("json", r.headers), r.url}
        IN  \A t \in texts : t \in Seq(ToSet(t))

VARIABLES
    setup,     \* the world the run starts in, fixed
    config,    \* EnvtrapConfig
    secrets,   \* the secrets, in order
    log,       \* EventLog: its events, and the keys that are fresh in DedupCache
    expiries,
    done,      \* outputs handled
    printed,   \* output -> what the terminal got for it
    killed,    \* has onBlock told the child to stop?
    conn,      \* connection -> how far it has come
    certs,     \* domainCertCache: host -> serial number
    phase,     \* "running", "done", "crashed"
    report     \* the events in .envtrap-report.json

(* f with the value v at x. *)
With(f, x, v) == [y \in DOMAIN f \cup {x} |-> IF y = x THEN v ELSE f[y]]

vars == <<setup, config, secrets, log, expiries, done, printed, killed,
          conn, certs, phase, report>>

-------------------------------------------------------------------------------
(* Scanner. *)

Mode(channel) == config.channels[channel]

Found(text, channel) ==
    IF Mode(channel) = "off" \/ text = <<>> THEN {}
    ELSE FindIn(secrets, config.entropy, Clamp(text))

Record(l, text, channel) ==
    LET found == Found(text, channel)
        fresh == {s \in found : <<s.name, channel>> \notin l.recent}
    IN  [events |-> l.events \cup {[secret |-> s, channel |-> channel,
                                    content |-> Clamp(text)] : s \in fresh},
         recent |-> l.recent \cup {<<s.name, channel>> : s \in found}]

(* Mutation: a leak that is not reported again is not blocked either. *)
BlocksFresh(text, channel) ==
    /\ Mode(channel) = "block"
    /\ \E s \in Found(text, channel) : <<s.name, channel>> \notin log.recent

Blocks(text, channel) == Mode(channel) = "block" /\ Found(text, channel) # {}

Expire ==
    /\ phase = "running" /\ expiries < MaxExpiries
    /\ \E k \in log.recent : log' = [log EXCEPT !.recent = @ \ {k}]
    /\ expiries' = expiries + 1
    /\ UNCHANGED <<setup, config, secrets, done, printed, killed, conn, certs, phase, report>>

-------------------------------------------------------------------------------
(* What the child writes and looks up. *)

Output(i)   == setup.outputs[i]
Pipe(i)     == IF Output(i).channel = "stdout" THEN "stdout" ELSE "stderr"
FromExcluded(i) == Output(i).caller \in ToSet(config.exclusions.paths)

(* checkLookup in the child: does it write a leak message? *)
LookupTold(i) ==
    /\ Mode("dns") # "off" /\ ~FromExcluded(i)
    /\ \E s \in ToSet(secrets) : Len(s.value) >= DnsShortest /\ Occurs(s.value, Output(i).text)

(* The text that reaches the parent. *)
Received(i) == IF Output(i).channel = "dns" THEN IF LookupTold(i) THEN Output(i).text ELSE <<>>
               ELSE IF FromExcluded(i) THEN PreRedact(secrets, Output(i).text)
               ELSE Output(i).text

(* StdioHandler: a chunk of stdout, a line of stderr, a message about a lookup.
   Each pipe keeps its order. *)
Handle(i) ==
    LET channel == Output(i).channel
        text    == Received(i)
    IN  /\ phase = "running" /\ i \notin done
        /\ \A j \in 1 .. (i - 1) : Pipe(j) = Pipe(i) => j \in done
        /\ done' = done \cup {i}
        /\ log' = Record(log, text, channel)
        /\ killed' = (killed \/ Blocks(text, channel))
        /\ printed' = IF channel = "dns" THEN printed
                      ELSE With(printed, i, IF Found(text, channel) # {}
                                              THEN Redact(secrets, text) ELSE text)
        /\ UNCHANGED <<setup, config, secrets, expiries, conn, certs, phase, report>>

-------------------------------------------------------------------------------
(* The proxy. *)

mitmEnabled == setup.mitm /\ Mode("network") # "off"

Request(c) == setup.requests[c]

(* targetHost.split(':'): an IPv6 address falls into pieces. *)
Host(c) == Request(c).target[1]

(* Is there a port to connect to?  ConnectHandler takes whatever parseInt
   returns, HttpHandler's request falls back to 80 where that is no number. *)
HasPort(c) ==
    Len(Request(c).target) > 1 =>
        IF Request(c).scheme = "https" THEN Request(c).target[2] \in Ports
                                       ELSE Request(c).target[2] \notin OtherNumbers

NoProxy    == setup.noProxy \cup ToSet(config.exclusions.domains)
Allowed(c) == Host(c) \in ToSet(config.exclusions.domains)

(* What is scanned of a request, in this order. *)
Parts(c) ==
    IF Allowed(c) THEN <<>>
    ELSE IF Request(c).scheme = "https" THEN <<Request(c).text>>
    ELSE <<Request(c).body, Encoded("json", Request(c).headers), Request(c).url>>

Scanned(l, c) ==
    LET heard(m, text) == Record(m, text, "network")
        r == Request(c)
    IN  IF Allowed(c) THEN l
        ELSE IF r.scheme = "https" THEN heard(l, r.text)
        ELSE heard(heard(heard(l, r.body), Encoded("json", r.headers)), r.url)

RequestBlocked(c) == \E k \in DOMAIN Parts(c) : Blocks(Parts(c)[k], "network")

Step(c, from, to) ==
    /\ phase = "running" /\ c \in DOMAIN conn /\ conn[c] = from
    /\ conn' = [conn EXCEPT ![c] = to]

(* A client past the proxy: none is advertised, or NO_PROXY names the host.
   The clients here look at the proxy variables. *)
Direct(c) ==
    /\ Step(c, "idle", "direct")
    /\ mitmEnabled => Host(c) \in NoProxy
    /\ UNCHANGED <<setup, config, secrets, log, expiries, done, printed, killed, certs, phase, report>>

(* A CONNECT arrives, or a plain request with its body. *)
Ask(c) ==
    /\ Step(c, "idle", "asked")
    /\ mitmEnabled
    /\ UNCHANGED <<setup, config, secrets, log, expiries, done, printed, killed, certs, phase, report>>

(* Mutation: a host whose certificate is in the cache gets no answer. *)
CertifyOnce(c, serial) == Host(c) \notin DOMAIN certs /\ certs' = With(certs, Host(c), serial)

(* generateDomainCert *)
Certify(c, serial) ==
    certs' = IF Host(c) \in DOMAIN certs THEN certs ELSE With(certs, Host(c), serial)

(* ConnectHandler *)
Connect(c) ==
    /\ Step(c, "asked", "established")
    /\ Request(c).scheme = "https"
    /\ Certify(c, Cardinality(DOMAIN certs) + 1)
    /\ UNCHANGED <<setup, config, secrets, log, expiries, done, printed, killed, phase, report>>

CertFails(c) ==
    /\ Step(c, "asked", "refused")
    /\ Request(c).scheme = "https" /\ Host(c) \notin DOMAIN certs
    /\ UNCHANGED <<setup, config, secrets, log, expiries, done, printed, killed, certs, phase, report>>

(* The server has a certificate only for clients that name a host (SNI), which
   those that ask for an address do not; or the client does not trust the CA. *)
Handshake(c) ==
    /\ \/ Step(c, "established", "secure") /\ Request(c).sni
       \/ Step(c, "established", "failed")
    /\ UNCHANGED <<setup, config, secrets, log, expiries, done, printed, killed, certs, phase, report>>

(* The client sends its request through the tunnel, if it ever does. *)
Send(c) ==
    /\ Step(c, "secure", "sent")
    /\ UNCHANGED <<setup, config, secrets, log, expiries, done, printed, killed, certs, phase, report>>

(* A request that arrived is scanned, and forwarded unless it is blocked: a port
   that is none makes tls.connect and http.request throw, and nobody catches. *)
Deal(c, from) ==
    /\ \/ Step(c, from, "severed")   /\ RequestBlocked(c)  /\ UNCHANGED phase
       \/ Step(c, from, "forwarded") /\ ~RequestBlocked(c) /\ HasPort(c)  /\ UNCHANGED phase
       \/ Step(c, from, "thrown")    /\ ~RequestBlocked(c) /\ ~HasPort(c) /\ phase' = "crashed"
    /\ log' = Scanned(log, c)
    /\ UNCHANGED <<setup, config, secrets, expiries, done, printed, killed, certs, report>>

(* TlsInterceptor *)
Data(c) == Deal(c, "sent")

(* HttpHandler *)
HttpEnd(c) == Deal(c, "asked") /\ Request(c).scheme = "http"

-------------------------------------------------------------------------------
(* handleExit: the report is written and the run ends, whatever is under way. *)
ChildExit ==
    /\ phase = "running"
    /\ phase' = "done"
    /\ report' = log.events
    /\ UNCHANGED <<setup, config, secrets, log, expiries, done, printed, killed, conn, certs>>

Init ==
    /\ setup \in Setups
    /\ config = load(setup.file).config
    /\ secrets = LoadSecrets(setup.env, setup.dotenv, config.entropy)
    /\ log = [events |-> {}, recent |-> {}] /\ expiries = 0
    /\ done = {} /\ printed = <<>> /\ killed = FALSE
    /\ conn = [c \in DOMAIN setup.requests |-> "idle"]
    /\ certs = <<>> /\ phase = "running" /\ report = {}

Answer(c) == Connect(c) \/ CertFails(c) \/ HttpEnd(c) \/ Data(c)

Next == \/ Expire \/ ChildExit
        \/ \E i \in DOMAIN setup.outputs : Handle(i)
        \/ \E c \in Conns : Direct(c) \/ Ask(c) \/ Handshake(c) \/ Send(c) \/ Answer(c)

(* node runs the handlers of what has arrived.  Nothing makes a client go on: one
   that has its tunnel may leave it unused for as long as the run lasts. *)
Spec == Init /\ [][Next]_vars /\ \A c \in Conns : WF_vars(Answer(c))

-------------------------------------------------------------------------------
Statuses == {"idle", "direct", "asked", "established", "secure", "sent",
             "forwarded", "severed", "refused", "failed", "thrown"}

TypeOK ==
    /\ config.channels \in [Channels -> Modes]
    /\ \A i \in DOMAIN secrets : secrets[i].source \in {"env", "file"}
    /\ DOMAIN log = {"events", "recent"}
    /\ \A e \in log.events : /\ e.secret \in ToSet(secrets) /\ e.channel \in Channels
                              /\ e.content \in Seq(ToSet(e.content))
    /\ log.recent \subseteq {s.name : s \in ToSet(secrets)} \X Channels
    /\ expiries \in 0 .. MaxExpiries
    /\ done \subseteq DOMAIN setup.outputs /\ DOMAIN printed \subseteq done
    /\ killed \in BOOLEAN
    /\ conn \in [DOMAIN setup.requests -> Statuses] /\ DOMAIN certs \subseteq {Host(c) : c \in DOMAIN conn}
    /\ phase \in {"running", "done", "crashed"} /\ report \subseteq log.events

(* ConfigMerger and ConfigValidator judge a file alike: a setting the validator
   rejects, or that is not there, has no effect, and one it accepts has the
   effect that is written, whatever is wrong with the others.  Of an array that
   is accepted, and the validator accepts any, the strings take effect. *)
ValidatorAndMergerAgree ==
    \A p \in SettingPaths :
        LET v == Written(setup.file, p)
        IN  IF Is("undefined", v) \/ Rejected(load(setup.file).errors, p)
              THEN InEffect(config, p) = InEffect(DefaultConfig, p)
              ELSE ComesTo(v, InEffect(config, p))

(* The composition of the sources loses no secret the application can see: a
   value of the environment, or one of the file where the environment does not
   set the name.  (dotenv does not override what is set.) *)
LiveSecretsGuarded ==
    LET guarded(value) == \E s \in ToSet(secrets) : s.value = value
    IN  /\ \A e \in ToSet(setup.env) : EnvCandidate(e, config.entropy) => guarded(e.value)
        /\ \A f \in ToSet(setup.dotenv) :
              FileCandidate(f, config.entropy)
              /\ ~(\E e \in ToSet(setup.env) : e.name = f.name) => guarded(f.value)

(* When the scanner finds a secret verbatim in a chunk or a line, no secret at
   all is left in what the terminal gets, however many and however often. *)
PrintedHoldsNoSecret ==
    \A i \in DOMAIN printed :
        /\ Mode(Output(i).channel) # "off"
        /\ \E s \in ToSet(secrets) : Occurs(s.value, Clamp(Received(i)))
        => \A s \in ToSet(secrets) : ~Occurs(s.value, printed[i])

(* The texts that were scanned, with their channels. *)
Heard == {<<Output(i).channel, Received(i)>> : i \in done}
         \cup UNION {{<<"network", Parts(c)[k]>> : k \in DOMAIN Parts(c)} :
                         c \in {x \in DOMAIN conn : conn[x] \in {"forwarded", "severed"}}}

(* The report misses no secret that went through a channel, although repeated
   leaks are left out by name: no secret hides behind the name of another. *)
EveryLeakReported ==
    phase = "done" =>
        \A h \in Heard : \A s \in Found(h[2], h[1]) :
            \E e \in report : e.channel = h[1] /\ e.secret.value = s.value

(* The request line, the Host header and the header names are printed as they
   are, and of several occurrences in one piece the first is replaced.  Beyond
   that a report does not show the secret that an event is about; one that
   begins in the name of a header goes on into its value. *)
ReportShowsOnlyRepeats ==
    \A e \in report : \A p \in Context(e) :
        LET value   == e.secret.value
            request == IF e.channel = "network" THEN Parse(e.content) ELSE Unparsed
        IN  Occurs(value, p) =>
              \/ Cardinality(Places(value, e.content)) > 1
              \/ /\ request.parsed
                 /\ \/ Occurs(value, request.method \o <<Blank>> \o request.url)
                    \/ Occurs(value, request.host)
                    \/ \E k \in DOMAIN request.headers :
                          \E i \in Places(value, k \o <<Colon>> \o request.headers[k]) :
                              i <= Len(k) + 1

(* A file under exclusions.paths may print the secrets themselves: what it
   writes raises no event, unless it holds one in an encoded form. *)
ExcludedWritersRaiseNothing ==
    \A e \in log.events :
        e.channel \in {"stdout", "stderr"} =>
            \E i \in done :
                /\ Output(i).channel = e.channel /\ Clamp(Received(i)) = e.content
                /\ ~FromExcluded(i) \/ \E v \in Variants(e.secret, config.entropy) :
                                           Occurs(v, Output(i).text)

(* What is inductive about the rest: nothing changes what the run was started
   with; what was printed was made from it; what was scanned left its events,
   under the entries of the cache as well; and the report is the log at the end. *)
SetupFixed ==
    /\ setup \in Setups
    /\ config = load(setup.file).config
    /\ secrets = LoadSecrets(setup.env, setup.dotenv, config.entropy)
PrintedRedacted ==
    \A i \in DOMAIN printed :
        printed[i] = IF Found(Received(i), Output(i).channel) # {}
                       THEN Redact(secrets, Received(i)) ELSE Received(i)
LeaksRecorded ==
    \A h \in Heard : \A s \in Found(h[2], h[1]) :
        \E e \in log.events : e.channel = h[1] /\ e.secret = s
RecentRecorded ==
    \A k \in log.recent : \E e \in log.events : k = <<e.secret.name, e.channel>>
EventsFound ==
    \A e \in log.events :
        e.channel \in {"stdout", "stderr"} =>
            \E i \in done : /\ Output(i).channel = e.channel /\ Clamp(Received(i)) = e.content
                            /\ e.secret \in Found(Received(i), e.channel)
ReportFinal == phase = "done" => report = log.events

IInv == TypeOK /\ SetupFixed /\ PrintedRedacted /\ LeaksRecorded /\ RecentRecorded
        /\ EventsFound /\ ReportFinal

(* Each connection is an egress gate whose request leaves in one step, whatever
   the log already knows from the others.  A direct one is none of the proxy's. *)
Secretive(c) ==
    \E t \in IF Request(c).scheme = "https" THEN {Request(c).text}
             ELSE {Request(c).body, Encoded("json", Request(c).headers), Request(c).url} :
        FindIn(secrets, config.entropy, Clamp(t)) # {}
Parcel(c) == [enforced |-> ~Allowed(c) /\ Mode("network") = "block", length |-> 1,
              guarded |-> IF Secretive(c) THEN {[first |-> 1, last |-> 1]} ELSE {}]
Gate(c) == INSTANCE EgressGate WITH
               Parcels <- [enforced : BOOLEAN, length : {1},
                           guarded : SUBSET {[first |-> 1, last |-> 1]}],
               parcel <- Parcel(c),
               forwarded <- IF conn[c] = "forwarded" THEN 1 ELSE 0,
               open <- phase = "running"
                       /\ conn[c] \in {"idle", "asked", "established", "secure", "sent"}
ConnectionsAreGates ==
    /\ \A c \in DOMAIN conn : Gate(c)!Init
    /\ [][\A c \in DOMAIN conn : Gate(c)!Next \/ UNCHANGED Gate(c)!vars]_vars

(* Whatever arrived at the proxy gets its answer, with a certificate from the
   cache or a new one, and however many repeats of a leak came before: a CONNECT
   is established or refused, a request forwarded or severed.  It does not if the
   child exits before, nor if a request that no scan blocked names a port that is
   none: that ends the supervising process, and every connection with it. *)
Arrived(c)  == phase = "running" /\ c \in DOMAIN conn /\ conn[c] \in {"asked", "sent"}
Answered(c) == conn[c] \in {"established", "refused", "forwarded", "severed"}
BadPort     == \E d \in DOMAIN conn : conn[d] = "thrown" /\ ~HasPort(d) /\ ~RequestBlocked(d)
RequestsAnswered ==
    \A c \in Conns : Arrived(c) ~> \/ c \in DOMAIN conn /\ Answered(c)
                                   \/ phase = "done"
                                   \/ phase = "crashed" /\ BadPort

-------------------------------------------------------------------------------
(* reporting/ReportWriter.ts:21: "Secret values are never written - only
   SHA-256 digests." *)
ReportHoldsNoSecret ==
    \A e \in report : \A p \in Context(e) : \A s \in ToSet(secrets) : ~Occurs(s.value, p)

(* docs/interception-flow.md:91: a leak in a network channel in block mode
   severs the connection "and the child process is terminated".  Here: a run in
   which the proxy blocked a request does not end as if nothing had happened. *)
NetworkBlockTerminates ==
    phase = "done" /\ (\E c \in DOMAIN conn : conn[c] = "severed") => killed
===============================================================================
