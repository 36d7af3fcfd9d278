# Verification of envtrap

envtrap runs a command under supervision and watches five channels (stdout,
stderr, network, child_process, dns) for the secrets it loaded.  Each channel
is in `block`, `warn` or `off` mode.  This directory holds TLA+ models of the
code that decides what leaves the supervised process, TLC configurations that
check them on small instances, and proofs that TLAPS checks for every instance.

Paths are relative to the repository (`src/...`).

## The system

| Part | State | Operations | Modules |
| --- | --- | --- | --- |
| `TlsInterceptor`, `UpstreamConnector` | byte counter, `lastOverlap`, header buffer and its three flags, the two sockets | data, end, error of the client socket; data, end, error of the upstream socket | `TlsTunnel`, `TlsTunnelProofs` |
| `HttpHandler` | body chunks, response head, upstream request | data, end, response, upstream error | `PlainHttp`, `PlainHttpProofs` |
| `StdioHandler`, `ChildProcessManager`, `HookMessageParser` | `stderrRemainder`, `forceExit` | stdout chunk, stderr chunk, stderr end, onBlock | `StdioSupervisor`, `StdioSupervisorProofs` |
| `Scanner` (`EventLog`, `DedupCache`, `ContentClamp`) | events, time of the last event by secret and channel | scan, checkChildEnv, checkChildArgs | `Session`; on intervals inside `TlsTunnel`, `PlainHttp`, `StdioSupervisor` |
| `RunCommand`, `CertificateAuthority` (directory), `SystemCaTrust` | temporary directory, the trust store of the machine | boot, spawn, exit, spawn error, signal, install, remove | `RunLifecycle`, `RunLifecycleProofs` |
| `hooks.mjs`, `shared.mjs`, `virtual/*.mjs`, `ChildEnvBuilder` | frozen secrets map, its serialized form, `process.env` | load and scrub, child_process calls, lookups, the `process.env` Proxy | `ChildHooks`, `ChildHooksProofs` |
| `MitmServer`, `ConnectHandler`, host certificates | connections, `domainCertCache` | connect, handshake, request | `Session`, `SessionProofs` |
| `SecretMatcher`, `fingerprint`, `OutputRedactor`, `preRedact` | variants | findIn, redact | `Secrets`, `SecretsProofs` |
| `SecretSourceComposer` and its two sources | none | load | `Secrets`, `SecretsProofs` |
| `ConfigLoader`, `ConfigMerger`, `ConfigValidator` | none | load, merge, validate | `Config`, `ConfigProofs` |
| `HttpParser`, `extractContext`, `ReportWriter` | none | the context of an event | `HttpContext`, `SecretsProofs`, `Session` |
| `RunCommandBuilder` | none | wiring | the initial state of `Session` |
| `PathMatcher`, `Version`, printers, `cli/index`, `runner`, ports | none of interest | matching, printing, argument parsing | left out |

How they interact: `RunCommand` starts the proxy, builds the environment of the
child, spawns it and reads its pipes.  The hooks inside the child write protocol
lines to stderr, which `HookMessageParser` picks out of the stream and
`StdioHandler` turns into scans.  The proxy scans what the child sends through
it.  All of them share one `Scanner`, and a blocking scan on the stdio side
reaches `onBlock`, which kills the child and forces the exit code.  The proxy
has no such callback: it only tears the connection down.

What is hard: streams that are cut anywhere (TCP, TLS records, pipes), handlers
that run after the other side is gone, an exit event that overtakes the data in
a pipe, signals between two steps of a cleanup, one trust store that several
runs share, and an environment that several processes inherit and change.
JavaScript runs a handler to its end, so a handler is one action; the
interleavings are those of events, processes and runs.  `PROJECT.json` lists
the hazards at their lines with the properties that watch them.

## Modules

### EgressGate

The abstract promise of the proxy for one outgoing request: bytes leave in
order, and a prefix with a complete guarded secret never leaves an enforced
request.  `TlsTunnel` and `PlainHttp` both implement it (`GateSpec` in each),
one byte by byte and the other in a single step, and `Session` implements it
once for each connection (`ConnectionsAreGates`).

### TlsTunnel

One intercepted HTTPS request.  The request is a sequence of byte positions; a
secret is the interval it occupies, in whatever form the matcher knows it.  A
scan of a window finds exactly the secrets inside the window and its clamp.
So `lastOverlap` is represented by its length, `headerBuffer` by `held`, and the
code's arithmetic on lengths is kept as it is, with its limits as constants
(`OverlapFloor` 200, `OverlapCeil` 8192, `HeaderCap` 16384, `MaxBuffer` and
`ClampMax` 1 MB, `MethodProbe` 4).  The six branches of the data handler are six
actions that share `Chunk` and `PassesScan`; `Sever` and `WriteUpstream` are its
two ways to finish.  Bytes and UTF-16 units coincide: the traffic is ASCII.

Left out: the content of responses (a response chunk blocks or does not, and
what the scan of a response found is not in `found`), the 502 text that is
written into the client stream, logging.

### PlainHttp

One plain HTTP exchange.  URL and headers hold a secret or do not; body secrets
are intervals, cut by the clamp.  `WriteHead` models `ServerResponse.writeHead`:
it throws when a response has begun, and nobody catches that.  Of the Host
header the model keeps whether its port is out of range (`badPort`):
`http.request` then throws, after the scans.  A port that is no number is 80.

### StdioSupervisor

The parent's side of the two pipes.  stdout is a sequence of positions with
verbatim secrets, read in arbitrary chunks.  stderr is a sequence of lines in
two halves, so that every way to cut a line in two, to join lines in a chunk and
to leave the last one without a newline occurs; a line is text, text with the
secret, or one of the messages of the hooks.  `HandlePieces` is the loop of
`handleStderr`, which stops at the first line that blocks.  `Record` is
`EventLog.record`; `Expire` is the time-to-live of the dedup cache running out.
`OutputRedactor` replaces verbatim values only: an encoded form of a secret is
detected and printed as it is, which this model does not show (`Session` does).

### RunLifecycle

`envtrap run` from boot to exit, several of them on one machine.  `trust` is the
set of runs whose certificate the system trusts.  On Linux all runs share one
file (`anchor`), from which the update commands make the store anew (`Rebuild`);
Windows removes by a common name, macOS by the certificate file; on other
systems nothing is installed.

An action ends where a signal may kill the process, another run may come in
between, or the next call may fail apart.  So `initCA` is `InitCA` (the directory
is made) and `WriteCert` (the certificate is written, and only then is the `exit`
hook registered); on Linux an installation is a copy (`InjectSystemCA`) and an
update (`UpdateWithCA`), a removal the test and the unlink (`RemoveSystemCA`) and
an update (`UpdateWithoutCA`).  A run may be killed in any of its states.  A
command that fails may or may not have done its work, and a removal that fails is
not told (`refused`), nor is an `rmSync` that does (`stuck`).  `owing` are the
runs that unlinked the file since the store was last made from it.

A command that changes the store is one step: two `update-ca-certificates` at the
same moment are the business of that program.

### ChildHooks

A tree of processes.  An environment is the set of secrets under their own
names, whether it carries the serialized map, and whether `NODE_OPTIONS` loads
the hooks, with or without the channel modes.  A process started by a hooked
one goes through `checkChildCall` and `injectGrandchildEnv`; one started by a
shell or another program does not (`RawStart`).  Whether the map is injected is
decided by the text of the command (`isNodeCommand`), and what is started is
another matter: a script, npx or a shell may turn out to be node, and a command
named node something else, so `SpawnCall` chooses the two apart.  `how` keeps
which kind of call it was.  `kept` is an options object that the application
passes more than once: the hooks assign the injected environment to it, where
the application can read it.  It starts without `env`.  The CommonJS wrappers and the
virtual ES modules repeat the same checks and are modelled once.

### Config

`ConfigLoader`, `ConfigMerger` and `ConfigValidator` as operators on JSON
values.  A value is a record with one field, named after its type, so that
`typeof` is a question about the domain; an error is the path it is reported
at.  Merger and validator are translated each from its own file: that they agree
is a property (`ValidatorAndMergerAgree`), not an assumption.  They agree with one
reservation that the property states: the validator accepts every array, and of
an array the merger takes the strings (`ComesTo`).

### Secrets

Texts are sequences of symbols.  `EnvSecrets`, `FileSecrets` and `Compose` are
the sources and their composition, `FindIn` is `SecretMatcher.findIn` with its
variants, `Redact` and `PreRedact` replace in the parent and in the child.
Shannon entropy, the token patterns and the encodings are constants: what they
compute does not matter to the properties, where they are applied does.  The
length limits are constants too (`minLength` 12, 4 for a secret from a file,
6 for variants, the clamp of 1 MB).

### HttpContext

`parseHttpRequest`, `formatNetworkContext` and `extractContext`.  A context is
the set of the pieces of text it prints; labels and line breaks are left out, the
windows of 40 and 20 characters are constants.

### Session

One run from `envtrap.json` to `.envtrap-report.json`.  `Init` is
`RunCommandBuilder.build`: the configuration is loaded from the file of the
setup, the secrets from its environment and `.env`.  Then the child writes, looks
up and connects, in any interleaving its pipes allow, and one `Scanner` (`log`)
serves them all: `Handle` is `StdioHandler` with `OutputRedactor`, with the
pre-redaction and the lookup check of the hooks before it (`Received`); `Connect`,
`Handshake`, `Data` and `HttpEnd` are `ConnectHandler`, the TLS server it makes,
`TlsInterceptor` and `HttpHandler`, which treat a request that arrived alike
(`Deal`); `Send` is the client, which need not use the tunnel it got; `Certify` is the certificate cache;
`ChildExit` writes the report in whatever state the connections are.  `Expire`
lets an entry of the dedup cache run out.

This module has contents and no cuts, where `TlsTunnel` and `StdioSupervisor`
have cuts and no contents: a chunk, a line or a request arrives in one piece.
Left out: bytes that arrive together with CONNECT, failures of the upstream
side (they are in `TlsTunnel` and `PlainHttp`), child_process messages
(`StdioSupervisor`, `ChildHooks`), programs other than node, and clients that
ignore the proxy variables, whose requests nothing in envtrap sees.

## Runs

| Run | Question | Bounds |
| --- | --- | --- |
| `tls_tunnel` | Can a covered secret get past the window or the gate, go unreported, or clean traffic be held up? | 9 byte requests, chunks of 1 to 4, overlap 2, limit 6, cap 5, probe 2; 5 shapes of prefix and header block, 7 sets of secrets, 4 policies |
| `plain_http` | Is every part scanned, does the request leave whole or not at all, and what makes a handler throw? | 3 byte bodies and empty ones, clamp 2, secrets in every part, a port out of range |
| `stdio_supervisor` | Do lines stay whole, is each handled once, is what was found in the report and the exit code? | 2 bytes of stdout, up to 3 lines of stderr of all kinds, 5 settings, one expiry |
| `run_lifecycle` | What do runs leave behind, whichever way they end and wherever they are killed? | 2 runs, 4 platforms |
| `child_hooks` | Do secrets, and the map itself, stay where they may be? | 3 processes, one secret at each of the two length thresholds, one application |
| `session` | Do configuration, sources, detection, redaction, report and proxy agree over a whole run? | about 1050 setups: files with any two of 20 settings, right or wrong; up to two entries in each source; three outputs; two connections; limits 2, 3, 4, clamp 20, windows 3 and 2, one expiry |
| `headers_gated` | refutes a documented claim, see below | as `tls_tunnel` |
| `graceful_failure` | same | as `plain_http` |
| `stderr_drained` | same | as `stdio_supervisor` |
| `secret_rotation` | same | as `child_hooks` |
| `report_secret` | same | as `session` |
| `network_block` | same | as `session` |

Why the bounds are enough.  In `tls_tunnel` every limit is smaller than the
request and they differ from each other, so that chunks end before, at and after
each of them, secrets straddle one, two or three chunks, and some are longer
than the overlap allows; the proofs remove the bound altogether.  Two halves per
stderr line give every position of a cut relative to a newline.  Two runs
suffice to overwrite and remove each other's certificate, and to leave an update
to one that never makes it.  Three processes give
a parent, a child and a grandchild; with one secret the wrappers' loops over the
map are one iteration, whose order matters only for which leak is reported
first.  `child_hooks` uses the symmetry of the two processes that are not the
root and checks invariants only.  The setups of `session` vary one part of the
world at a time against a plain background: every pair of settings, because
what is wrong with one setting may affect another; values that are equal,
overlap, fail one limit or match by pattern only; outputs with verbatim,
encoded, repeated and overlapping secrets, before and beyond the clamp; requests
whose secret begins in a header's name and goes on into its value; two
connections to one host and to two, because the scanner and the certificate
cache are what they share.

Every run has `CHECK_DEADLOCK FALSE`: a tunnel whose sockets are closed, an
answered exchange, a finished run and a full process table have nothing more to
do.

### Properties

Safety.  `NoSecretForwarded` (the sliding window), `HeaderSecretsHeld` (the
header gate), `ScannedAreFound`, `BypassNotHeld`,
`OneUpstream`, `SilentAfterTeardown`, `EveryPartReported`, `CrashExplained`,
`StderrLinesStayWhole`, `NoLineLost`, `OnlySplitSecretsExposed`,
`BlockedRunFails`, `ReportIsFaithful`, `TempDirWiped`, `TrustStoreClean`,
`CertFileServesChild`, `TrustKept`, `ChildrenHoldNoSecret`,
`LookupsHoldNoSecret`, `GrandchildrenArmed`, `MapOnlyWherePut`.
Of `Session`: `ValidatorAndMergerAgree` (a setting the validator rejects keeps its
default, one it accepts takes effect, an array by its strings), `LiveSecretsGuarded` (the composition of the sources
keeps the values the application sees), `PrintedHoldsNoSecret` (redaction of
several secrets that overlap), `EveryLeakReported` (deduplication by name loses
no leak), `ReportShowsOnlyRepeats` (what a report may show of a secret at most),
`ExcludedWritersRaiseNothing` (pre-redaction).

Liveness, and the fairness it takes.  `ForwardedArrives`: the kernel completes
or fails a connection and delivers what was written (weak fairness of
`UpstreamConnect` and `Deliver`; the client and the host owe nothing).
`RequestHandled`: node runs the handler of an ended request.  `RunEnds`: libuv
delivers the child's exit event and the handlers run to their end; nothing is assumed of the child, which may ignore SIGTERM, or of
signals, and the commands of `removeSystemCA` have a timeout.
`RequestsAnswered`: node runs the handlers of the proxy on what has arrived, a
CONNECT or a request (weak fairness of `Answer`).  Nothing makes a client shake
hands or send its request, and a tunnel that is never used owes no answer.

Exceptions that properties name, since the code has them.  A crash is no answer:
`RequestHandled` and `RequestsAnswered` except requests whose own port makes the
process throw, and `CrashExplained` says that besides them only an upstream that
fails in the middle of its response does.  `TempDirWiped` excepts a failure of
`initCA` itself and of `rmSync`.  `TrustStoreClean` excepts, on Linux, what
another run owes: it unlinked the shared file and has not updated the store.
`GrandchildrenArmed` speaks of node commands and `fork`, whatever they start.
`MapOnlyWherePut` excepts options objects that served a node command before.
`TrustKept` speaks of macOS: on Windows the first run to end withdraws the
certificates of all.

Refinement.  `GateSpec` of `TlsTunnel` and of `PlainHttp`, and
`ConnectionsAreGates` of `Session`.

### Where the code differs from what is said of it

| Run | What is said | What the code does |
| --- | --- | --- |
| `headers_gated` | chunks are gated until CR LF CR LF (`docs/network-security-deep-dive-and-roadmap.md:126`) | the method is probed once, at 4 bytes: a longer name cut by the first chunk counts as another protocol (`src/mitm/TlsInterceptor.ts:89`) |
| `graceful_failure` | the proxy gracefully returns 502 on connection failures (`test/integration/mitm.test.js:162`) | after a response has begun the second `writeHead` throws and is not caught (`src/mitm/HttpHandler.ts:70`) |
| `stderr_drained` | the parent intercepts all data on stderr (`docs/interception-flow.md:17`) | the run ends at the exit event, with data still in the pipe (`src/cli/RunCommand.ts:71`) |
| `secret_rotation` | new values enter the map instantly (`docs/interception-flow.md:98`, `:104`) | the map is frozen and the assignment throws (`src/hooks/hooks.mjs:386`) |
| `report_secret` | secret values are never written (`src/reporting/ReportWriter.ts:21`) | the context replaces the first occurrence of one secret; repeats, other secrets, the request line and the Host header are printed as they are (`src/detection/fingerprint.ts:122`, `src/detection/HttpParser.ts:99`, `:122`, `:123`) |
| `network_block` | a leak severs the connection and the child is terminated (`docs/interception-flow.md:91`) | the proxy has no way to the child, which lives on and decides the exit code (`src/mitm/TlsInterceptor.ts:75`) |

Six more differences have no run of their own.  The models do what the code
does, and the properties say where it ends:

- A secret of stdout that the pipe cuts in two is printed in plain, each chunk
  being scanned by itself (`src/cli/StdioHandler.ts:22`), where
  `docs/how-envtrap-intercepts-nodejs.md:177` says that only the redacted version
  is printed.  `OnlySplitSecretsExposed` says that no other is.
- The hook that wipes the temporary directory is registered after the certificate
  is written, and a failing `rmSync` is swallowed
  (`src/mitm/CertificateAuthority.ts:59`, `:61`, `:77`), where
  `docs/network-security-deep-dive-and-roadmap.md:198` says "temporary files wiped
  on exit".  `TempDirWiped` excepts these two.
- On Linux a run that finds the shared file gone updates nothing
  (`src/mitm/SystemCaTrust.ts:105`): its CA stays trusted if the run that unlinked
  the file is killed before its update, or the update fails.  `:89` says that
  `removeSystemCA` cleans up the temporary installation at the exit of the child.
  `TrustStoreClean` excepts this.
- The map is passed to commands that are named node (`src/hooks/hooks.mjs:133`), where
  `src/hooks/shared.mjs:219` says to child Node.js processes: what a script, npx or
  a shell starts loads the hooks and knows no secret.  `GrandchildrenArmed` speaks
  of the former.
- The map is put into the options object of the caller (`src/hooks/hooks.mjs:141`),
  where `src/hooks/shared.mjs:227` removes it from the environment "to prevent
  inspection".  `MapOnlyWherePut` speaks of environments, and names that object as
  a way into those of other programs.
- The validator accepts any array for the exclusions, and its message asks for "an
  array of strings" (`src/config/ConfigValidator.ts:64`, `:65`, `:68`); the merger
  drops what is no string (`src/config/ConfigMerger.ts:62`).
  `ValidatorAndMergerAgree` says so.

## Proofs

`TlsTunnelProofs` proves, for all sizes and requests that satisfy
`SizesAssumption` and `RequestsAssumption`: `TypeCorrect`, `Invariance`,
`WindowedScan` (`NoSecretForwarded`), `HeaderGate` (`HeaderSecretsHeld`),
`Detection` (`ScannedAreFound`), `SingleUpstream` (`OneUpstream`), `Bypass`,
`Silence` and
`ImplementsGate` (`GateSpec`).  The assumptions say that sizes are natural
numbers, that the header cap is at most the buffer limit, that limit at most the
clamp, and that an overlap with a chunk fits the clamp; all hold of the
constants in the code.

The properties are not inductive by themselves.  That no covered secret has been
written rests on the length of the overlap, that on the counters, and both on
the gate: `IInv` collects them.

- `CountersAgree`: below the limit the counter is exact and the overlap is as
  long as it can be; before the gate opens everything received is held, after it
  nothing is.
- `CleanWhileOpen`: an enforced tunnel that is still open has reported nothing,
  so a covered secret of the bytes received would have closed it.
- `GateWasClean`: once the gate of an HTTP request is open, its header block had
  no secret.
- `SocketsAgree`: the field and the socket agree while the client side is open,
  and a client that ended leaves no socket behind.
- `Reported`, `ReportedAtEnd`: what the scans have covered is in `found`.
- `HeldForAReason`: only what looks like HTTP and is to be scanned is held back.

The heart of the argument is the lemma `WindowCovers`: a secret no longer than
the overlap plus one that ends in a chunk lies inside the window the chunk is
scanned in.  Each action has a lemma of its own.

`RunLifecycleProofs` proves, for every set of runs and every platform:
`TypeCorrect`, `Invariance`, `DirectoryWiped` (`TempDirWiped`), `StoreClean`
(`TrustStoreClean`), `FileServesChild` (`CertFileServesChild`) and
`OwnTrustKept` (`TrustKept`).  Each property speaks of runs that have ended; the
invariant says what a run carries on the way there.

- `CaDirLives`: the directory exists from `initCA` to the exit handler.
- `TrustedWasInjected`: what the store or the shared file holds was put there by a
  run that intercepts, on a machine where it may.
- `BootedWithProxy`: only a run that intercepts makes a CA, and only Linux has a
  shared file.
- `MissingFileIsOwed`, `OwingExplained`: when the file is gone from under what is
  trusted some run owes the update; it is about to make it, was killed, or failed.
- `WithdrawnForGood`: from its removal on a run has no certificate in the file,
  and none in the store unless another owes the update, although other runs go on
  writing to both.

`PlainHttpProofs` proves, for every set of requests with `ExchangesAssumption`
and every clamp: `TypeCorrect`, `Invariance`, `AllPartsReported`
(`EveryPartReported`), `CrashesExplained` (`CrashExplained`) and
`ImplementsGate` (`GateSpec`).  `QuietBeforeEnd` says that nothing is sent,
answered or found before the end of the request, `ScannedAtEnd` that the scans
then saw all of it and decided; the refinement needs both.  `AnswerAgrees` says
what the client was told at each state of the upstream request: it leaves one
state in which a second head can be written.

`ChildHooksProofs` proves, for every set of processes, applications, secrets and
settings: `TypeCorrect`, `Invariance`, `NoSecretHandedDown`
(`ChildrenHoldNoSecret`), `NoSecretLookedUp` (`LookupsHoldNoSecret`),
`ArmedDownTheTree` (`GrandchildrenArmed`) and `MapWherePut`
(`MapOnlyWherePut`).  What a process may hold depends on what its parent
was when it started it, which the parent no longer is:

- `ParentsRun`: a process was started by one that runs, and Root by nobody.
- `NothingBeforeBoot`: a process that has not booted knows no map.
- `StartedWithMap`: what an armed parent starts by a node command is started with
  the map, and keeps it until it boots, although it left the parent's environment
  long before.

`MapOnlyWherePut` is inductive beside them: its first part, that no hooked process
has the map in its environment, is what makes the second hold of the next child.

`StdioSupervisorProofs` proves, for every script of the child and all settings:
`TypeCorrect`, `Invariance`, `LinesStayWhole` (`StderrLinesStayWhole`),
`EveryLineHandled` (`NoLineLost`), `ExposedWereSplit`
(`OnlySplitSecretsExposed`), `BlockFailsTheRun` (`BlockedRunFails`) and
`FaithfulReport` (`ReportIsFaithful`).  `RemainderIsOneLine` carries the proof:
what is left of stderr begins a line and holds no newline, so each of its lines
is handled when it is complete, by one chunk or by the end of the stream.
`ReadUpToACut` says where stdout was cut, `ExpiriesCount` that another event of
a channel costs an entry of the cache, `BlocksRemembered` that the exit code
waits for a block that came before.

`SecretsProofs` says what the folds and recursive functions of `Secrets` and
`HttpContext` compute for every input.  The induction theorems of the library
take an operator as a parameter, which the provers here cannot instantiate;
`Induction` states it for a set of numbers, and `FoldDefined` derives from it
that a fold is the function its recursion says.  On these rest

- `LoadedSecrets`, `SourcesGuarded`: the composition of the sources gives
  candidates only, no name twice, and keeps every value the application sees.
- `NothingNew`: `replaceAll` leaves nothing of the value and makes no other text
  occur.  Each symbol of the result is traced to its place in the text; symbols
  next to each other come from neighbours unless a mark lies between them, and a
  text of the program holds no mark.
- `RedactCleans`, `PreRedactCleans`: so redacting one secret after the other
  leaves none of them, in whatever order and however they overlap.
- `ContextShows`: the lines of a request are laid out in it one after the other
  (`SplitLays`), header values and body stand in it (`ParseParts`), and what is
  left of a value after its first occurrence was replaced is a second occurrence
  (`SecondLeft`).  So a context shows its value only if the scanned text has it
  twice, or where it prints the request as it is.

`ConfigProofs` proves `FileJudgedAlike`, setting by setting: `ConfigMerger` does
with every JSON value of a file what `ConfigValidator` says of it, arrays with
members that are no strings included.  `FilterInOrder` says what the filter of an
array keeps: the strings, each once and in their order.

`SessionProofs` proves, for every set of setups that satisfies the assumptions
below: `TypeCorrect`, `Invariance`, `SettingsAgree` (`ValidatorAndMergerAgree`),
`SecretsGuarded` (`LiveSecretsGuarded`), `PrintedClean`
(`PrintedHoldsNoSecret`), `LeaksReported` (`EveryLeakReported`), `RepeatsOnly`
(`ReportShowsOnlyRepeats`), `ExcludedStaySilent` (`ExcludedWritersRaiseNothing`)
and `GatesImplemented` (`ConnectionsAreGates`).  Its invariant ties what can be
seen at the end to what it was made from: `SetupFixed`, `PrintedRedacted`,
`LeaksRecorded`, `RecentRecorded` (an entry of the cache stands for an event with
its name and channel; as names are unique, a leak that is left out has one),
`EventsFound` and `ReportFinal`.

### What the proofs assume

Each assumption is an ASSUME of its module, which TLC evaluates on the instance
of every run.

- Sizes are natural numbers; in `TlsTunnel` they are ordered as in the code
  (`SizesAssumption`).  `WindowsAssumption`: the windows of a context.
- Requests, exchanges and scripts are well formed: intervals lie inside the
  stream (`RequestsAssumption`, `ExchangesAssumption`, `ScriptsAssumption`),
  modes and names come from their sets (`SettingsAssumption`,
  `HooksAssumption`), texts are sequences (`OutputsAssumption`).
- A file of `Session` is JSON (`IsFile`).  A source is an object: no key comes
  twice (`NamedOnce`).
- The value of a variable and its encodings contain none of the marks that
  envtrap itself writes (`IsText`).  A secret that is part of a mark would be
  left behind by its own redaction.
- `NoEmptySecret`: no empty variable passes for a secret.  With the code's own
  defaults none does; only a file that sets `entropy.minLength` and
  `entropy.threshold` both to 0 or less makes one of it.

### What the proofs changed

`ReportShowsOnlyRepeats` once exempted the request line, the Host header and the
names of the headers one by one.  Its proof failed on a secret that begins in
the name of a header and goes on into the value, or goes from the method into
the URL: the scanner finds it, the context looks for it in the value alone
(`src/detection/HttpParser.ts:98`) and prints both parts.  TLC confirmed it; the
property now says so, and `SpanSetups` of `MCSession` makes it happen.

### What stays with TLC

Every invariant and every action property of the runs is proved, and the
three refinements of `EgressGate`.  Liveness under fairness is out of the prover's
reach: `ForwardedArrives`, `RequestHandled`, `RunEnds` and `RequestsAnswered` are model-checked only.  Each `IInv` is proved and is no
invariant of a run.

## What is not modelled

- The entropy and pattern tests, the encodings, dotenv and JSON parsing:
  constants, or values already parsed.
- `PathMatcher`: a caller is excluded or not.
- The loader callbacks that substitute the virtual modules, and the entropy
  warning of lookups, which changes no state.
- Bytes that arrive with CONNECT, and the content of responses.
- `MitmServer.stop` and `startProxy`, which nothing in a run calls.
- Printing, wording, argument parsing and the check command.

Consequences: a secret whose encoded form is longer than the overlap is outside
`NoSecretForwarded` (the header gate still covers it); a stdout secret in encoded
form is detected and printed as it is, which `PrintedHoldsNoSecret` leaves out;
base64 of a secret inside a longer text is not among the variants, in the code as
in the model.

## Plan

Models, in this order.

1. The loader (`resolve`, `load`) and the CommonJS side of the hooks: which
   imports reach a wrapped module, `dns/promises` among them.
2. An abstract `Supervisor` (every output line is delivered redacted, once, in
   order) that `StdioSupervisor` implements.
3. The bytes of the CONNECT handshake, in `TlsTunnel`.

Proofs, in this order.

1. The refinement of the abstract `Supervisor`, once it is there.
2. Several tunnels that share one `Scanner`: `TlsTunnel` with the log of
   `Session`.
3. What the loader replaces, once it is modelled.
