------------------------------- MODULE ChildHooks ------------------------------
(***************************************************************************)
(* The hooks in the tree of supervised processes: hooks.mjs, its virtual   *)
(* ES modules and shared.mjs (src/hooks), armed by the environment that    *)
(* ChildEnvBuilder builds.                                                 *)
(*                                                                         *)
(* A process environment is the secrets it holds under their own names,    *)
(* whether it carries the serialized secrets map, and whether NODE_OPTIONS *)
(* loads the hooks ("bare"), with the channel modes beside it ("full").    *)
(* The wrapped require()s and the virtual modules are two copies of the    *)
(* same checks over the same frozen map, and are modelled as one.          *)
(***************************************************************************)
EXTENDS Integers, FiniteSets

CONSTANTS Procs, Root,  \* processes; Root is the child that envtrap spawns
          Names,        \* the secrets loaded, by name
          Lengths,      \* the lengths of their values considered
          Settings,     \* the channel modes considered
          Apps,         \* bound: the processes that look names up and change process.env
          NoEnv         \* an options object without env

Channel == {"child_process", "dns"}
Mode    == {"block", "warn", "off"}
Env     == [names : SUBSET Names, map : BOOLEAN, hooks : {"none", "bare", "full"}]

ASSUME HooksAssumption ==
    /\ Root \in Procs /\ Apps \subseteq Procs
    /\ Lengths \subseteq [Names -> Nat]
    /\ Settings \subseteq [Channel -> Mode]
    /\ NoEnv \notin Env

ArgsMin == 4   \* value.length >= 4
DnsMin  == 8   \* value.length >= 8

VARIABLES
    modes,      \* config.channels
    length,     \* of the value of each secret
    excludes,   \* are there path exclusions?
    state,      \* "none", "starting", "running", by process
    runtime,    \* "node", "other"
    env,        \* process.env
    known,      \* the names in secretsMap; {} without hooks
    serialized, \* is _rawEncodedSecretsMap set?
    parent,     \* the process that started it, itself for Root
    how,        \* "envtrap", a "node call" or an "other call" of the hooks, "raw"
    args,       \* the secrets in its command line
    kept,       \* the env of an options object the application passes again and again
    rotated,    \* names the application set anew in process.env
    learned,    \* names of those whose new value is in secretsMap
    resolved,   \* the secrets in the hostnames it looked up
    reported    \* names reported on stderr, by channel

config == <<modes, length, excludes>>
birth  == <<runtime, parent, how, args>>
hooks  == <<known, serialized, learned>>
app    == <<kept, rotated, resolved>>
vars   == <<config, birth, state, env, hooks, app, reported>>

-------------------------------------------------------------------------------
(* ChildEnvBuilder.build: process.env of the parent and the hooks' variables. *)
Init ==
    /\ modes \in Settings /\ length \in Lengths /\ excludes \in BOOLEAN
    /\ state = [p \in Procs |-> IF p = Root THEN "starting" ELSE "none"]
    /\ \E r \in {"node", "other"}, n \in SUBSET Names :
         /\ runtime = [p \in Procs |-> IF p = Root THEN r ELSE "other"]
         /\ env = [p \in Procs |->
                    IF p = Root THEN [names |-> n, map |-> TRUE, hooks |-> "full"]
                                ELSE [names |-> {}, map |-> FALSE, hooks |-> "none"]]
    /\ parent = [p \in Procs |-> p] /\ how = [p \in Procs |-> "envtrap"]
    /\ args = [p \in Procs |-> {}]
    /\ known = [p \in Procs |-> {}] /\ serialized = [p \in Procs |-> FALSE]
    /\ learned = [p \in Procs |-> {}]
    /\ kept = [p \in Procs |-> NoEnv] /\ rotated = [p \in Procs |-> {}]
    /\ resolved = [p \in Procs |-> {}]
    /\ reported = [c \in Channel |-> {}]

LoadsHooks(p) == runtime[p] = "node" /\ env[p].hooks # "none"
Hooked(p)     == state[p] = "running" /\ LoadsHooks(p)

(* loadAndScrubSecretsMap, before the first line of the application. *)
Boot(p) ==
    /\ state[p] = "starting"
    /\ state' = [state EXCEPT ![p] = "running"]
    /\ IF LoadsHooks(p) /\ env[p].map
         THEN /\ known' = [known EXCEPT ![p] = Names]
              /\ serialized' = [serialized EXCEPT ![p] = TRUE]
              /\ env' = [env EXCEPT ![p].map = FALSE]
         ELSE UNCHANGED <<known, serialized, env>>
    /\ UNCHANGED <<config, birth, learned, app, reported>>

-------------------------------------------------------------------------------
(* checkChildCall and checkLookup. *)

(* configModes[channel], or the default where the variable is missing. *)
ModeOf(p, channel) == IF env[p].hooks = "full" THEN modes[channel]
                      ELSE IF channel = "dns" THEN "block" ELSE "warn"

EnvLeaks(p, e)       == e.names \cap known[p]
TextLeaks(p, a, min) == {n \in a \cap known[p] : length[n] >= min}

(* A caller on an excluded path is not looked at. *)
Looks(p, channel, excluded) == ModeOf(p, channel) # "off" /\ ~excluded

(* Mutation: a leak in a hostname is reported but lets the lookup through. *)
LetsThroughDns(p, channel, leaks, excluded) ==
    LET seen == IF Looks(p, channel, excluded) THEN leaks ELSE {} IN
    /\ seen # {} => ModeOf(p, channel) # "block" \/ channel = "dns"
    /\ reported' = [reported EXCEPT ![channel] = @ \cup seen]

(* A check lets a call through after a report of every leak. *)
LetsThrough(p, channel, leaks, excluded) ==
    LET seen == IF Looks(p, channel, excluded) THEN leaks ELSE {} IN
    /\ seen # {} => ModeOf(p, channel) # "block"
    /\ reported' = [reported EXCEPT ![channel] = @ \cup seen]

(* Mutation: the report names the leaks together, not the first of them. *)
ThrowsAll(p, channel, leaks, excluded) ==
    /\ Looks(p, channel, excluded) /\ ModeOf(p, channel) = "block" /\ leaks # {}
    /\ reported' = [reported EXCEPT ![channel] = @ \cup {leaks}]

(* Or it throws after the report of the first one. *)
Throws(p, channel, leaks, excluded) ==
    /\ Looks(p, channel, excluded) /\ ModeOf(p, channel) = "block"
    /\ \E n \in leaks : reported' = [reported EXCEPT ![channel] = @ \cup {n}]

-------------------------------------------------------------------------------
(* The wrapped child_process. *)

Start(p, q, api, r, e, a) ==
    /\ state' = [state EXCEPT ![q] = "starting"]
    /\ runtime' = [runtime EXCEPT ![q] = r]
    /\ parent' = [parent EXCEPT ![q] = p]
    /\ how' = [how EXCEPT ![q] = api]
    /\ args' = [args EXCEPT ![q] = a]
    /\ env' = [env EXCEPT ![q] = e]

(* actualOpts.env ?? process.env *)
OwnEnv(p, o) == IF o = NoEnv THEN env[p] ELSE o

(* Mutation: an inherited environment is not looked at. *)
CallLeaksGiven(p, o, a) ==
    (IF o = NoEnv THEN {} ELSE EnvLeaks(p, o)) \cup TextLeaks(p, a, ArgsMin)

CallLeaks(p, o, a) == EnvLeaks(p, OwnEnv(p, o)) \cup TextLeaks(p, a, ArgsMin)

(* Mutation: an inherited environment gets no map. *)
InjectedGiven(p, o, isNode) ==
    IF isNode /\ serialized[p] /\ o # NoEnv THEN [o EXCEPT !.map = TRUE] ELSE o

(* Mutation: every command gets the map. *)
InjectedAny(p, o, isNode) ==
    IF serialized[p] THEN [OwnEnv(p, o) EXCEPT !.map = TRUE] ELSE o

(* injectGrandchildEnv *)
Injected(p, o, isNode) ==
    IF isNode /\ serialized[p] THEN [OwnEnv(p, o) EXCEPT !.map = TRUE] ELSE o

(* spawn, execFile, fork and their Sync forms.  isNodeCommand looks at the text
   of the command, and fork is a node call always: what is started may be node
   under another name (a script, npx, a shell), and something else under that
   of node.  The injected environment is assigned to the caller's own options. *)
SpawnCall(p, q, o, isNode, r, a, excluded) ==
    /\ LetsThrough(p, "child_process", CallLeaks(p, o, a), excluded)
    /\ Start(p, q, IF isNode THEN "node call" ELSE "other call", r,
             OwnEnv(p, Injected(p, o, isNode)), a)

(* exec and execSync: a shell, and no injection. *)
ExecCall(p, q, o, a, excluded) ==
    /\ LetsThrough(p, "child_process", CallLeaks(p, o, a), excluded)
    /\ Start(p, q, "other call", "other", OwnEnv(p, o), a)

(* What the application passes: no env, one it made up, or the kept object. *)
Made     == [names : SUBSET Names, map : {FALSE}, hooks : {"none", "bare", "full"}]
Given(p) == {NoEnv, kept[p]} \cup Made

Call(p, q) ==
    /\ Hooked(p) /\ state[q] = "none"
    /\ \E a \in SUBSET Names, excluded \in {FALSE, excludes},
          isNode \in BOOLEAN, r \in {"node", "other"} :
         \/ /\ \E o \in {NoEnv} \cup Made : SpawnCall(p, q, o, isNode, r, a, excluded)
            /\ UNCHANGED kept
         \/ /\ SpawnCall(p, q, kept[p], isNode, r, a, excluded)
            /\ kept' = [kept EXCEPT ![p] = Injected(p, kept[p], isNode)]
         \/ /\ \E o \in Given(p) : ExecCall(p, q, o, a, excluded)
            /\ UNCHANGED kept
    /\ UNCHANGED <<config, hooks, rotated, resolved>>

CallThrows(p) ==
    /\ Hooked(p)
    /\ \E a \in SUBSET Names, o \in Given(p), excluded \in {FALSE, excludes} :
          Throws(p, "child_process", CallLeaks(p, o, a), excluded)
    /\ UNCHANGED <<config, birth, state, env, hooks, app>>

(* A process without hooks, a shell for instance, starts what it likes; the
   command line it gives is of no interest. *)
RawStart(p, q) ==
    /\ state[p] = "running" /\ ~LoadsHooks(p) /\ state[q] = "none"
    /\ \E r \in {"node", "other"}, e \in {env[p]} \cup Made :
          Start(p, q, "raw", r, e, {})
    /\ UNCHANGED <<config, hooks, app, reported>>

-------------------------------------------------------------------------------
(* The wrapped dns: a hostname with the given secrets in it. *)

Lookup(p) ==
    /\ Hooked(p) /\ p \in Apps
    /\ \E host \in SUBSET Names, excluded \in {FALSE, excludes} :
         \/ /\ LetsThrough(p, "dns", TextLeaks(p, host, DnsMin), excluded)
            /\ resolved' = IF excluded THEN resolved
                           ELSE [resolved EXCEPT ![p] = @ \cup host]
         \/ /\ Throws(p, "dns", TextLeaks(p, host, DnsMin), excluded)
            /\ UNCHANGED resolved
    /\ UNCHANGED <<config, birth, state, env, hooks, kept, rotated>>

-------------------------------------------------------------------------------
(* The Proxy around process.env, for values of at least entropyMinLength. *)

(* Every map loadAndScrubSecretsMap returns is frozen: an assignment to it, or
   a delete, throws after process.env itself has changed. *)
IsFrozen(p) == TRUE

SetEnv(p) ==
    /\ Hooked(p) /\ p \in Apps
    /\ \E n \in Names :
         /\ env' = [env EXCEPT ![p].names = @ \ {n}]   \* the loaded value is gone
         /\ rotated' = [rotated EXCEPT ![p] = @ \cup {n}]
         /\ learned' = IF IsFrozen(p) THEN learned ELSE [learned EXCEPT ![p] = @ \cup {n}]
    /\ UNCHANGED <<config, birth, state, known, serialized, kept, resolved, reported>>

DeleteEnv(p) ==
    /\ Hooked(p) /\ p \in Apps
    /\ \E n \in env[p].names :
         /\ env' = [env EXCEPT ![p].names = @ \ {n}]
         /\ known' = IF IsFrozen(p) THEN known ELSE [known EXCEPT ![p] = @ \ {n}]
    /\ UNCHANGED <<config, birth, state, serialized, learned, app, reported>>

Next == \E p \in Procs :
    \/ Boot(p) \/ CallThrows(p) \/ Lookup(p) \/ SetEnv(p) \/ DeleteEnv(p)
    \/ \E q \in Procs : Call(p, q) \/ RawStart(p, q)

Spec == Init /\ [][Next]_vars

-------------------------------------------------------------------------------
TypeOK ==
    /\ modes \in Settings /\ length \in Lengths /\ excludes \in BOOLEAN
    /\ state \in [Procs -> {"none", "starting", "running"}]
    /\ runtime \in [Procs -> {"node", "other"}] /\ parent \in [Procs -> Procs]
    /\ how \in [Procs -> {"envtrap", "node call", "other call", "raw"}]
    /\ args \in [Procs -> SUBSET Names]
    /\ env \in [Procs -> Env] /\ kept \in [Procs -> Env \cup {NoEnv}]
    /\ known \in [Procs -> SUBSET Names] /\ serialized \in [Procs -> BOOLEAN]
    /\ rotated \in [Procs -> SUBSET Names] /\ learned \in [Procs -> SUBSET Names]
    /\ resolved \in [Procs -> SUBSET Names]
    /\ reported \in [Channel -> SUBSET Names]

(* Without path exclusions, and with the channel on, a process started through
   the hooks holds no secret its parent knows, in its environment or its
   command line, that was not reported; in block mode it holds none. *)
ChildrenHoldNoSecret ==
    \A q \in Procs :
        LET p    == parent[q]
            mode == ModeOf(p, "child_process")
            has  == EnvLeaks(p, env[q]) \cup TextLeaks(p, args[q], ArgsMin)
        IN  how[q] \in {"node call", "other call"} /\ ~excludes /\ mode # "off"
                => /\ has \subseteq reported["child_process"]
                   /\ mode = "block" => has = {}

(* The same of the names looked up, excluded callers aside. *)
LookupsHoldNoSecret ==
    \A p \in Procs :
        LET mode == ModeOf(p, "dns")
            has  == TextLeaks(p, resolved[p], DnsMin)
        IN  mode # "off" => /\ has \subseteq reported["dns"]
                            /\ mode = "block" => has = {}

(* A process that loads the hooks, and that an armed process started by a node
   command or fork, is armed with the whole map, although its parent had taken
   the map out of the environment long before.  One started by another command
   need not be, whatever it runs. *)
GrandchildrenArmed ==
    \A q \in Procs :
        Hooked(q) /\ (q = Root \/ (how[q] = "node call" /\ serialized[parent[q]]))
            => known[q] = Names /\ serialized[q]

(* The hooks take the map out of process.env, and nothing puts it back there; and
   wherever else a process is started with the map, it was by a node command,
   with an options object that had served one and still carries it, or by a
   process without hooks. *)
MapOnlyWherePut ==
    \A q \in Procs :
        /\ Hooked(q) => ~env[q].map
        /\ q # Root /\ state[q] # "none" /\ env[q].map
               => LET p == parent[q] IN
                  \/ how[q] = "node call" /\ serialized[p]
                  \/ kept[p] # NoEnv /\ kept[p].map
                  \/ ~LoadsHooks(p)

-------------------------------------------------------------------------------
(* Why the properties above hold. *)

(* Only Root is there from the beginning, and a process was started by one
   that runs: its parent's hooks were armed, or not, before that. *)
ParentsRun ==
    /\ state[Root] # "none"
    /\ \A q \in Procs :
          /\ how[q] = "envtrap" <=> q = Root \/ state[q] = "none"
          /\ how[q] # "envtrap" => state[parent[q]] = "running"

(* A process that has not booted has no map of its own and looked nothing up. *)
NothingBeforeBoot ==
    \A p \in Procs : state[p] # "running" =>
        known[p] = {} /\ ~serialized[p] /\ resolved[p] = {}

(* Root, and what an armed parent starts by a node command, have the map first. *)
StartedWithMap ==
    \A q \in Procs :
        state[q] = "starting" /\ (q = Root \/ (how[q] = "node call" /\ serialized[parent[q]]))
            => env[q].map

(* The inductive invariant. *)
IInv == /\ TypeOK /\ ParentsRun /\ NothingBeforeBoot /\ StartedWithMap
        /\ ChildrenHoldNoSecret /\ LookupsHoldNoSecret
        /\ GrandchildrenArmed /\ MapOnlyWherePut

-------------------------------------------------------------------------------
(* docs/interception-flow.md:98 says that envtrap updates the scanner when the
   application rotates secrets, docs/interception-flow.md:104 that the map is
   updated instantly.  Here: the value a hooked process last gave to one of
   its secrets is in its secrets map. *)
RotatedSecretsKnown == \A p \in Procs : rotated[p] \subseteq learned[p]
===============================================================================
