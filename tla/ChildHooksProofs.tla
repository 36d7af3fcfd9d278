--------------------------- MODULE ChildHooksProofs ---------------------------
(* Theorems about ChildHooks for every set of processes, every set of secrets
   with any lengths and every channel modes. *)
EXTENDS ChildHooks, TLAPS

-------------------------------------------------------------------------------
(* The shape of the steps. *)

(* An options object the application passes is an environment or has none. *)
LEMMA GivenType == ASSUME TypeOK, NEW p \in Procs PROVE Given(p) \subseteq Env \cup {NoEnv}
BY DEF TypeOK, Given, Made, Env

(* injectGrandchildEnv adds the map and nothing else, and only for a node
   command of a process that has it. *)
LEMMA InjectedIs ==
    ASSUME TypeOK, NEW p \in Procs, NEW o \in Env \cup {NoEnv}, NEW isNode
    PROVE  /\ OwnEnv(p, o) \in Env /\ Injected(p, o, isNode) \in Env \cup {NoEnv}
           /\ OwnEnv(p, Injected(p, o, isNode)) \in Env
           /\ OwnEnv(p, Injected(p, o, isNode)).names = OwnEnv(p, o).names
           /\ isNode /\ serialized[p] => /\ Injected(p, o, isNode) # NoEnv
                                         /\ Injected(p, o, isNode).map
           /\ ~(isNode /\ serialized[p]) => Injected(p, o, isNode) = o
<1>1. OwnEnv(p, o) \in Env
  BY DEF TypeOK, OwnEnv
<1>2. CASE isNode /\ serialized[p]
  <2>1. /\ [OwnEnv(p, o) EXCEPT !.map = TRUE] \in Env
        /\ [OwnEnv(p, o) EXCEPT !.map = TRUE].names = OwnEnv(p, o).names
        /\ [OwnEnv(p, o) EXCEPT !.map = TRUE].map
    BY <1>1 DEF Env
  <2> QED BY <1>1, <1>2, <2>1, HooksAssumption DEF Injected, OwnEnv
<1>3. CASE ~(isNode /\ serialized[p])
  BY <1>1, <1>3 DEF Injected
<1> QED BY <1>1, <1>2, <1>3

(* Where the map in the environment of a new process may come from. *)
MapFrom(p, api) == \/ api = "node call" /\ serialized[p]
                   \/ env[p].map
                   \/ kept[p] # NoEnv /\ kept[p].map

(* A process q is started by p with an environment that was looked at; a node
   command of an armed process gets the map, any other command sees one only
   in the environment of p or in an options object that was used before. *)
Started(p, q, api, r, e, a, excluded) ==
    /\ LetsThrough(p, "child_process",
                   EnvLeaks(p, e) \cup TextLeaks(p, a, ArgsMin), excluded)
    /\ Start(p, q, api, r, e, a)
    /\ api = "node call" /\ serialized[p] => e.map
    /\ e.map => MapFrom(p, api)

(* spawn looks at the very names that the process is started with. *)
LEMMA SpawnStarts ==
    ASSUME TypeOK, NEW p \in Procs, NEW q \in Procs, NEW o \in Given(p),
           NEW r \in {"node", "other"}, NEW a, NEW excluded,
           \E isNode \in BOOLEAN : SpawnCall(p, q, o, isNode, r, a, excluded)
    PROVE  \E api \in {"node call", "other call"}, e \in Env :
               Started(p, q, api, r, e, a, excluded)
<1> PICK isNode \in BOOLEAN : SpawnCall(p, q, o, isNode, r, a, excluded)
  OBVIOUS
<1> DEFINE e   == OwnEnv(p, Injected(p, o, isNode))
           api == IF isNode THEN "node call" ELSE "other call"
<1>1. o \in Env \cup {NoEnv}
  BY GivenType
<1>2. e \in Env /\ e.names = OwnEnv(p, o).names
  BY <1>1, InjectedIs
<1>3. EnvLeaks(p, e) = EnvLeaks(p, OwnEnv(p, o))
  BY <1>2 DEF EnvLeaks
<1>4. isNode /\ serialized[p] => e.map
  BY <1>1, InjectedIs DEF OwnEnv
<1>5. ASSUME e.map, ~(isNode /\ serialized[p]), ~env[p].map PROVE kept[p] # NoEnv /\ kept[p].map
  <2>1. e = OwnEnv(p, o)
    BY <1>1, <1>5, InjectedIs
  <2>2. o # NoEnv /\ e = o
    BY <1>5, <2>1 DEF OwnEnv
  <2> QED BY <1>5, <2>2 DEF Given, Made
<1>6. api = "node call" <=> isNode
  OBVIOUS
<1>7. e.map => MapFrom(p, api)
  <2> HIDE DEF e, api
  <2> QED BY <1>5, <1>6 DEF MapFrom
<1>8. LetsThrough(p, "child_process", EnvLeaks(p, e) \cup TextLeaks(p, a, ArgsMin), excluded)
  BY <1>3 DEF SpawnCall, CallLeaks
<1>9. Start(p, q, api, r, e, a)
  BY DEF SpawnCall
<1>10. api \in {"node call", "other call"}
  OBVIOUS
<1> HIDE DEF e, api
<1>11. Started(p, q, api, r, e, a, excluded)
  BY <1>4, <1>6, <1>7, <1>8, <1>9 DEF Started
<1> QED BY <1>2, <1>10, <1>11

(* exec hands over what it looked at. *)
LEMMA ExecStarts ==
    ASSUME TypeOK, NEW p \in Procs, NEW q \in Procs, NEW o \in Given(p),
           NEW a, NEW excluded, ExecCall(p, q, o, a, excluded)
    PROVE  \E e \in Env : Started(p, q, "other call", "other", e, a, excluded)
<1>1. OwnEnv(p, o) \in Env
  BY GivenType, InjectedIs
<1>2. OwnEnv(p, o).map => MapFrom(p, "other call")
  BY DEF OwnEnv, Given, Made, MapFrom
<1>3. Started(p, q, "other call", "other", OwnEnv(p, o), a, excluded)
  BY <1>2 DEF ExecCall, CallLeaks, Started
<1> QED BY <1>1, <1>3

(* Whatever call it was that started a process. *)
LEMMA CallStarts ==
    ASSUME TypeOK, NEW p \in Procs, NEW q \in Procs, Call(p, q)
    PROVE  \E api \in {"node call", "other call"}, r \in {"node", "other"}, e \in Env,
              a \in SUBSET Names, excluded \in {FALSE, excludes} :
              Started(p, q, api, r, e, a, excluded)
<1>1. PICK a \in SUBSET Names, excluded \in {FALSE, excludes}, r \in {"node", "other"},
           o \in Given(p) :
           \/ \E isNode \in BOOLEAN : SpawnCall(p, q, o, isNode, r, a, excluded)
           \/ ExecCall(p, q, o, a, excluded)
  BY DEF Call, Given
<1>2. CASE \E isNode \in BOOLEAN : SpawnCall(p, q, o, isNode, r, a, excluded)
  <2>1. PICK api \in {"node call", "other call"}, e \in Env : Started(p, q, api, r, e, a, excluded)
    BY <1>2, SpawnStarts
  <2> QED BY <2>1
<1>3. CASE ExecCall(p, q, o, a, excluded)
  BY <1>3, ExecStarts
<1> QED BY <1>1, <1>2, <1>3

(* A call leaves the tables of the hooks alone, and a map that was once put
   into the kept options object stays there. *)
LEMMA CallKeeps ==
    ASSUME TypeOK, NEW p \in Procs, NEW q \in Procs, Call(p, q)
    PROVE  /\ Hooked(p) /\ state[q] = "none"
           /\ UNCHANGED <<config, hooks, rotated, resolved>>
           /\ kept' \in [Procs -> Env \cup {NoEnv}]
           /\ \A x \in Procs : kept[x] # NoEnv /\ kept[x].map => kept'[x] # NoEnv /\ kept'[x].map
<1>1. kept \in [Procs -> Env \cup {NoEnv}] /\ kept[p] \in Env \cup {NoEnv}
  BY DEF TypeOK
<1>2. CASE kept' = kept
  BY <1>1, <1>2 DEF Call
<1>3. ASSUME NEW isNode \in BOOLEAN, kept' = [kept EXCEPT ![p] = Injected(p, kept[p], isNode)]
      PROVE  /\ kept' \in [Procs -> Env \cup {NoEnv}]
             /\ \A x \in Procs :
                   kept[x] # NoEnv /\ kept[x].map => kept'[x] # NoEnv /\ kept'[x].map
  <2>1. /\ Injected(p, kept[p], isNode) \in Env \cup {NoEnv}
        /\ \/ Injected(p, kept[p], isNode) = kept[p]
           \/ Injected(p, kept[p], isNode) # NoEnv /\ Injected(p, kept[p], isNode).map
    BY <1>1, InjectedIs
  <2> QED BY <1>1, <1>3, <2>1
<1>4. \/ kept' = kept
      \/ \E isNode \in BOOLEAN : kept' = [kept EXCEPT ![p] = Injected(p, kept[p], isNode)]
  BY DEF Call
<1>5. Hooked(p) /\ state[q] = "none" /\ UNCHANGED <<config, hooks, rotated, resolved>>
  BY DEF Call
<1> QED BY <1>2, <1>3, <1>4, <1>5

(* A change of one field leaves the others of an environment as they are. *)
LEMMA EnvChange ==
    ASSUME NEW e \in Env, NEW ns \in SUBSET Names
    PROVE  /\ [e EXCEPT !.names = ns] \in Env /\ [e EXCEPT !.map = FALSE] \in Env
           /\ [e EXCEPT !.names = ns].names = ns /\ [e EXCEPT !.names = ns].map = e.map
           /\ [e EXCEPT !.names = ns].hooks = e.hooks
           /\ [e EXCEPT !.map = FALSE].names = e.names /\ [e EXCEPT !.map = FALSE].hooks = e.hooks
           /\ ~[e EXCEPT !.map = FALSE].map
BY DEF Env

(* What Boot, SetEnv and DeleteEnv do to the environment of one process. *)
LEMMA OwnEnvironment ==
    ASSUME TypeOK, NEW p \in Procs, Boot(p) \/ SetEnv(p) \/ DeleteEnv(p)
    PROVE  /\ env' \in [Procs -> Env]
           /\ \A x \in Procs \ {p} : env'[x] = env[x]
           /\ env'[p].hooks = env[p].hooks /\ env'[p].names \subseteq env[p].names
           /\ Boot(p) => /\ LoadsHooks(p) => ~env'[p].map
                         /\ ~LoadsHooks(p) => env'[p] = env[p]
           /\ ~Boot(p) => env'[p].map = env[p].map
<1>1. env \in [Procs -> Env] /\ env[p] \in Env
  BY DEF TypeOK
<1>2. CASE Boot(p)
  <2>1. CASE ~(LoadsHooks(p) /\ env[p].map)
    <3>1. env' = env
      BY <1>2, <2>1 DEF Boot
    <3> QED BY <1>1, <1>2, <2>1, <3>1
  <2>2. CASE LoadsHooks(p) /\ env[p].map
    <3> DEFINE e == [env[p] EXCEPT !.map = FALSE]
    <3>1. e \in Env /\ ~e.map /\ e.names = env[p].names /\ e.hooks = env[p].hooks
      BY <1>1, EnvChange
    <3>2. env' = [env EXCEPT ![p] = e]
      BY <1>2, <2>2 DEF Boot
    <3> HIDE DEF e
    <3> QED BY <1>1, <1>2, <2>2, <3>1, <3>2
  <2> QED BY <2>1, <2>2
<1>3. CASE SetEnv(p) \/ DeleteEnv(p)
  <2>1. PICK n : env' = [env EXCEPT ![p] = [env[p] EXCEPT !.names = env[p].names \ {n}]]
    BY <1>3 DEF SetEnv, DeleteEnv
  <2>2. PICK ns \in SUBSET Names : ns = env[p].names \ {n} /\ ns \subseteq env[p].names
    BY <1>1 DEF Env
  <2> DEFINE e == [env[p] EXCEPT !.names = ns]
  <2>3. /\ e \in Env /\ e.map = env[p].map /\ e.hooks = env[p].hooks
        /\ e.names \subseteq env[p].names
    BY <1>1, <2>2, EnvChange
  <2>4. env' = [env EXCEPT ![p] = e] /\ ~Boot(p)
    BY <1>3, <2>1, <2>2 DEF SetEnv, DeleteEnv, Boot, Hooked
  <2> HIDE DEF e
  <2> QED BY <1>1, <2>3, <2>4
<1> QED BY <1>2, <1>3

-------------------------------------------------------------------------------
(* Types. *)

(* The initial states are well typed. *)
LEMMA TypeInit == Init => TypeOK
BY HooksAssumption DEF Init, TypeOK, Env

(* A process is started with an environment. *)
LEMMA TypeStart ==
    ASSUME TypeOK, NEW p \in Procs, NEW q \in Procs,
           NEW api \in {"node call", "other call", "raw"}, NEW r \in {"node", "other"},
           NEW e \in Env, NEW a \in SUBSET Names, Start(p, q, api, r, e, a),
           UNCHANGED <<config, hooks, rotated, resolved>>,
           kept' \in [Procs -> Env \cup {NoEnv}], reported' \in [Channel -> SUBSET Names]
    PROVE  TypeOK'
BY DEF TypeOK, Start, config, hooks

(* A report adds names of secrets. *)
LEMMA TypeReport ==
    ASSUME TypeOK, NEW p \in Procs, NEW c \in Channel, NEW leaks \in SUBSET Names, NEW excluded,
           LetsThrough(p, c, leaks, excluded) \/ Throws(p, c, leaks, excluded)
    PROVE  /\ reported' \in [Channel -> SUBSET Names]
           /\ \A d \in Channel : reported[d] \subseteq reported'[d]
<1>1. reported \in [Channel -> SUBSET Names]
  BY DEF TypeOK
<1>2. CASE LetsThrough(p, c, leaks, excluded)
  BY <1>1, <1>2 DEF LetsThrough
<1>3. CASE Throws(p, c, leaks, excluded)
  BY <1>1, <1>3 DEF Throws
<1> QED BY <1>2, <1>3

(* Leaks are names of secrets that the process knows. *)
LEMMA LeaksType ==
    ASSUME TypeOK, NEW p \in Procs, NEW e \in Env, NEW a \in SUBSET Names, NEW min
    PROVE  EnvLeaks(p, e) \cup TextLeaks(p, a, min) \in SUBSET Names
BY DEF TypeOK, EnvLeaks, TextLeaks

(* Every step keeps the type invariant. *)
LEMMA TypeStep == ASSUME TypeOK, [Next]_vars PROVE TypeOK'
<1>1. ASSUME NEW p \in Procs, Boot(p) PROVE TypeOK'
  <2>1. env' \in [Procs -> Env]
    BY <1>1, OwnEnvironment
  <2> QED BY <1>1, <2>1 DEF TypeOK, Boot, config, birth, app
<1>2. ASSUME NEW p \in Procs, NEW q \in Procs, Call(p, q) PROVE TypeOK'
  <2>1. PICK api \in {"node call", "other call"}, r \in {"node", "other"}, e \in Env,
             a \in SUBSET Names, excluded \in {FALSE, excludes} :
             Started(p, q, api, r, e, a, excluded)
    BY <1>2, CallStarts
  <2>2. reported' \in [Channel -> SUBSET Names]
    BY <2>1, LeaksType, TypeReport DEF Channel, Started
  <2>3. Start(p, q, api, r, e, a)
    BY <2>1 DEF Started
  <2>4. UNCHANGED <<config, hooks, rotated, resolved>> /\ kept' \in [Procs -> Env \cup {NoEnv}]
    BY <1>2, CallKeeps
  <2> QED BY <2>2, <2>3, <2>4, TypeStart
<1>3. ASSUME NEW p \in Procs, CallThrows(p) PROVE TypeOK'
  <2>1. PICK a \in SUBSET Names, o \in Given(p), excluded \in {FALSE, excludes} :
             Throws(p, "child_process", CallLeaks(p, o, a), excluded)
    BY <1>3 DEF CallThrows
  <2>2. OwnEnv(p, o) \in Env
    BY GivenType, InjectedIs
  <2>3. reported' \in [Channel -> SUBSET Names]
    BY <2>1, <2>2, LeaksType, TypeReport DEF Channel, CallLeaks
  <2> QED BY <1>3, <2>3 DEF TypeOK, CallThrows, config, birth, hooks, app
<1>4. ASSUME NEW p \in Procs, NEW q \in Procs, RawStart(p, q) PROVE TypeOK'
  <2>1. PICK r \in {"node", "other"}, e \in {env[p]} \cup Made : Start(p, q, "raw", r, e, {})
    BY <1>4 DEF RawStart
  <2>2. e \in Env
    BY DEF TypeOK, Made, Env
  <2>3. /\ UNCHANGED <<config, hooks, rotated, resolved>>
        /\ kept' \in [Procs -> Env \cup {NoEnv}] /\ reported' \in [Channel -> SUBSET Names]
    BY <1>4 DEF RawStart, TypeOK, app
  <2>4. {} \in SUBSET Names
    OBVIOUS
  <2> QED BY <2>1, <2>2, <2>3, <2>4, TypeStart
<1>5. ASSUME NEW p \in Procs, Lookup(p) PROVE TypeOK'
  <2>1. PICK host \in SUBSET Names, excluded \in {FALSE, excludes} :
             /\ \/ LetsThrough(p, "dns", TextLeaks(p, host, DnsMin), excluded)
                \/ Throws(p, "dns", TextLeaks(p, host, DnsMin), excluded)
             /\ resolved' = resolved \/ resolved' = [resolved EXCEPT ![p] = @ \cup host]
    BY <1>5 DEF Lookup
  <2>2. TextLeaks(p, host, DnsMin) \in SUBSET Names
    BY DEF TypeOK, TextLeaks
  <2>3. reported' \in [Channel -> SUBSET Names]
    BY <2>1, <2>2, TypeReport DEF Channel
  <2>4. resolved' \in [Procs -> SUBSET Names]
    <3>1. resolved \in [Procs -> SUBSET Names] /\ resolved[p] \cup host \in SUBSET Names
      BY DEF TypeOK
    <3> QED BY <2>1, <3>1
  <2>5. UNCHANGED <<config, birth, state, env, hooks, kept, rotated>>
    BY <1>5 DEF Lookup
  <2> QED BY <2>3, <2>4, <2>5 DEF TypeOK, config, birth, hooks
<1>6. ASSUME NEW p \in Procs, SetEnv(p) \/ DeleteEnv(p) PROVE TypeOK'
  <2>1. env' \in [Procs -> Env]
    BY <1>6, OwnEnvironment
  <2>2. rotated' \in [Procs -> SUBSET Names]
    <3>1. rotated \in [Procs -> SUBSET Names]
      BY DEF TypeOK
    <3>2. rotated' = rotated \/ \E n \in Names : rotated' = [rotated EXCEPT ![p] = @ \cup {n}]
      BY <1>6 DEF SetEnv, DeleteEnv, app
    <3> QED BY <3>1, <3>2
  <2>3. UNCHANGED <<config, birth, state, known, serialized, learned, kept, resolved, reported>>
    BY <1>6 DEF SetEnv, DeleteEnv, IsFrozen, app
  <2> QED BY <2>1, <2>2, <2>3 DEF TypeOK, config, birth
<1>7. CASE UNCHANGED vars
  BY <1>7 DEF TypeOK, vars, config, birth, hooks, app
<1> QED BY <1>1, <1>2, <1>3, <1>4, <1>5, <1>6, <1>7 DEF Next

(* Every variable keeps its type. *)
THEOREM TypeCorrect == Spec => []TypeOK
<1> QED BY TypeInit, TypeStep, PTL DEF Spec

-------------------------------------------------------------------------------
(* The inductive invariant. *)

(* The initial states satisfy it: Root is about to boot, with the map. *)
LEMMA IInvInit == Init => IInv
<1> SUFFICES ASSUME Init PROVE IInv
  OBVIOUS
<1>1. TypeOK
  BY TypeInit
<1>2. ParentsRun /\ NothingBeforeBoot /\ StartedWithMap
  BY HooksAssumption DEF Init, ParentsRun, NothingBeforeBoot, StartedWithMap
<1>3. ChildrenHoldNoSecret /\ LookupsHoldNoSecret
  BY DEF Init, ChildrenHoldNoSecret, LookupsHoldNoSecret, TextLeaks
<1>4. GrandchildrenArmed /\ MapOnlyWherePut
  BY DEF Init, GrandchildrenArmed, MapOnlyWherePut, Hooked
<1> QED BY <1>1, <1>2, <1>3, <1>4 DEF IInv

(* A step that starts and boots nothing keeps the invariant, if it adds no
   secret to an environment and reports the secrets that it looks up. *)
LEMMA IInvQuiet ==
    ASSUME IInv, TypeOK', UNCHANGED <<config, birth, state, known, serialized, kept>>,
           \A x \in Procs : /\ env'[x].hooks = env[x].hooks /\ env'[x].map = env[x].map
                            /\ env'[x].names \subseteq env[x].names,
           \A c \in Channel : reported[c] \subseteq reported'[c],
           \A x \in Procs : resolved'[x] # resolved[x] =>
               /\ state[x] = "running"
               /\ ModeOf(x, "dns") # "off" =>
                    /\ TextLeaks(x, resolved'[x], DnsMin) \subseteq reported'["dns"]
                    /\ ModeOf(x, "dns") = "block" => TextLeaks(x, resolved'[x], DnsMin) = {}
    PROVE  IInv'
<1>1. ParentsRun' /\ NothingBeforeBoot'
  BY DEF IInv, ParentsRun, NothingBeforeBoot, birth
<1>2. \A x \in Procs : Hooked(x)' = Hooked(x)
  BY DEF Hooked, LoadsHooks, birth
<1>3. StartedWithMap'
  BY DEF IInv, StartedWithMap, birth
<1>4. GrandchildrenArmed' /\ MapOnlyWherePut'
  BY <1>2 DEF IInv, GrandchildrenArmed, MapOnlyWherePut, LoadsHooks, TypeOK, birth
<1>5. ChildrenHoldNoSecret'
  <2> SUFFICES ASSUME NEW q \in Procs, how[q] \in {"node call", "other call"}, ~excludes,
                      ModeOf(parent[q], "child_process")' # "off"
               PROVE  LET p   == parent[q]
                          has == EnvLeaks(p, env[q])' \cup TextLeaks(p, args[q], ArgsMin)'
                      IN  /\ has \subseteq reported'["child_process"]
                          /\ ModeOf(p, "child_process")' = "block" => has = {}
    BY DEF ChildrenHoldNoSecret, birth, config
  <2> DEFINE p == parent[q]
             has == EnvLeaks(p, env[q]) \cup TextLeaks(p, args[q], ArgsMin)
  <2>1. p \in Procs /\ p' = p
    BY DEF IInv, TypeOK, birth
  <2>2. /\ ModeOf(p, "child_process")' = ModeOf(p, "child_process")
        /\ EnvLeaks(p, env[q])' \subseteq EnvLeaks(p, env[q])
        /\ TextLeaks(p, args[q], ArgsMin)' = TextLeaks(p, args[q], ArgsMin)
    BY <2>1 DEF ModeOf, EnvLeaks, TextLeaks, config, birth
  <2>3. /\ has \subseteq reported["child_process"]
        /\ ModeOf(p, "child_process") = "block" => has = {}
    BY <2>2 DEF IInv, ChildrenHoldNoSecret
  <2>4. reported["child_process"] \subseteq reported'["child_process"]
    BY DEF Channel
  <2> QED BY <2>2, <2>3, <2>4
<1>6. LookupsHoldNoSecret'
  <2> SUFFICES ASSUME NEW p \in Procs, ModeOf(p, "dns")' # "off"
               PROVE  LET has == TextLeaks(p, resolved[p], DnsMin)'
                      IN  /\ has \subseteq reported'["dns"]
                          /\ ModeOf(p, "dns")' = "block" => has = {}
    BY DEF LookupsHoldNoSecret
  <2>1. /\ ModeOf(p, "dns")' = ModeOf(p, "dns")
        /\ TextLeaks(p, resolved[p], DnsMin)' = TextLeaks(p, resolved'[p], DnsMin)
    BY DEF ModeOf, TextLeaks, config
  <2>2. reported["dns"] \subseteq reported'["dns"]
    BY DEF Channel
  <2>3. CASE resolved'[p] = resolved[p]
    BY <2>1, <2>2, <2>3 DEF IInv, LookupsHoldNoSecret
  <2>4. CASE resolved'[p] # resolved[p]
    BY <2>1, <2>4
  <2> QED BY <2>3, <2>4
<1> QED BY <1>1, <1>3, <1>4, <1>5, <1>6 DEF IInv

(* A raw start is one without hooks; any other has an environment with the map
   where a node command of an armed process puts it, or a reused options object,
   and the secrets that it hands down are seen to. *)
WellStarted(p, api, e, a) ==
    /\ api = "raw" => ~LoadsHooks(p)
    /\ api # "raw" /\ e.map => \/ api = "node call" /\ serialized[p]
                               \/ kept[p] # NoEnv /\ kept[p].map
    /\ api = "node call" /\ serialized[p] => e.map
    /\ api # "raw" /\ ~excludes /\ ModeOf(p, "child_process") # "off" =>
           LET has == EnvLeaks(p, e) \cup TextLeaks(p, a, ArgsMin)
           IN  /\ has \subseteq reported'["child_process"]
               /\ ModeOf(p, "child_process") = "block" => has = {}

(* A running process starts another: nobody was a child of that one, so only
   what it is started with counts. *)
LEMMA IInvStart ==
    ASSUME IInv, TypeOK', NEW p \in Procs, NEW q \in Procs,
           state[p] = "running", state[q] = "none",
           NEW api \in {"node call", "other call", "raw"}, NEW r \in {"node", "other"},
           NEW e \in Env, NEW a \in SUBSET Names, Start(p, q, api, r, e, a),
           UNCHANGED <<config, hooks, rotated, resolved>>,
           \A x \in Procs : kept[x] # NoEnv /\ kept[x].map => kept'[x] # NoEnv /\ kept'[x].map,
           \A c \in Channel : reported[c] \subseteq reported'[c],
           WellStarted(p, api, e, a)
    PROVE  IInv'
<1> USE DEF WellStarted
<1>1. q # p /\ q # Root
  BY DEF IInv, ParentsRun
<1>2. /\ \A x \in Procs \ {q} : /\ state'[x] = state[x] /\ runtime'[x] = runtime[x]
                                /\ parent'[x] = parent[x] /\ how'[x] = how[x]
                                /\ args'[x] = args[x] /\ env'[x] = env[x]
      /\ state'[q] = "starting" /\ runtime'[q] = r /\ parent'[q] = p
      /\ how'[q] = api /\ args'[q] = a /\ env'[q] = e
  <2>1. /\ state \in [Procs -> {"none", "starting", "running"}]
        /\ runtime \in [Procs -> {"node", "other"}] /\ parent \in [Procs -> Procs]
        /\ how \in [Procs -> {"envtrap", "node call", "other call", "raw"}]
        /\ args \in [Procs -> SUBSET Names] /\ env \in [Procs -> Env]
    BY DEF IInv, TypeOK
  <2> QED BY <2>1 DEF Start
<1>3. /\ \A x \in Procs : how[x] # "envtrap" => x # q /\ parent[x] # q
      /\ \A x \in Procs : parent[x] \in Procs
      /\ \A x \in Procs : state[x] # "none" /\ x # Root => how[x] # "envtrap"
  <2>1. \A x \in Procs : parent[x] \in Procs
    BY DEF IInv, TypeOK
  <2>2. \A x \in Procs : /\ how[x] # "envtrap" => state[x] # "none" /\ state[parent[x]] = "running"
                         /\ state[x] # "none" /\ x # Root => how[x] # "envtrap"
    BY HooksAssumption DEF IInv, ParentsRun
  <2> QED BY <2>1, <2>2
<1>4. /\ known' = known /\ serialized' = serialized /\ resolved' = resolved
      /\ modes' = modes /\ length' = length /\ excludes' = excludes
  BY DEF config, hooks
<1>5. \A x \in Procs \ {q} : /\ LoadsHooks(x)' = LoadsHooks(x) /\ Hooked(x)' = Hooked(x)
                             /\ \A c : ModeOf(x, c)' = ModeOf(x, c)
  BY <1>2, <1>4 DEF LoadsHooks, Hooked, ModeOf
<1>6. ~Hooked(q)'
  BY <1>2 DEF Hooked
<1>7. ParentsRun'
  <2>1. state'[Root] # "none"
    BY <1>1, <1>2, HooksAssumption DEF IInv, ParentsRun
  <2>2. ASSUME NEW x \in Procs
        PROVE  /\ how'[x] = "envtrap" <=> x = Root \/ state'[x] = "none"
               /\ how'[x] # "envtrap" => state'[parent'[x]] = "running"
    <3>1. CASE x = q
      BY <1>1, <1>2, <3>1
    <3>2. CASE x # q
      <4>1. /\ how[x] = "envtrap" <=> x = Root \/ state[x] = "none"
            /\ how[x] # "envtrap" => state[parent[x]] = "running"
        BY DEF IInv, ParentsRun
      <4>2. how'[x] = how[x] /\ state'[x] = state[x] /\ parent'[x] = parent[x]
        BY <1>2, <3>2
      <4>3. how[x] # "envtrap" => parent[x] \in Procs \ {q}
        BY <1>3
      <4>4. how[x] # "envtrap" => state'[parent[x]] = state[parent[x]]
        BY <1>2, <4>3
      <4> QED BY <4>1, <4>2, <4>4
    <3> QED BY <3>1, <3>2
  <2> QED BY <2>1, <2>2 DEF ParentsRun
<1>8. NothingBeforeBoot'
  BY <1>2, <1>4 DEF IInv, NothingBeforeBoot
<1>9. StartedWithMap'
  <2> SUFFICES ASSUME NEW x \in Procs, state'[x] = "starting",
                      x = Root \/ (how'[x] = "node call" /\ serialized[parent'[x]])
               PROVE  env'[x].map
    BY <1>4 DEF StartedWithMap
  <2>1. CASE x = q
    BY <1>1, <1>2, <2>1
  <2>2. CASE x # q
    BY <1>2, <2>2 DEF IInv, StartedWithMap
  <2> QED BY <2>1, <2>2
<1>10. \A x \in Procs : Hooked(x)' => ~env'[x].map
  BY <1>2, <1>5, <1>6 DEF IInv, MapOnlyWherePut
<1>11. GrandchildrenArmed'
  <2> SUFFICES ASSUME NEW x \in Procs, Hooked(x)',
                      x = Root \/ (how'[x] = "node call" /\ serialized[parent'[x]])
               PROVE  known[x] = Names /\ serialized[x]
    BY <1>4 DEF GrandchildrenArmed
  <2>1. x # q
    BY <1>6
  <2> QED BY <1>2, <1>5, <2>1 DEF IInv, GrandchildrenArmed
<1>12. MapOnlyWherePut'
  <2> SUFFICES ASSUME NEW x \in Procs \ {Root}, state'[x] # "none", env'[x].map
               PROVE  \/ how'[x] = "node call" /\ serialized[parent'[x]]
                      \/ kept'[parent'[x]] # NoEnv /\ kept'[parent'[x]].map
                      \/ ~LoadsHooks(parent[x])'
    BY <1>4, <1>10 DEF MapOnlyWherePut
  <2>1. PICK y : y = parent'[x]
    OBVIOUS
  <2>2. LoadsHooks(parent[x])' = LoadsHooks(y)'
    BY <2>1 DEF LoadsHooks
  <2>3. CASE x = q
    BY <1>1, <1>2, <1>5, <1>6, <2>1, <2>2, <2>3
  <2>4. CASE x # q
    <3>1. y = parent[x] /\ (state[x] # "none" => y \in Procs \ {q})
      BY <1>2, <1>3, <2>1, <2>4
    <3>2. how'[x] = how[x] /\ state[x] # "none" /\ env[x].map
      BY <1>2, <2>4
    <3>3. \/ how[x] = "node call" /\ serialized[y]
          \/ kept[y] # NoEnv /\ kept[y].map
          \/ ~LoadsHooks(y)
      BY <3>1, <3>2 DEF IInv, MapOnlyWherePut
    <3>4. y \in Procs \ {q} /\ (LoadsHooks(y)' <=> LoadsHooks(y))
      BY <1>5, <3>1, <3>2
    <3> QED BY <2>1, <2>2, <3>2, <3>3, <3>4
  <2> QED BY <2>3, <2>4
<1>13. ChildrenHoldNoSecret'
  <2> SUFFICES ASSUME NEW x \in Procs, how'[x] \in {"node call", "other call"}, ~excludes,
                      ModeOf(parent[x], "child_process")' # "off"
               PROVE  LET has == EnvLeaks(parent[x], env[x])'
                                 \cup TextLeaks(parent[x], args[x], ArgsMin)'
                      IN  /\ has \subseteq reported'["child_process"]
                          /\ ModeOf(parent[x], "child_process")' = "block" => has = {}
    BY <1>4 DEF ChildrenHoldNoSecret
  <2>1. PICK y, f, t : y = parent'[x] /\ f = env'[x] /\ t = args'[x]
    OBVIOUS
  <2>2. /\ EnvLeaks(parent[x], env[x])' = EnvLeaks(y, f)
        /\ TextLeaks(parent[x], args[x], ArgsMin)' = TextLeaks(y, t, ArgsMin)
    BY <1>4, <2>1 DEF EnvLeaks, TextLeaks
  <2>3. ModeOf(parent[x], "child_process")' = ModeOf(y, "child_process")'
    BY <2>1 DEF ModeOf
  <2>4. y \in Procs \ {q} /\ ModeOf(y, "child_process")' = ModeOf(y, "child_process")
    <3>1. CASE x = q
      <4>1. y = p
        BY <1>2, <2>1, <3>1
      <4>2. p \in Procs \ {q}
        BY <1>1
      <4> QED BY <1>5, <4>1, <4>2
    <3>2. CASE x # q
      <4>1. y = parent[x] /\ how[x] # "envtrap"
        BY <1>2, <2>1, <3>2
      <4>2. y \in Procs \ {q}
        BY <1>3, <4>1
      <4> QED BY <1>5, <4>2
    <3> QED BY <3>1, <3>2
  <2>5. CASE x = q
    BY <1>2, <2>1, <2>2, <2>3, <2>4, <2>5
  <2>6. CASE x # q
    <3>1. how[x] = how'[x] /\ y = parent[x] /\ f = env[x] /\ t = args[x]
      BY <1>2, <2>1, <2>6
    <3>2. reported["child_process"] \subseteq reported'["child_process"]
      BY DEF Channel
    <3>3. LET has == EnvLeaks(y, f) \cup TextLeaks(y, t, ArgsMin)
          IN  /\ has \subseteq reported["child_process"]
              /\ ModeOf(y, "child_process") = "block" => has = {}
      BY <2>3, <2>4, <3>1 DEF IInv, ChildrenHoldNoSecret
    <3> QED BY <2>2, <2>3, <2>4, <3>2, <3>3
  <2> QED BY <2>5, <2>6
<1>14. LookupsHoldNoSecret'
  <2> SUFFICES ASSUME NEW x \in Procs, ModeOf(x, "dns")' # "off"
               PROVE  LET has == TextLeaks(x, resolved[x], DnsMin)'
                      IN  /\ has \subseteq reported'["dns"]
                          /\ ModeOf(x, "dns")' = "block" => has = {}
    BY DEF LookupsHoldNoSecret
  <2>1. /\ TextLeaks(x, resolved[x], DnsMin)' = TextLeaks(x, resolved[x], DnsMin)
        /\ reported["dns"] \subseteq reported'["dns"]
    BY <1>4 DEF TextLeaks, Channel
  <2>2. CASE x = q
    BY <2>1, <2>2 DEF IInv, NothingBeforeBoot, TextLeaks
  <2>3. CASE x # q
    BY <1>5, <2>1, <2>3 DEF IInv, LookupsHoldNoSecret
  <2> QED BY <2>2, <2>3
<1> QED BY <1>7, <1>8, <1>9, <1>10, <1>11, <1>12, <1>13, <1>14 DEF IInv

(* Boot gives a process its tables and takes the map out of its environment;
   it has no children yet and has looked nothing up. *)
LEMMA IInvBoot == ASSUME IInv, TypeOK', NEW p \in Procs, Boot(p) PROVE IInv'
<1>1. /\ UNCHANGED <<config, birth, app, reported>> /\ state[p] = "starting"
      /\ \A x \in Procs \ {p} : /\ state'[x] = state[x] /\ known'[x] = known[x]
                                /\ serialized'[x] = serialized[x] /\ env'[x] = env[x]
      /\ state'[p] = "running"
  <2>1. /\ state \in [Procs -> {"none", "starting", "running"}] /\ known \in [Procs -> SUBSET Names]
        /\ serialized \in [Procs -> BOOLEAN] /\ env \in [Procs -> Env]
    BY DEF IInv, TypeOK
  <2> QED BY <2>1 DEF Boot
<1>2. /\ env'[p].hooks = env[p].hooks /\ env'[p].names \subseteq env[p].names
      /\ LoadsHooks(p) => ~env'[p].map
      /\ ~LoadsHooks(p) => env'[p] = env[p]
  BY OwnEnvironment DEF IInv
<1>3. LoadsHooks(p) /\ env[p].map => known'[p] = Names /\ serialized'[p]
  <2>1. known \in [Procs -> SUBSET Names] /\ serialized \in [Procs -> BOOLEAN]
    BY DEF IInv, TypeOK
  <2> QED BY <2>1 DEF Boot
<1>4. /\ runtime' = runtime /\ parent' = parent /\ how' = how /\ args' = args
      /\ kept' = kept /\ resolved' = resolved
      /\ modes' = modes /\ length' = length /\ excludes' = excludes /\ reported' = reported
  BY <1>1 DEF birth, app, config
<1>5. /\ \A x \in Procs : how[x] # "envtrap" => parent[x] # p
      /\ \A x \in Procs : parent[x] \in Procs
      /\ \A x \in Procs : state[x] # "none" /\ x # Root => how[x] # "envtrap"
  <2>1. \A x \in Procs : parent[x] \in Procs
    BY DEF IInv, TypeOK
  <2>2. \A x \in Procs : /\ how[x] # "envtrap" => state[parent[x]] = "running"
                         /\ state[x] # "none" /\ x # Root => how[x] # "envtrap"
    BY DEF IInv, ParentsRun
  <2> QED BY <1>1, <2>1, <2>2
<1>6. \A x \in Procs : /\ LoadsHooks(x)' = LoadsHooks(x)
                       /\ \A c : ModeOf(x, c)' = ModeOf(x, c)
                       /\ x # p => Hooked(x)' = Hooked(x)
  <2>1. \A x \in Procs : env'[x].hooks = env[x].hooks
    BY <1>1, <1>2
  <2> QED BY <1>1, <1>4, <2>1 DEF LoadsHooks, ModeOf, Hooked
<1>7. ParentsRun'
  <2>1. state'[Root] # "none"
    BY <1>1, HooksAssumption DEF IInv, ParentsRun
  <2>2. ASSUME NEW x \in Procs
        PROVE  /\ how[x] = "envtrap" <=> x = Root \/ state'[x] = "none"
               /\ how[x] # "envtrap" => state'[parent[x]] = "running"
    <3>1. /\ how[x] = "envtrap" <=> x = Root \/ state[x] = "none"
          /\ how[x] # "envtrap" => state[parent[x]] = "running"
      BY DEF IInv, ParentsRun
    <3>2. state'[x] = "none" <=> state[x] = "none"
      BY <1>1
    <3> QED BY <1>1, <1>5, <3>1, <3>2
  <2> QED BY <1>4, <2>1, <2>2 DEF ParentsRun
<1>8. NothingBeforeBoot'
  BY <1>1, <1>4 DEF IInv, NothingBeforeBoot
<1>9. StartedWithMap'
  <2> SUFFICES ASSUME NEW x \in Procs, state'[x] = "starting",
                      x = Root \/ (how[x] = "node call" /\ serialized'[parent[x]])
               PROVE  env'[x].map
    BY <1>4 DEF StartedWithMap
  <2>1. x # p /\ state[x] = "starting" /\ env'[x] = env[x]
    BY <1>1
  <2>2. x = Root \/ (how[x] = "node call" /\ serialized[parent[x]])
    BY <1>1, <1>5
  <2> QED BY <2>1, <2>2 DEF IInv, StartedWithMap
<1>10. \A x \in Procs : Hooked(x)' => ~env'[x].map
  <2> SUFFICES ASSUME NEW x \in Procs, Hooked(x)' PROVE ~env'[x].map
    OBVIOUS
  <2>1. CASE x = p
    BY <1>2, <1>6, <2>1 DEF Hooked
  <2>2. CASE x # p
    BY <1>1, <1>6, <2>2 DEF IInv, MapOnlyWherePut
  <2> QED BY <2>1, <2>2
<1>11. GrandchildrenArmed'
  <2> SUFFICES ASSUME NEW x \in Procs, Hooked(x)',
                      x = Root \/ (how[x] = "node call" /\ serialized'[parent[x]])
               PROVE  known'[x] = Names /\ serialized'[x]
    BY <1>4 DEF GrandchildrenArmed
  <2>1. CASE x = p
    <3>1. x = Root \/ (how[x] = "node call" /\ serialized[parent[x]])
      BY <1>1, <1>5, <2>1
    <3>2. LoadsHooks(x)
      BY <1>6 DEF Hooked
    <3>3. env[x].map
      BY <1>1, <2>1, <3>1 DEF IInv, StartedWithMap
    <3> QED BY <1>3, <2>1, <3>2, <3>3
  <2>2. CASE x # p
    <3>1. Hooked(x)
      BY <1>6, <2>2
    <3>2. x # Root => how[x] # "envtrap"
      BY <1>5, <3>1 DEF Hooked
    <3>3. serialized[parent[x]] \/ x = Root
      BY <1>1, <1>5, <3>2
    <3> QED BY <1>1, <2>2, <3>1, <3>3 DEF IInv, GrandchildrenArmed
  <2> QED BY <2>1, <2>2
<1>12. MapOnlyWherePut'
  <2> SUFFICES ASSUME NEW x \in Procs \ {Root}, state'[x] # "none", env'[x].map
               PROVE  \/ how[x] = "node call" /\ serialized'[parent[x]]
                      \/ kept[parent[x]] # NoEnv /\ kept[parent[x]].map
                      \/ ~LoadsHooks(parent[x])'
    BY <1>4, <1>10 DEF MapOnlyWherePut
  <2>1. PICK y \in Procs : y = parent[x] /\ y = parent'[x]
    BY <1>4, <1>5
  <2>2. LoadsHooks(parent[x])' = LoadsHooks(y)'
    BY <2>1 DEF LoadsHooks
  <2>3. state[x] # "none" /\ env[x].map
    BY <1>1, <1>2
  <2>4. \/ how[x] = "node call" /\ serialized[y]
        \/ kept[y] # NoEnv /\ kept[y].map
        \/ ~LoadsHooks(y)
    BY <2>1, <2>3 DEF IInv, MapOnlyWherePut
  <2>5. y # p
    BY <1>5, <2>1, <2>3
  <2> QED BY <1>1, <1>6, <2>1, <2>2, <2>4, <2>5
<1>13. ChildrenHoldNoSecret'
  <2> SUFFICES ASSUME NEW x \in Procs, how[x] \in {"node call", "other call"}, ~excludes,
                      ModeOf(parent[x], "child_process")' # "off"
               PROVE  LET has == EnvLeaks(parent[x], env[x])'
                                 \cup TextLeaks(parent[x], args[x], ArgsMin)'
                      IN  /\ has \subseteq reported["child_process"]
                          /\ ModeOf(parent[x], "child_process")' = "block" => has = {}
    BY <1>4 DEF ChildrenHoldNoSecret
  <2>1. PICK y \in Procs : y = parent[x] /\ y = parent'[x] /\ y # p
    BY <1>4, <1>5
  <2>2. ModeOf(parent[x], "child_process")' = ModeOf(y, "child_process")
    <3>1. ModeOf(parent[x], "child_process")' = ModeOf(y, "child_process")'
      BY <2>1 DEF ModeOf
    <3> QED BY <1>6, <3>1
  <2>3. /\ EnvLeaks(parent[x], env[x])' \subseteq EnvLeaks(y, env[x])
        /\ TextLeaks(parent[x], args[x], ArgsMin)' = TextLeaks(y, args[x], ArgsMin)
    <3>1. known'[y] = known[y] /\ env'[x].names \subseteq env[x].names
      BY <1>1, <1>2, <2>1
    <3> QED BY <1>4, <2>1, <3>1 DEF EnvLeaks, TextLeaks
  <2>4. LET has == EnvLeaks(y, env[x]) \cup TextLeaks(y, args[x], ArgsMin)
        IN  /\ has \subseteq reported["child_process"]
            /\ ModeOf(y, "child_process") = "block" => has = {}
    BY <2>1, <2>2 DEF IInv, ChildrenHoldNoSecret
  <2> QED BY <2>2, <2>3, <2>4
<1>14. LookupsHoldNoSecret'
  <2> SUFFICES ASSUME NEW x \in Procs, ModeOf(x, "dns")' # "off"
               PROVE  LET has == TextLeaks(x, resolved[x], DnsMin)'
                      IN  /\ has \subseteq reported["dns"]
                          /\ ModeOf(x, "dns")' = "block" => has = {}
    BY <1>4 DEF LookupsHoldNoSecret
  <2>1. CASE x = p
    <3>1. resolved'[p] = {}
      BY <1>1, <1>4 DEF IInv, NothingBeforeBoot
    <3>2. TextLeaks(x, resolved[x], DnsMin)' = {}
      BY <2>1, <3>1 DEF TextLeaks
    <3> QED BY <3>2
  <2>2. CASE x # p
    <3>1. TextLeaks(x, resolved[x], DnsMin)' = TextLeaks(x, resolved[x], DnsMin)
      BY <1>1, <1>4, <2>2 DEF TextLeaks
    <3> QED BY <1>6, <3>1 DEF IInv, LookupsHoldNoSecret
  <2> QED BY <2>1, <2>2
<1> QED BY <1>7, <1>8, <1>9, <1>10, <1>11, <1>12, <1>13, <1>14 DEF IInv

(* What a check that let a call through has seen to: the leaks are reported,
   and there are none in block mode. *)
LEMMA LetThroughMeans ==
    ASSUME IInv, NEW p \in Procs, NEW c \in Channel, NEW leaks \in SUBSET Names,
           NEW excluded \in BOOLEAN, LetsThrough(p, c, leaks, excluded)
    PROVE  /\ \A d \in Channel : reported[d] \subseteq reported'[d]
           /\ ModeOf(p, c) # "off" /\ ~excluded =>
                 /\ leaks \subseteq reported'[c]
                 /\ ModeOf(p, c) = "block" => leaks = {}
<1>1. \A d \in Channel : reported[d] \subseteq reported'[d]
  BY TypeReport DEF IInv
<1>2. ASSUME ModeOf(p, c) # "off", ~excluded
      PROVE  leaks \subseteq reported'[c] /\ (ModeOf(p, c) = "block" => leaks = {})
  <2>1. Looks(p, c, excluded) /\ reported \in [Channel -> SUBSET Names]
    BY <1>2 DEF Looks, IInv, TypeOK
  <2> QED BY <2>1 DEF LetsThrough
<1> QED BY <1>1, <1>2

(* A call starts a process with what its check has seen to. *)
LEMMA IInvCall == ASSUME IInv, TypeOK', NEW p \in Procs, NEW q \in Procs, Call(p, q) PROVE IInv'
<1>1. TypeOK
  BY DEF IInv
<1>2. PICK api \in {"node call", "other call"}, r \in {"node", "other"}, e \in Env,
           a \in SUBSET Names, excluded \in {FALSE, excludes} :
           Started(p, q, api, r, e, a, excluded)
  BY <1>1, CallStarts
<1>3. /\ Hooked(p) /\ state[q] = "none"
      /\ UNCHANGED <<config, hooks, rotated, resolved>>
      /\ \A x \in Procs : kept[x] # NoEnv /\ kept[x].map => kept'[x] # NoEnv /\ kept'[x].map
  BY <1>1, CallKeeps
<1> DEFINE has == EnvLeaks(p, e) \cup TextLeaks(p, a, ArgsMin)
<1>4. /\ LetsThrough(p, "child_process", has, excluded) /\ Start(p, q, api, r, e, a)
      /\ api = "node call" /\ serialized[p] => e.map
      /\ e.map => MapFrom(p, api)
  BY <1>2 DEF Started
<1>5. has \in SUBSET Names /\ excluded \in BOOLEAN /\ (~excludes => ~excluded)
  <2>1. has \in SUBSET Names
    BY <1>1, LeaksType
  <2>2. excludes \in BOOLEAN
    BY <1>1 DEF TypeOK
  <2>3. excluded = FALSE \/ excluded = excludes
    OBVIOUS
  <2>4. excluded \in BOOLEAN /\ (~excludes => ~excluded)
    <3>1. CASE excluded = FALSE
      BY <3>1
    <3>2. CASE excluded = excludes
      BY <2>2, <3>2
    <3> QED BY <2>3, <3>1, <3>2
  <2> QED BY <2>1, <2>4
<1>6. /\ \A c \in Channel : reported[c] \subseteq reported'[c]
      /\ ModeOf(p, "child_process") # "off" /\ ~excluded =>
            /\ has \subseteq reported'["child_process"]
            /\ ModeOf(p, "child_process") = "block" => has = {}
  <2> HIDE DEF has
  <2>1. "child_process" \in Channel
    BY DEF Channel
  <2> QED BY <1>4, <1>5, <2>1, LetThroughMeans
<1>7. ~env[p].map /\ state[p] = "running"
  BY <1>3 DEF IInv, MapOnlyWherePut, Hooked
<1>8. api # "raw" /\ e.map => \/ api = "node call" /\ serialized[p]
                              \/ kept[p] # NoEnv /\ kept[p].map
  BY <1>4, <1>7 DEF MapFrom
<1>9. api # "raw" /\ ~excludes /\ ModeOf(p, "child_process") # "off" =>
          /\ has \subseteq reported'["child_process"]
          /\ ModeOf(p, "child_process") = "block" => has = {}
  <2> HIDE DEF has
  <2> QED BY <1>5, <1>6
<1>10. /\ Start(p, q, api, r, e, a) /\ (api = "node call" /\ serialized[p] => e.map)
       /\ api \in {"node call", "other call", "raw"} /\ (api = "raw" => ~LoadsHooks(p))
  BY <1>4
<1>11. WellStarted(p, api, e, a)
  BY <1>8, <1>9, <1>10 DEF WellStarted
<1> QED BY <1>3, <1>6, <1>7, <1>10, <1>11, IInvStart

(* A process without hooks starts what it likes: nothing is claimed of that. *)
LEMMA IInvRawStart ==
    ASSUME IInv, TypeOK', NEW p \in Procs, NEW q \in Procs, RawStart(p, q) PROVE IInv'
<1>1. PICK r \in {"node", "other"}, e \in {env[p]} \cup Made : Start(p, q, "raw", r, e, {})
  BY DEF RawStart
<1>2. e \in Env /\ {} \in SUBSET Names
  BY DEF IInv, TypeOK, Made, Env
<1>3. /\ state[p] = "running" /\ ~LoadsHooks(p) /\ state[q] = "none"
      /\ UNCHANGED <<config, hooks, rotated, resolved>> /\ UNCHANGED <<kept, reported>>
  BY DEF RawStart, app
<1>4. WellStarted(p, "raw", e, {})
  BY <1>3 DEF WellStarted
<1> QED BY <1>1, <1>2, <1>3, <1>4, IInvStart

(* A call that throws only reports. *)
LEMMA IInvCallThrows == ASSUME IInv, TypeOK', NEW p \in Procs, CallThrows(p) PROVE IInv'
<1>1. PICK a \in SUBSET Names, o \in Given(p), excluded \in {FALSE, excludes} :
           Throws(p, "child_process", CallLeaks(p, o, a), excluded)
  BY DEF CallThrows
<1>2. TypeOK /\ OwnEnv(p, o) \in Env
  BY GivenType, InjectedIs DEF IInv
<1>3. \A c \in Channel : reported[c] \subseteq reported'[c]
  BY <1>1, <1>2, LeaksType, TypeReport DEF CallLeaks, Channel
<1>4. UNCHANGED <<config, birth, state, known, serialized, kept>> /\ UNCHANGED <<env, resolved>>
  BY DEF CallThrows, hooks, app
<1> QED BY <1>3, <1>4, IInvQuiet

(* A lookup adds the secrets in the hostname to those looked up only after its
   check let it through, an excluded caller aside. *)
LEMMA IInvLookup == ASSUME IInv, TypeOK', NEW p \in Procs, Lookup(p) PROVE IInv'
<1>1. PICK host \in SUBSET Names, excluded \in {FALSE, excludes} :
           \/ /\ LetsThrough(p, "dns", TextLeaks(p, host, DnsMin), excluded)
              /\ resolved' = IF excluded THEN resolved
                             ELSE [resolved EXCEPT ![p] = @ \cup host]
           \/ /\ Throws(p, "dns", TextLeaks(p, host, DnsMin), excluded)
              /\ UNCHANGED resolved
  BY DEF Lookup
<1>2. UNCHANGED <<config, birth, state, env, hooks, kept, rotated>> /\ state[p] = "running"
  BY DEF Lookup, Hooked
<1>3. TypeOK /\ TextLeaks(p, host, DnsMin) \in SUBSET Names /\ excluded \in BOOLEAN
  BY DEF IInv, TypeOK, TextLeaks
<1>4. "dns" \in Channel
  BY DEF Channel
<1>5. \A c \in Channel : reported[c] \subseteq reported'[c]
  BY <1>1, <1>3, <1>4, TypeReport
<1>6. ASSUME NEW x \in Procs, resolved'[x] # resolved[x], ModeOf(x, "dns") # "off"
      PROVE  /\ TextLeaks(x, resolved'[x], DnsMin) \subseteq reported'["dns"]
             /\ ModeOf(x, "dns") = "block" => TextLeaks(x, resolved'[x], DnsMin) = {}
  <2>1. resolved \in [Procs -> SUBSET Names]
    BY <1>3 DEF TypeOK
  <2>2. /\ LetsThrough(p, "dns", TextLeaks(p, host, DnsMin), excluded) /\ ~excluded
        /\ x = p /\ resolved'[p] = resolved[p] \cup host
    BY <1>1, <1>6, <2>1
  <2>3. TextLeaks(p, resolved'[p], DnsMin)
            = TextLeaks(p, resolved[p], DnsMin) \cup TextLeaks(p, host, DnsMin)
    BY <2>2 DEF TextLeaks
  <2>4. /\ TextLeaks(p, host, DnsMin) \subseteq reported'["dns"]
        /\ ModeOf(p, "dns") = "block" => TextLeaks(p, host, DnsMin) = {}
    BY <1>3, <1>4, <1>6, <2>2, LetThroughMeans
  <2>5. /\ TextLeaks(p, resolved[p], DnsMin) \subseteq reported["dns"]
        /\ ModeOf(p, "dns") = "block" => TextLeaks(p, resolved[p], DnsMin) = {}
    BY <1>6, <2>2 DEF IInv, LookupsHoldNoSecret
  <2> QED BY <1>4, <1>5, <2>2, <2>3, <2>4, <2>5
<1>7. \A x \in Procs : resolved'[x] # resolved[x] => x = p
  <2>1. resolved \in [Procs -> SUBSET Names]
    BY <1>3 DEF TypeOK
  <2> QED BY <1>1, <2>1
<1>8. UNCHANGED <<config, birth, state, known, serialized, kept>> /\ UNCHANGED env
  BY <1>2 DEF hooks
<1> QED BY <1>2, <1>5, <1>6, <1>7, <1>8, IInvQuiet

(* The application's assignments to process.env take loaded values away. *)
LEMMA IInvOwnEnv ==
    ASSUME IInv, TypeOK', NEW p \in Procs, SetEnv(p) \/ DeleteEnv(p) PROVE IInv'
<1>1. UNCHANGED <<config, birth, state, known, serialized, kept>> /\ UNCHANGED <<resolved, reported>>
  BY DEF SetEnv, DeleteEnv, IsFrozen, app
<1>2. state[p] = "running" /\ ~Boot(p)
  BY DEF SetEnv, DeleteEnv, Hooked, Boot
<1>3. \A x \in Procs : /\ env'[x].hooks = env[x].hooks /\ env'[x].map = env[x].map
                       /\ env'[x].names \subseteq env[x].names
  BY <1>2, OwnEnvironment DEF IInv
<1> QED BY <1>1, <1>3, IInvQuiet

(* Every step of the tree of processes keeps the inductive invariant. *)
LEMMA IInvStep == ASSUME IInv, [Next]_vars PROVE IInv'
<1>1. TypeOK'
  BY TypeStep DEF IInv
<1>2. CASE UNCHANGED vars
  <2>1. /\ UNCHANGED <<config, birth, state, known, serialized, kept>>
        /\ UNCHANGED <<env, resolved, reported>>
    BY <1>2 DEF vars, hooks, app
  <2> QED BY <1>1, <2>1, IInvQuiet
<1>3. CASE Next
  BY <1>1, <1>3, IInvBoot, IInvCall, IInvRawStart, IInvCallThrows, IInvLookup, IInvOwnEnv DEF Next
<1> QED BY <1>2, <1>3

(* Every state of every tree of processes satisfies the inductive invariant. *)
THEOREM Invariance == Spec => []IInv
<1> QED BY IInvInit, IInvStep, PTL DEF Spec

-------------------------------------------------------------------------------
(* What follows. *)

(* A process that was started through the hooks holds no secret of its parent
   that was not reported, and none in block mode, however deep in the tree. *)
THEOREM NoSecretHandedDown == Spec => []ChildrenHoldNoSecret
<1>1. IInv => ChildrenHoldNoSecret
  BY DEF IInv
<1> QED BY <1>1, Invariance, PTL

(* The same of the names in lookups. *)
THEOREM NoSecretLookedUp == Spec => []LookupsHoldNoSecret
<1>1. IInv => LookupsHoldNoSecret
  BY DEF IInv
<1> QED BY <1>1, Invariance, PTL

(* The map reaches every process that loads the hooks and was started by a node
   command, down a chain of armed ones, although each of them takes it out of
   its own environment when it boots. *)
THEOREM ArmedDownTheTree == Spec => []GrandchildrenArmed
<1>1. IInv => GrandchildrenArmed
  BY DEF IInv
<1> QED BY <1>1, Invariance, PTL

(* No process.env with hooks holds the map once the process has booted, and no
   process is started with it but by a node command, with an options object
   that had served one, or by a process without hooks. *)
THEOREM MapWherePut == Spec => []MapOnlyWherePut
<1>1. IInv => MapOnlyWherePut
  BY DEF IInv
<1> QED BY <1>1, Invariance, PTL

===============================================================================
