-------------------------------- MODULE Config --------------------------------
(***************************************************************************)
(* envtrap.json: ConfigLoader, ConfigMerger and ConfigValidator            *)
(* (src/config), which read the same JSON value independently of each      *)
(* other.                                                                  *)
(*                                                                         *)
(* A JSON value is a record with one field, named after its type; a path   *)
(* into it is a sequence of keys.  Error messages are left out.            *)
(***************************************************************************)
EXTENDS Integers, Sequences, SequencesExt

CONSTANTS DefaultThreshold, DefaultMinLength   \* 3.5 and 12

Object(f)  == [object |-> f]
Array(s)   == [array |-> s]
String(s)  == [string |-> s]
Number(n)  == [number |-> n]
Boolean(b) == [boolean |-> b]
Null       == [null |-> "null"]
Undefined  == [undefined |-> "undefined"]

(* What readFileSync and JSON.parse may find instead of a value. *)
Missing    == [missing |-> "file"]
Unparsable == [unparsable |-> "file"]

Is(type, v)   == type \in DOMAIN v
Keys(v)       == IF Is("object", v) THEN DOMAIN v.object ELSE {}
Field(v, key) == IF key \in Keys(v) THEN v.object[key] ELSE Undefined

Modes    == {"block", "warn", "off"}
Channels == {"stdout", "stderr", "network", "child_process", "dns"}

DefaultConfig ==
    [channels   |-> [stdout |-> "warn", stderr |-> "warn", network |-> "block",
                     child_process |-> "warn", dns |-> "block"],
     exclusions |-> [domains |-> <<>>, paths |-> <<>>],
     entropy    |-> [threshold |-> DefaultThreshold, minLength |-> DefaultMinLength],
     quiet      |-> FALSE,
     logFile    |-> "null"]

-------------------------------------------------------------------------------
(* ConfigMerger: every setting on its own, over its default. *)

(* Mutation: any string is taken for a mode. *)
ValidModeAny(v, default) == IF Is("string", v) THEN v.string ELSE default

ValidMode(v, default) ==
    IF Is("string", v) /\ v.string \in Modes THEN v.string ELSE default

StringArray(v, default) ==
    IF Is("array", v)
      THEN FoldLeft(LAMBDA strings, x : IF Is("string", x) THEN Append(strings, x.string)
                                                           ELSE strings,
                    <<>>, v.array)
      ELSE default

Typed(type, v, default) == IF Is(type, v) THEN v[type] ELSE default

merge(user) ==
    LET at(section, key) == Field(Field(user, section), key)
        d == DefaultConfig
    IN  [channels   |-> [c \in Channels |-> ValidMode(at("channels", c), d.channels[c])],
         exclusions |-> [k \in {"domains", "paths"} |->
                            StringArray(at("exclusions", k), d.exclusions[k])],
         entropy    |-> [k \in {"threshold", "minLength"} |->
                            Typed("number", at("entropy", k), d.entropy[k])],
         quiet      |-> Typed("boolean", Field(user, "quiet"), d.quiet),
         logFile    |-> Typed("string", Field(user, "logFile"), d.logFile)]

-------------------------------------------------------------------------------
(* ConfigValidator: the paths of the errors. *)

(* Mutation: known channels are not looked at. *)
ChannelErrorsUnknown(raw) == {<<"channels", k>> : k \in Keys(Field(raw, "channels")) \ Channels}

ChannelErrors(raw) ==
    LET channels == Field(raw, "channels")
        valid(k) == LET v == Field(channels, k) IN Is("string", v) /\ v.string \in Modes
    IN  {<<"channels", k>> : k \in {c \in Keys(channels) : c \notin Channels \/ ~valid(c)}}

TypeErrors(raw, section, keys, type) ==
    LET written == Field(raw, section)
    IN  {<<section, k>> : k \in {x \in keys \cap Keys(written) : ~Is(type, Field(written, x))}}

validate(raw) ==
    IF ~Is("object", raw) THEN {<<>>}
    ELSE LET wrong(key, types) == key \in Keys(raw) /\ DOMAIN Field(raw, key) \cap types = {}
             sections == {"channels", "exclusions", "entropy"}
         IN  {<<s>> : s \in {x \in sections : wrong(x, {"object"})}}
             \cup ChannelErrors(raw)
             \cup TypeErrors(raw, "exclusions", {"domains", "paths"}, "array")
             \cup TypeErrors(raw, "entropy", {"threshold", "minLength"}, "number")
             \cup {<<k>> : k \in {x \in {"quiet"} : wrong(x, {"boolean"})}}
             \cup {<<k>> : k \in {x \in {"logFile"} : wrong(x, {"null", "string"})}}

-------------------------------------------------------------------------------
(* ConfigLoader. *)

(* What JSON.parse makes of a text, as deep as the settings go. *)
IsValue(v) ==
    \E type \in {"object", "array", "string", "number", "boolean", "null"} :
        /\ DOMAIN v = {type}
        /\ type = "array" => v.array \in Seq(ToSet(v.array))
        /\ type = "null" => v = Null
IsFile(file) ==
    \/ file \in {Missing, Unparsable}
    \/ /\ IsValue(file)
       /\ \A k \in Keys(file) : IsValue(Field(file, k))
                               /\ \A l \in Keys(Field(file, k)) : IsValue(Field(Field(file, k), l))

load(file) ==
    IF file = Missing THEN [config |-> DefaultConfig, errors |-> {}, loaded |-> FALSE]
    ELSE IF file = Unparsable THEN [config |-> DefaultConfig, errors |-> {<<>>}, loaded |-> TRUE]
    ELSE [config |-> merge(file), errors |-> validate(file), loaded |-> TRUE]

-------------------------------------------------------------------------------
(* The settings there are, and where they stand in a file and in a config. *)

SettingPaths == {<<"channels", c>> : c \in Channels}
                \cup {<<"exclusions", k>> : k \in {"domains", "paths"}}
                \cup {<<"entropy", k>> : k \in {"threshold", "minLength"}}
                \cup {<<"quiet">>, <<"logFile">>}

Written(file, path) == IF Len(path) = 1 THEN Field(file, path[1])
                       ELSE Field(Field(file, path[1]), path[2])
InEffect(config, path) == IF Len(path) = 1 THEN config[path[1]]
                          ELSE config[path[1]][path[2]]

(* An error at a path condemns everything below it. *)
Rejected(errors, path) == \E n \in 0 .. Len(path) : SubSeq(path, 1, n) \in errors

(* value is what a setting comes to that is written as v: the same, and of an
   array the strings, each of them once and in their order. *)
ComesTo(v, value) ==
    IF Is("array", v)
      THEN LET strings == {j \in DOMAIN v.array : Is("string", v.array[j])}
           IN  \E at \in [DOMAIN value -> strings] :
                  /\ \A i, k \in DOMAIN value : i < k => at[i] < at[k]
                  /\ \A j \in strings : \E i \in DOMAIN value : at[i] = j
                  /\ \A i \in DOMAIN value : value[i] = v.array[at[i]].string
      ELSE value = v[CHOOSE type \in DOMAIN v : TRUE]
===============================================================================
