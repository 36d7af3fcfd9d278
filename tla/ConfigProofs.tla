----------------------------- MODULE ConfigProofs -----------------------------
(***************************************************************************)
(* ConfigMerger and ConfigValidator judge every file alike.                *)
(***************************************************************************)
EXTENDS Config, SecretsProofs

(* What ValidatorAndMergerAgree says of one setting of one file. *)
Agree(file, p) ==
    LET v      == Written(file, p)
        errors == load(file).errors
        config == load(file).config
    IN  IF Is("undefined", v) \/ Rejected(errors, p)
          THEN InEffect(config, p) = InEffect(DefaultConfig, p)
          ELSE ComesTo(v, InEffect(config, p))

-------------------------------------------------------------------------------
(* Values. *)

(* A value has one type, and comes to the field of that name, if it is no array. *)
LEMMA OneType ==
    ASSUME NEW v, IsValue(v), NEW type, Is(type, v)
    PROVE  /\ DOMAIN v = {type} /\ ~Is("undefined", v)
           /\ type # "array" => ComesTo(v, v[type])
<1>1. DOMAIN v = {type}
  BY DEF IsValue, Is
<1>2. type # "undefined"
  BY <1>1 DEF IsValue
<1>3. (CHOOSE t \in DOMAIN v : TRUE) = type
  BY <1>1
<1> QED BY <1>1, <1>2, <1>3 DEF Is, ComesTo

(* What is not in the file is undefined, and no string, number or array. *)
LEMMA UndefinedIs ==
    /\ Is("undefined", Undefined)
    /\ \A type \in {"object", "array", "string", "number", "boolean", "null"} : ~Is(type, Undefined)
BY DEF Undefined, Is

(* ConfigMerger.stringArray takes the strings of an array, in their order. *)
LEMMA StringsTaken ==
    ASSUME NEW v, IsValue(v), Is("array", v), NEW default
    PROVE  ComesTo(v, StringArray(v, default))
<1> DEFINE src == v.array
           A == ToSet(src)
           T == {x \in A : Is("string", x)}
           B == {x.string : x \in A}
           f == [x \in A |-> x.string]
           Next(strings, x) == IF Is("string", x) THEN Append(strings, x.string) ELSE strings
           It == CHOOSE it : it = [s \in SUBSET DOMAIN src |->
                   IF s = {} THEN <<>> ELSE Next(it[s \ {Max(s)}], src[Max(s)])]
           out == StringArray(v, default)
<1>1. out = It[DOMAIN src]
  BY DEF StringArray, FoldLeft, MapThenFoldSet
<1> HIDE DEF It, out
<1>2. src \in Seq(A) /\ DOMAIN v = {"array"}
  BY DEF IsValue, Is
<1>3. \A j \in DOMAIN src : /\ src[j] \in A /\ f[src[j]] = src[j].string
                            /\ src[j] \in T <=> Is("string", src[j])
  BY DEF ToSet
<1>4. f \in [A -> B]
  OBVIOUS
<1>5. ASSUME NEW s \in SUBSET DOMAIN src, s # {}, NEW found
      PROVE  Collect(found, src[Max(s)], T, f) = Next(found, src[Max(s)])
  <2> HIDE DEF src, A, B, T, f, Next
  <2>1. DOMAIN src = 1 .. Len(src) /\ Len(src) \in Nat
    BY <1>2, LenProperties
  <2>2. Max(s) \in DOMAIN src
    BY <1>5, <2>1, GreatestIndex
  <2>3. /\ f[src[Max(s)]] = src[Max(s)].string
        /\ src[Max(s)] \in T <=> Is("string", src[Max(s)])
    BY <1>3, <2>2
  <2> QED BY <2>3 DEF Collect, Next
<1> HIDE DEF src, A, B, T, f, Next
<1>6. \E it : it = [s \in SUBSET DOMAIN src |->
                  IF s = {} THEN <<>> ELSE Next(it[s \ {Max(s)}], src[Max(s)])]
  <2>1. PICK it : IsFilter(it, src, T, f)
    BY <1>2, <1>4, FilterDefined
  <2>2. it = [s \in SUBSET DOMAIN src |->
                IF s = {} THEN <<>> ELSE Next(it[s \ {Max(s)}], src[Max(s)])]
    BY <1>5, <2>1 DEF IsFilter
  <2> QED BY <2>2
<1>7. IsFilter(It, src, T, f)
  <2>1. It = [s \in SUBSET DOMAIN src |->
                IF s = {} THEN <<>> ELSE Next(It[s \ {Max(s)}], src[Max(s)])]
    BY <1>6 DEF It
  <2> QED BY <1>5, <2>1 DEF IsFilter
<1>8. InOrder(It[DOMAIN src], src, Len(src), T, f, B)
  BY <1>2, <1>4, <1>7, FilterInOrder
<1>9. out \in Seq(B) /\ \E at : Picks(at, out, Len(out), src, Len(src), T, f)
  BY <1>1, <1>8 DEF InOrder
<1>10. DOMAIN out = 1 .. Len(out) /\ DOMAIN src = 1 .. Len(src)
  BY <1>2, <1>9, LenProperties
<1> DEFINE strings == {j \in DOMAIN src : Is("string", src[j])}
<1>11. {j \in 1 .. Len(src) : src[j] \in T} = strings
  BY <1>3, <1>10
<1>12. PICK at : Picks(at, out, Len(out), src, Len(src), T, f)
  BY <1>9
<1>13. /\ at \in [DOMAIN out -> strings]
       /\ \A i, k \in DOMAIN out : i < k => at[i] < at[k]
       /\ \A j \in strings : \E i \in DOMAIN out : at[i] = j
       /\ \A i \in DOMAIN out : out[i] = f[src[at[i]]]
  BY <1>10, <1>11, <1>12 DEF Picks
<1>14. \A i \in DOMAIN out : out[i] = src[at[i]].string
  BY <1>3, <1>13
<1> QED BY <1>13, <1>14 DEF src, out, ComesTo

-------------------------------------------------------------------------------
(* Errors. *)

(* An error at the root, at the section or at the setting itself. *)
LEMMA RejectedPaths ==
    ASSUME NEW errors, NEW a, NEW b
    PROVE  /\ Rejected(errors, <<a>>) <=> <<>> \in errors \/ <<a>> \in errors
           /\ Rejected(errors, <<a, b>>) <=> <<>> \in errors \/ <<a>> \in errors \/ <<a, b>> \in errors
<1>1. /\ Len(<<a>>) = 1 /\ SubSeq(<<a>>, 1, 0) = <<>> /\ SubSeq(<<a>>, 1, 1) = <<a>>
      /\ \A n \in 0 .. 1 : n = 0 \/ n = 1
  <2>1. <<a>> \in Seq({a}) /\ Len(<<a>>) = 1
    OBVIOUS
  <2>2. SubSeq(<<a>>, 1, 1) = <<a>>
    BY <2>1, SubSeqFull
  <2>3. SubSeq(<<a>>, 1, 0) = <<>>
    BY SubSeqEmpty
  <2> QED BY <2>1, <2>2, <2>3
<1>2. /\ Len(<<a, b>>) = 2 /\ SubSeq(<<a, b>>, 1, 0) = <<>>
      /\ SubSeq(<<a, b>>, 1, 1) = <<a>> /\ SubSeq(<<a, b>>, 1, 2) = <<a, b>>
      /\ \A n \in 0 .. 2 : n = 0 \/ n = 1 \/ n = 2
  <2>1. <<a, b>> \in Seq({a, b}) /\ Len(<<a, b>>) = 2 /\ <<a, b>>[1] = a /\ <<a, b>>[2] = b
    OBVIOUS
  <2>2. SubSeq(<<a, b>>, 1, 2) = <<a, b>>
    BY <2>1, SubSeqFull
  <2>3. SubSeq(<<a, b>>, 1, 0) = <<>>
    BY SubSeqEmpty
  <2>4. SubSeq(<<a, b>>, 1, 1) = <<a>>
    <3> DEFINE pair == <<a, b>>
               first == SubSeq(pair, 1, 1)
    <3>1. \A i \in 1 .. 1 : pair[i] \in {a, b}
      BY <2>1
    <3> HIDE DEF pair
    <3>2. first \in Seq({a, b}) /\ Len(first) = 1 /\ first[1] = pair[1]
      <4>1. /\ SubSeq(pair, 1, 1) \in Seq({a, b})
            /\ Len(SubSeq(pair, 1, 1)) = IF 1 <= 1 THEN 1 - 1 + 1 ELSE 0
            /\ \A i \in 1 .. 1 - 1 + 1 : SubSeq(pair, 1, 1)[i] = pair[1 + i - 1]
        BY <3>1, SubSeqProperties
      <4>2. 1 \in 1 .. 1 - 1 + 1 /\ 1 + 1 - 1 = 1
        OBVIOUS
      <4> QED BY <4>1, <4>2
    <3> HIDE DEF first
    <3>3. <<a>> \in Seq({a, b}) /\ Len(<<a>>) = 1 /\ <<a>>[1] = a
      OBVIOUS
    <3>4. \A i \in 1 .. Len(first) : first[i] = <<a>>[i]
      BY <2>1, <3>2, <3>3 DEF pair
    <3>5. first = <<a>>
      BY <3>2, <3>3, <3>4, SeqEqual
    <3> QED BY <3>5 DEF first, pair
  <2> QED BY <2>1, <2>2, <2>3, <2>4
<1>3. Rejected(errors, <<a>>) <=> <<>> \in errors \/ <<a>> \in errors
  <2> DEFINE path == <<a>>
  <2>1. Len(path) = 1 /\ SubSeq(path, 1, 0) = <<>> /\ SubSeq(path, 1, 1) = <<a>>
    BY <1>1
  <2> HIDE DEF path
  <2>2. Rejected(errors, path) <=> SubSeq(path, 1, 0) \in errors \/ SubSeq(path, 1, 1) \in errors
    BY <1>1, <2>1 DEF Rejected
  <2> QED BY <2>1, <2>2 DEF path
<1>4. Rejected(errors, <<a, b>>) <=> <<>> \in errors \/ <<a>> \in errors \/ <<a, b>> \in errors
  <2> DEFINE path == <<a, b>>
  <2>1. /\ Len(path) = 2 /\ SubSeq(path, 1, 0) = <<>> /\ SubSeq(path, 1, 1) = <<a>>
        /\ SubSeq(path, 1, 2) = <<a, b>>
    BY <1>2
  <2> HIDE DEF path
  <2>2. Rejected(errors, path) <=> \/ SubSeq(path, 1, 0) \in errors \/ SubSeq(path, 1, 1) \in errors
                                  \/ SubSeq(path, 1, 2) \in errors
    BY <1>2, <2>1 DEF Rejected
  <2> QED BY <2>1, <2>2 DEF path
<1> QED BY <1>3, <1>4

(* Where the validator complains about an object. *)
LEMMA ErrorPaths ==
    ASSUME NEW raw, Is("object", raw)
    PROVE  /\ <<>> \notin validate(raw)
           /\ \A s \in {"channels", "exclusions", "entropy"} :
                 <<s>> \in validate(raw) <=> s \in Keys(raw) /\ ~Is("object", Field(raw, s))
           /\ <<"quiet">> \in validate(raw)
                 <=> "quiet" \in Keys(raw) /\ ~Is("boolean", Field(raw, "quiet"))
           /\ <<"logFile">> \in validate(raw)
                 <=> "logFile" \in Keys(raw) /\ ~Is("null", Field(raw, "logFile"))
                                            /\ ~Is("string", Field(raw, "logFile"))
           /\ \A c \in Channels : <<"channels", c>> \in validate(raw)
                 <=> LET v == Field(Field(raw, "channels"), c)
                     IN  c \in Keys(Field(raw, "channels")) /\ ~(Is("string", v) /\ v.string \in Modes)
           /\ \A k \in {"domains", "paths"} : <<"exclusions", k>> \in validate(raw)
                 <=> /\ k \in Keys(Field(raw, "exclusions"))
                     /\ ~Is("array", Field(Field(raw, "exclusions"), k))
           /\ \A k \in {"threshold", "minLength"} : <<"entropy", k>> \in validate(raw)
                 <=> /\ k \in Keys(Field(raw, "entropy"))
                     /\ ~Is("number", Field(Field(raw, "entropy"), k))
<1> QED BY DEF validate, ChannelErrors, TypeErrors, Is

-------------------------------------------------------------------------------
(* The settings, one kind after the other. *)

(* What is written at a path of one key, and what is in effect there. *)
LEMMA OneKey ==
    ASSUME NEW x, NEW a
    PROVE  Written(x, <<a>>) = Field(x, a) /\ InEffect(x, <<a>>) = x[a]
<1>1. Len(<<a>>) = 1
  OBVIOUS
<1> QED BY <1>1 DEF Written, InEffect

(* What is written at a path of two keys. *)
LEMMA TwoKeys ==
    ASSUME NEW x, NEW a, NEW b
    PROVE  Written(x, <<a, b>>) = Field(Field(x, a), b)
<1>1. Len(<<a, b>>) = 2
  OBVIOUS
<1> QED BY <1>1 DEF Written

(* What is in effect at a path of two keys. *)
LEMMA TwoKeysInEffect ==
    ASSUME NEW x, NEW a, NEW b
    PROVE  InEffect(x, <<a, b>>) = x[a][b]
<1>1. Len(<<a, b>>) = 2
  OBVIOUS
<1> QED BY <1>1 DEF InEffect

(* Without a file, and with one that is no object, everything has its default:
   nothing is written. *)
LEMMA NothingWritten ==
    ASSUME NEW file, ~Is("object", file), NEW a, NEW b
    PROVE  Is("undefined", Written(file, <<a>>)) /\ Is("undefined", Written(file, <<a, b>>))
<1>1. Field(file, a) = Undefined
  BY DEF Field, Keys
<1>2. Field(Undefined, b) = Undefined
  BY UndefinedIs DEF Field, Keys
<1> QED BY <1>1, <1>2, OneKey, TwoKeys, UndefinedIs

(* What load makes of a file with a value in it. *)
LEMMA LoadedValue ==
    ASSUME NEW file, IsValue(file)
    PROVE  load(file).config = merge(file) /\ load(file).errors = validate(file)
<1>1. DOMAIN Missing = {"missing"} /\ DOMAIN Unparsable = {"unparsable"}
  BY DEF Missing, Unparsable
<1>2. file # Missing /\ file # Unparsable
  BY <1>1 DEF IsValue
<1> QED BY <1>2 DEF load

(* The same for a file with an object in it. *)
LEMMA LoadedObject ==
    ASSUME NEW file, IsFile(file), Is("object", file)
    PROVE  load(file).config = merge(file) /\ load(file).errors = validate(file)
<1>1. file \notin {Missing, Unparsable}
  BY DEF Missing, Unparsable, Is
<1> QED BY <1>1, LoadedValue DEF IsFile

(* What stands in an object of the file is a value. *)
LEMMA NestedValue ==
    ASSUME NEW file, IsFile(file), Is("object", file), NEW s \in Keys(file)
    PROVE  /\ IsValue(Field(file, s))
           /\ \A k \in Keys(Field(file, s)) : IsValue(Field(Field(file, s), k))
<1>1. file \notin {Missing, Unparsable}
  BY DEF Missing, Unparsable, Is
<1> QED BY <1>1 DEF IsFile

(* channels.<c>: validMode. *)
LEMMA ChannelsAgree ==
    ASSUME NEW file, IsFile(file), Is("object", file), NEW c \in Channels
    PROVE  Agree(file, <<"channels", c>>)
<1> DEFINE section == Field(file, "channels")
           v       == Field(section, c)
<1>1. load(file).config = merge(file) /\ load(file).errors = validate(file)
  BY LoadedObject
<1>2. InEffect(merge(file), <<"channels", c>>) = ValidMode(v, DefaultConfig.channels[c])
  <2>1. merge(file).channels = [x \in Channels |-> ValidMode(Field(section, x), DefaultConfig.channels[x])]
    BY DEF merge
  <2>2. InEffect(merge(file), <<"channels", c>>) = merge(file)["channels"][c]
    BY TwoKeysInEffect
  <2> QED BY <2>1, <2>2
<1>3. InEffect(DefaultConfig, <<"channels", c>>) = DefaultConfig.channels[c]
  BY TwoKeysInEffect
<1>4. Written(file, <<"channels", c>>) = v
  BY TwoKeys
<1>5. Rejected(validate(file), <<"channels", c>>) <=>
         \/ "channels" \in Keys(file) /\ ~Is("object", section)
         \/ c \in Keys(section) /\ ~(Is("string", v) /\ v.string \in Modes)
  BY RejectedPaths, ErrorPaths
<1>6. CASE c \notin Keys(section)
  <2>1. v = Undefined
    BY <1>6 DEF Field
  <2>2. ValidMode(v, DefaultConfig.channels[c]) = DefaultConfig.channels[c]
    BY <2>1, UndefinedIs DEF ValidMode
  <2> QED BY <1>1, <1>2, <1>3, <1>4, <2>1, <2>2, UndefinedIs DEF Agree
<1>7. CASE c \in Keys(section)
  <2>1. "channels" \in Keys(file) /\ Is("object", section)
    <3>1. Is("object", section)
      BY <1>7 DEF Keys
    <3> QED BY <3>1, UndefinedIs DEF Field
  <2>2. IsValue(v)
    BY <1>7, <2>1, NestedValue
  <2>3. CASE Is("string", v) /\ v.string \in Modes
    <3>1. ValidMode(v, DefaultConfig.channels[c]) = v.string
      BY <2>3 DEF ValidMode
    <3>2. ComesTo(v, v.string) /\ ~Is("undefined", v)
      BY <2>2, <2>3, OneType
    <3> QED BY <1>1, <1>2, <1>4, <1>5, <2>1, <2>3, <3>1, <3>2 DEF Agree
  <2>4. CASE ~(Is("string", v) /\ v.string \in Modes)
    <3>1. ValidMode(v, DefaultConfig.channels[c]) = DefaultConfig.channels[c]
      BY <2>4 DEF ValidMode
    <3> QED BY <1>1, <1>2, <1>3, <1>4, <1>5, <1>7, <2>4, <3>1 DEF Agree
  <2> QED BY <2>3, <2>4
<1> QED BY <1>6, <1>7

(* exclusions.<k>: stringArray. *)
LEMMA ExclusionsAgree ==
    ASSUME NEW file, IsFile(file), Is("object", file), NEW k \in {"domains", "paths"}
    PROVE  Agree(file, <<"exclusions", k>>)
<1> DEFINE section == Field(file, "exclusions")
           v       == Field(section, k)
           d       == DefaultConfig.exclusions[k]
<1>1. load(file).config = merge(file) /\ load(file).errors = validate(file)
  BY LoadedObject
<1>2. InEffect(merge(file), <<"exclusions", k>>) = StringArray(v, d)
  <2>1. merge(file).exclusions = [x \in {"domains", "paths"} |-> StringArray(Field(section, x), DefaultConfig.exclusions[x])]
    BY DEF merge
  <2>2. InEffect(merge(file), <<"exclusions", k>>) = merge(file)["exclusions"][k]
    BY TwoKeysInEffect
  <2> QED BY <2>1, <2>2
<1>3. InEffect(DefaultConfig, <<"exclusions", k>>) = d
  BY TwoKeysInEffect
<1>4. Written(file, <<"exclusions", k>>) = v
  BY TwoKeys
<1>5. Rejected(validate(file), <<"exclusions", k>>) <=>
         \/ "exclusions" \in Keys(file) /\ ~Is("object", section)
         \/ k \in Keys(section) /\ ~Is("array", v)
  BY RejectedPaths, ErrorPaths
<1> HIDE DEF d
<1>6. CASE k \notin Keys(section)
  <2>1. v = Undefined
    BY <1>6 DEF Field
  <2>2. StringArray(v, d) = d
    BY <2>1, UndefinedIs DEF StringArray
  <2> QED BY <1>1, <1>2, <1>3, <1>4, <2>1, <2>2, UndefinedIs DEF Agree
<1>7. CASE k \in Keys(section)
  <2>1. "exclusions" \in Keys(file) /\ Is("object", section)
    <3>1. Is("object", section)
      BY <1>7 DEF Keys
    <3> QED BY <3>1, UndefinedIs DEF Field
  <2>2. IsValue(v)
    BY <1>7, <2>1, NestedValue
  <2>3. CASE Is("array", v)
    <3>1. ComesTo(v, StringArray(v, d))
      BY <2>2, <2>3, StringsTaken
    <3>2. ~Is("undefined", v)
      BY <2>2, <2>3, OneType
    <3> QED BY <1>1, <1>2, <1>4, <1>5, <2>1, <2>3, <3>1, <3>2 DEF Agree
  <2>4. CASE ~Is("array", v)
    <3>1. StringArray(v, d) = d
      BY <2>4 DEF StringArray
    <3> QED BY <1>1, <1>2, <1>3, <1>4, <1>5, <1>7, <2>4, <3>1 DEF Agree
  <2> QED BY <2>3, <2>4
<1> QED BY <1>6, <1>7

(* entropy.<k>: a number. *)
LEMMA EntropyAgree ==
    ASSUME NEW file, IsFile(file), Is("object", file), NEW k \in {"threshold", "minLength"}
    PROVE  Agree(file, <<"entropy", k>>)
<1> DEFINE section == Field(file, "entropy")
           v       == Field(section, k)
           d       == DefaultConfig.entropy[k]
<1>1. load(file).config = merge(file) /\ load(file).errors = validate(file)
  BY LoadedObject
<1>2. InEffect(merge(file), <<"entropy", k>>) = Typed("number", v, d)
  <2>1. merge(file).entropy = [x \in {"threshold", "minLength"} |-> Typed("number", Field(section, x), DefaultConfig.entropy[x])]
    BY DEF merge
  <2>2. InEffect(merge(file), <<"entropy", k>>) = merge(file)["entropy"][k]
    BY TwoKeysInEffect
  <2> QED BY <2>1, <2>2
<1>3. InEffect(DefaultConfig, <<"entropy", k>>) = d
  BY TwoKeysInEffect
<1>4. Written(file, <<"entropy", k>>) = v
  BY TwoKeys
<1>5. Rejected(validate(file), <<"entropy", k>>) <=>
         \/ "entropy" \in Keys(file) /\ ~Is("object", section)
         \/ k \in Keys(section) /\ ~Is("number", v)
  BY RejectedPaths, ErrorPaths
<1> HIDE DEF d
<1>6. CASE k \notin Keys(section)
  <2>1. v = Undefined
    BY <1>6 DEF Field
  <2>2. Typed("number", v, d) = d
    BY <2>1, UndefinedIs DEF Typed
  <2> QED BY <1>1, <1>2, <1>3, <1>4, <2>1, <2>2, UndefinedIs DEF Agree
<1>7. CASE k \in Keys(section)
  <2>1. "entropy" \in Keys(file) /\ Is("object", section)
    <3>1. Is("object", section)
      BY <1>7 DEF Keys
    <3> QED BY <3>1, UndefinedIs DEF Field
  <2>2. IsValue(v)
    BY <1>7, <2>1, NestedValue
  <2>3. CASE Is("number", v)
    <3>1. ComesTo(v, Typed("number", v, d))
      BY <2>2, <2>3, OneType DEF Typed
    <3>2. ~Is("undefined", v)
      BY <2>2, <2>3, OneType
    <3> QED BY <1>1, <1>2, <1>4, <1>5, <2>1, <2>3, <3>1, <3>2 DEF Agree
  <2>4. CASE ~Is("number", v)
    <3>1. Typed("number", v, d) = d
      BY <2>4 DEF Typed
    <3> QED BY <1>1, <1>2, <1>3, <1>4, <1>5, <1>7, <2>4, <3>1 DEF Agree
  <2> QED BY <2>3, <2>4
<1> QED BY <1>6, <1>7

(* quiet: a boolean, or its default. *)
LEMMA QuietAgree ==
    ASSUME NEW file, IsFile(file), Is("object", file)
    PROVE  Agree(file, <<"quiet">>)
<1> DEFINE v == Field(file, "quiet")
           d == DefaultConfig.quiet
<1>1. load(file).config = merge(file) /\ load(file).errors = validate(file)
  BY LoadedObject
<1>2. InEffect(merge(file), <<"quiet">>) = Typed("boolean", v, d)
  <2>1. InEffect(merge(file), <<"quiet">>) = merge(file)["quiet"]
    BY OneKey
  <2>2. merge(file).quiet = Typed("boolean", v, d)
    BY DEF merge
  <2> QED BY <2>1, <2>2
<1>3. InEffect(DefaultConfig, <<"quiet">>) = d
  BY OneKey
<1>4. Written(file, <<"quiet">>) = v
  BY OneKey
<1>5. Rejected(validate(file), <<"quiet">>) <=> "quiet" \in Keys(file) /\ ~Is("boolean", v)
  BY RejectedPaths, ErrorPaths
<1>6. d = FALSE
  BY DEF DefaultConfig
<1> HIDE DEF d
<1>7. CASE "quiet" \notin Keys(file)
  <2>1. v = Undefined
    BY <1>7 DEF Field
  <2>2. Typed("boolean", v, d) = d
    BY <2>1, UndefinedIs DEF Typed
  <2> QED BY <1>1, <1>2, <1>3, <1>4, <2>1, <2>2, UndefinedIs DEF Agree
<1>8. CASE "quiet" \in Keys(file)
  <2>1. IsValue(v)
    BY <1>8, NestedValue
  <2>2. CASE Is("boolean", v)
    <3>1. ComesTo(v, Typed("boolean", v, d)) /\ ~Is("undefined", v)
      BY <2>1, <2>2, OneType DEF Typed
    <3> QED BY <1>1, <1>2, <1>4, <1>5, <2>2, <3>1 DEF Agree
  <2>3. CASE ~Is("boolean", v)
    <3>1. Typed("boolean", v, d) = d
      BY <2>3 DEF Typed
    <3> QED BY <1>1, <1>2, <1>3, <1>4, <1>5, <1>8, <2>3, <3>1 DEF Agree
  <2> QED BY <2>2, <2>3
<1> QED BY <1>7, <1>8

(* logFile: a string, or null, which is its default. *)
LEMMA LogFileAgree ==
    ASSUME NEW file, IsFile(file), Is("object", file)
    PROVE  Agree(file, <<"logFile">>)
<1> DEFINE v == Field(file, "logFile")
           d == DefaultConfig.logFile
<1>1. load(file).config = merge(file) /\ load(file).errors = validate(file)
  BY LoadedObject
<1>2. InEffect(merge(file), <<"logFile">>) = Typed("string", v, d)
  <2>1. InEffect(merge(file), <<"logFile">>) = merge(file)["logFile"]
    BY OneKey
  <2>2. merge(file).logFile = Typed("string", v, d)
    BY DEF merge
  <2> QED BY <2>1, <2>2
<1>3. InEffect(DefaultConfig, <<"logFile">>) = d
  BY OneKey
<1>4. Written(file, <<"logFile">>) = v
  BY OneKey
<1>5. Rejected(validate(file), <<"logFile">>) <=> "logFile" \in Keys(file) /\ ~Is("string", v) /\ ~Is("null", v)
  BY RejectedPaths, ErrorPaths
<1>6. d = "null"
  BY DEF DefaultConfig
<1> HIDE DEF d
<1>7. CASE "logFile" \notin Keys(file)
  <2>1. v = Undefined
    BY <1>7 DEF Field
  <2>2. Typed("string", v, d) = d
    BY <2>1, UndefinedIs DEF Typed
  <2> QED BY <1>1, <1>2, <1>3, <1>4, <2>1, <2>2, UndefinedIs DEF Agree
<1>8. CASE "logFile" \in Keys(file)
  <2>1. IsValue(v)
    BY <1>8, NestedValue
  <2>2. CASE Is("string", v)
    <3>1. ComesTo(v, Typed("string", v, d)) /\ ~Is("undefined", v)
      BY <2>1, <2>2, OneType DEF Typed
    <3> QED BY <1>1, <1>2, <1>4, <1>5, <2>2, <3>1 DEF Agree
  <2>3. CASE Is("null", v)
    <3>1. ~Is("string", v) /\ v = Null
      BY <2>1, <2>3 DEF IsValue, Is
    <3>2. ComesTo(v, v["null"]) /\ ~Is("undefined", v)
      BY <2>1, <2>3, OneType
    <3>3. ComesTo(v, Typed("string", v, d))
      BY <1>6, <3>1, <3>2 DEF Typed, Null
    <3> QED BY <1>1, <1>2, <1>4, <1>5, <2>3, <3>2, <3>3 DEF Agree
  <2>4. CASE ~Is("string", v) /\ ~Is("null", v)
    <3>1. Typed("string", v, d) = d
      BY <2>4 DEF Typed
    <3> QED BY <1>1, <1>2, <1>3, <1>4, <1>5, <1>8, <2>4, <3>1 DEF Agree
  <2> QED BY <2>2, <2>3, <2>4
<1> QED BY <1>7, <1>8

(* A file that is missing, no JSON or no object leaves everything at its default. *)
LEMMA NothingAgrees ==
    ASSUME NEW file, ~Is("object", file), IsFile(file), NEW p \in SettingPaths
    PROVE  Agree(file, p)
<1> DEFINE d(q) == InEffect(DefaultConfig, q)
<1>1. \A a, b : Is("undefined", Written(file, <<a>>)) /\ Is("undefined", Written(file, <<a, b>>))
  BY NothingWritten
<1>2. Is("undefined", Written(file, p))
  BY <1>1 DEF SettingPaths
<1>3. \A s, k : Field(file, s) = Undefined /\ Field(Field(file, s), k) = Undefined
  BY UndefinedIs DEF Field, Keys
<1>4. InEffect(merge(file), p) = InEffect(DefaultConfig, p)
  <2>1. \A c \in Channels : InEffect(merge(file), <<"channels", c>>) = InEffect(DefaultConfig, <<"channels", c>>)
    <3> SUFFICES ASSUME NEW c \in Channels
                 PROVE  InEffect(merge(file), <<"channels", c>>) = InEffect(DefaultConfig, <<"channels", c>>)
      OBVIOUS
    <3>1. merge(file).channels = [x \in Channels |-> ValidMode(Field(Field(file, "channels"), x), DefaultConfig.channels[x])]
      BY DEF merge
    <3>2. merge(file)["channels"][c] = DefaultConfig["channels"][c]
      BY <1>3, <3>1, UndefinedIs DEF ValidMode
    <3> QED BY <3>2, TwoKeysInEffect
  <2>2. \A k \in {"domains", "paths"} :
           InEffect(merge(file), <<"exclusions", k>>) = InEffect(DefaultConfig, <<"exclusions", k>>)
    <3> SUFFICES ASSUME NEW k \in {"domains", "paths"}
                 PROVE  InEffect(merge(file), <<"exclusions", k>>) = InEffect(DefaultConfig, <<"exclusions", k>>)
      OBVIOUS
    <3>1. merge(file).exclusions = [x \in {"domains", "paths"} |->
                                       StringArray(Field(Field(file, "exclusions"), x), DefaultConfig.exclusions[x])]
      BY DEF merge
    <3>2. \A e : StringArray(Undefined, e) = e
      BY UndefinedIs DEF StringArray
    <3>3. merge(file)["exclusions"][k] = DefaultConfig["exclusions"][k]
      BY <1>3, <3>1, <3>2
    <3> QED BY <3>3, TwoKeysInEffect
  <2>3. \A k \in {"threshold", "minLength"} :
           InEffect(merge(file), <<"entropy", k>>) = InEffect(DefaultConfig, <<"entropy", k>>)
    <3> SUFFICES ASSUME NEW k \in {"threshold", "minLength"}
                 PROVE  InEffect(merge(file), <<"entropy", k>>) = InEffect(DefaultConfig, <<"entropy", k>>)
      OBVIOUS
    <3>1. merge(file).entropy = [x \in {"threshold", "minLength"} |->
                                    Typed("number", Field(Field(file, "entropy"), x), DefaultConfig.entropy[x])]
      BY DEF merge
    <3>2. merge(file)["entropy"][k] = DefaultConfig["entropy"][k]
      BY <1>3, <3>1, UndefinedIs DEF Typed
    <3> QED BY <3>2, TwoKeysInEffect
  <2>4. InEffect(merge(file), <<"quiet">>) = InEffect(DefaultConfig, <<"quiet">>)
    <3>1. merge(file)["quiet"] = DefaultConfig["quiet"]
      BY <1>3, UndefinedIs DEF merge, Typed
    <3> QED BY <3>1, OneKey
  <2>5. InEffect(merge(file), <<"logFile">>) = InEffect(DefaultConfig, <<"logFile">>)
    <3>1. merge(file)["logFile"] = DefaultConfig["logFile"]
      BY <1>3, UndefinedIs DEF merge, Typed
    <3> QED BY <3>1, OneKey
  <2> QED BY <2>1, <2>2, <2>3, <2>4, <2>5 DEF SettingPaths
<1>5. load(file).config = DefaultConfig \/ load(file).config = merge(file)
  BY DEF load
<1> QED BY <1>2, <1>4, <1>5 DEF Agree

(* ConfigValidator and ConfigMerger judge every file alike, at every setting:
   what the validator rejects has no effect, what it accepts has the effect
   that is written, an array that of its strings in their order. *)
THEOREM FileJudgedAlike ==
    ASSUME NEW file, IsFile(file), NEW p \in SettingPaths
    PROVE  Agree(file, p)
<1>1. CASE ~Is("object", file)
  BY <1>1, NothingAgrees
<1>2. CASE Is("object", file)
  BY <1>2, ChannelsAgree, ExclusionsAgree, EntropyAgree, QuietAgree, LogFileAgree DEF SettingPaths
<1> QED BY <1>1, <1>2

(* Whatever the file says, every channel has a mode. *)
LEMMA EveryChannelHasMode ==
    ASSUME NEW file
    PROVE  load(file).config.channels \in [Channels -> Modes]
<1>1. DefaultConfig.channels \in [Channels -> Modes]
  BY DEF DefaultConfig, Channels, Modes
<1>2. \A v : \A d \in Modes : ValidMode(v, d) \in Modes
  BY DEF ValidMode
<1>3. merge(file).channels \in [Channels -> Modes]
  <2>1. merge(file).channels
        = [c \in Channels |-> ValidMode(Field(Field(file, "channels"), c), DefaultConfig.channels[c])]
    BY DEF merge
  <2> QED BY <1>1, <1>2, <2>1
<1>4. load(file).config = DefaultConfig \/ load(file).config = merge(file)
  BY DEF load
<1> QED BY <1>1, <1>3, <1>4
===============================================================================
