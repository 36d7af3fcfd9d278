-------------------------------- MODULE Secrets --------------------------------
(***************************************************************************)
(* What envtrap takes for a secret and how it finds one in a text: the     *)
(* sources (src/secrets), SecretMatcher, OutputRedactor and preRedact.     *)
(*                                                                         *)
(* A text is a sequence of symbols, an environment a sequence of           *)
(* [name, value] in the order in which it is enumerated.  Lengths and      *)
(* thresholds are those of the code, scaled down to symbols.               *)
(***************************************************************************)
EXTENDS Integers, Sequences, SequencesExt

CONSTANTS
    Entropy(_),         \* shannonEntropy
    MatchesPattern(_),  \* does one of DETERMINISTIC_PATTERNS match?
    Forms,              \* base64, url-encoded, hex, JSON and their variations
    Encoded(_, _),      \* the encoding of a text in a form
    Blanks,             \* the symbols trim() removes
    SystemNames,        \* SYSTEM_BLOCKLIST
    ConfigNames,        \* CONFIG_KEY_BLOCKLIST
    PlainValues,        \* VALUE_BLOCKLIST
    CredentialNames,    \* the names CREDENTIAL_KEY_PATTERN matches
    ShortestSecret,     \* 4: of a secret from a file, and of a variant
    VariantFloor,       \* 6: below it a secret has no variants
    ClampMax            \* DEFAULT_MAX_BYTES of ContentClamp

Hash     == <<"[REDACTED: SHA256]">>
Excluded == <<"[REDACTED: PATH_EXCLUDED]">>

-------------------------------------------------------------------------------
(* Texts. *)

Places(value, text) ==
    {i \in 1 .. Len(text) - Len(value) + 1 : SubSeq(text, i, i + Len(value) - 1) = value}
Occurs(value, text)     == Places(value, text) # {}
FirstPlace(value, text) == Min(Places(value, text))

Trim(value) ==
    LET solid == {i \in DOMAIN value : value[i] \notin Blanks}
    IN  IF solid = {} THEN <<>> ELSE SubSeq(value, Min(solid), Max(solid))

(* text.split(value).join(tag) *)
ReplaceEvery(text, value, tag) ==
    LET from[i \in 1 .. Len(text) + 1] ==
            IF i > Len(text) THEN <<>>
            ELSE IF i \in Places(value, text) THEN tag \o from[i + Len(value)]
            ELSE <<text[i]>> \o from[i + 1]
    IN  from[1]

(* text.replace(value, tag) *)
ReplaceFirst(text, value, tag) ==
    IF ~Occurs(value, text) THEN text
    ELSE LET i == FirstPlace(value, text)
         IN  SubSeq(text, 1, i - 1) \o tag \o SubSeq(text, i + Len(value), Len(text))

-------------------------------------------------------------------------------
(* The sources. *)

LooksLikeSecret(value, entropy) ==
    /\ Len(value) >= entropy.minLength
    /\ MatchesPattern(value) \/ Entropy(value) >= entropy.threshold

EnvCandidate(entry, entropy) ==
    entry.name \notin SystemNames /\ LooksLikeSecret(entry.value, entropy)

FileCandidate(entry, entropy) ==
    LET trimmed == Trim(entry.value)
    IN  /\ Len(trimmed) >= ShortestSecret
        /\ entry.name \notin ConfigNames
        /\ trimmed \notin PlainValues
        /\ entry.name \in CredentialNames \/ LooksLikeSecret(trimmed, entropy)

(* Candidates in their order, as secrets. *)
EnvSecrets(env, entropy) ==
    FoldLeft(LAMBDA found, e :
                 IF EnvCandidate(e, entropy)
                   THEN Append(found, [name |-> e.name, value |-> e.value, source |-> "env"])
                   ELSE found,
             <<>>, env)

FileSecrets(file, entropy) ==
    FoldLeft(LAMBDA found, e :
                 IF FileCandidate(e, entropy)
                   THEN Append(found, [name |-> e.name, value |-> e.value, source |-> "file"])
                   ELSE found,
             <<>>, file)

(* The names are the keys of an object: process.env, or what dotenv parsed. *)
NamedOnce(entries) == \A i, j \in DOMAIN entries : entries[i].name = entries[j].name => i = j

(* Mutation: secrets are told apart by their values only. *)
ComposeByValue(sources) ==
    FoldLeft(LAMBDA kept, s :
                 IF \E i \in DOMAIN kept : kept[i].value = s.value
                   THEN kept ELSE Append(kept, s),
             <<>>, FlattenSeq(sources))

(* A secret with a name or a value that was already seen is dropped. *)
Compose(sources) ==
    FoldLeft(LAMBDA kept, s :
                 IF \E i \in DOMAIN kept : kept[i].value = s.value \/ kept[i].name = s.name
                   THEN kept ELSE Append(kept, s),
             <<>>, FlattenSeq(sources))

(* Mutation: the file comes first. *)
LoadSecretsFileFirst(env, file, entropy) ==
    Compose(<<FileSecrets(file, entropy), EnvSecrets(env, entropy)>>)

LoadSecrets(env, file, entropy) ==
    Compose(<<EnvSecrets(env, entropy), FileSecrets(file, entropy)>>)

-------------------------------------------------------------------------------
(* SecretMatcher. *)

IsCandidate(secret, entropy) ==
    IF secret.source = "file" THEN Len(Trim(secret.value)) >= ShortestSecret
                              ELSE LooksLikeSecret(secret.value, entropy)

Variants(secret, entropy) ==
    IF ~IsCandidate(secret, entropy) \/ Len(secret.value) < VariantFloor
                                     \/ Len(secret.value) < entropy.minLength
      THEN {}
      ELSE {v \in {Encoded(f, secret.value) : f \in Forms} :
               v # secret.value /\ Len(v) >= ShortestSecret}

(* The secrets of which content holds the value or a variant.  The shortcut
   for contents shorter than every variant changes nothing. *)
FindIn(secrets, entropy, content) ==
    {s \in ToSet(secrets) :
        \/ IsCandidate(s, entropy) /\ Occurs(s.value, content)
        \/ \E v \in Variants(s, entropy) : Occurs(v, content)}

Clamp(text) == SubSeq(text, 1, IF Len(text) <= ClampMax THEN Len(text) ELSE ClampMax)

-------------------------------------------------------------------------------
(* OutputRedactor in the parent, preRedact in the child. *)

(* Mutation: String.replace, which stops at the first. *)
RedactFirst(secrets, text) ==
    FoldLeft(LAMBDA acc, s : ReplaceFirst(acc, s.value, Hash), text, secrets)

Redact(secrets, text) ==
    FoldLeft(LAMBDA acc, s : ReplaceEvery(acc, s.value, Hash), text, secrets)

(* Mutation: as RedactFirst. *)
PreRedactFirst(secrets, text) ==
    FoldLeft(LAMBDA acc, s : ReplaceFirst(acc, s.value, Excluded), text, secrets)

PreRedact(secrets, text) ==
    FoldLeft(LAMBDA acc, s : ReplaceEvery(acc, s.value, Excluded), text, secrets)
===============================================================================
