----------------------------- MODULE SessionProofs -----------------------------
(***************************************************************************)
(* The invariants of Session, for every set of worlds a run may start in.  *)
(***************************************************************************)
EXTENDS Session, ConfigProofs

-------------------------------------------------------------------------------
(* Texts. *)

(* A text is a text over its own symbols, and over any that include them. *)
LEMMA OwnSymbols ==
    /\ \A t, A : t \in Seq(A) => t \in Seq(ToSet(t)) /\ ToSet(t) \subseteq A
    /\ \A t, A : t \in Seq(ToSet(t)) /\ ToSet(t) \subseteq A => t \in Seq(A)
<1>1. ASSUME NEW t, NEW A, t \in Seq(A)
      PROVE  t \in Seq(ToSet(t)) /\ ToSet(t) \subseteq A
  <2>1. DOMAIN t = 1 .. Len(t) /\ Len(t) \in Nat /\ t = [i \in 1 .. Len(t) |-> t[i]]
    BY <1>1, LenProperties
  <2>2. \A i \in 1 .. Len(t) : t[i] \in A /\ t[i] \in ToSet(t)
    BY <1>1, <2>1, ElementOfSeq DEF ToSet
  <2>3. t \in [1 .. Len(t) -> ToSet(t)]
    BY <2>1, <2>2
  <2>4. t \in Seq(ToSet(t))
    BY <2>1, <2>3, SeqDef
  <2>5. ToSet(t) \subseteq A
    BY <2>1, <2>2 DEF ToSet
  <2> QED BY <2>4, <2>5
<1>2. ASSUME NEW t, NEW A, t \in Seq(ToSet(t)), ToSet(t) \subseteq A
      PROVE  t \in Seq(A)
  BY <1>2, SeqMonotonic
<1> QED BY <1>1, <1>2

(* The members of a sequence. *)
LEMMA MembersOf ==
    ASSUME NEW t
    PROVE  \A x : x \in ToSet(t) <=> \E i \in DOMAIN t : t[i] = x
BY DEF ToSet

(* The beginning of a text is a text. *)
LEMMA ClampedText ==
    ASSUME NEW text, text \in Seq(ToSet(text))
    PROVE  Clamp(text) \in Seq(ToSet(Clamp(text)))
<1> DEFINE n == IF Len(text) <= ClampMax THEN Len(text) ELSE ClampMax
<1>1. Len(text) \in Nat /\ n \in 0 .. Len(text)
  BY LenProperties, SessionAssumption
<1>2. Clamp(text) = SubSeq(text, 1, n)
  BY DEF Clamp
<1> HIDE DEF n
<1>3. \A i \in 1 .. n : text[i] \in ToSet(text)
  <2>1. \A i \in 1 .. n : i \in 1 .. Len(text)
    BY <1>1
  <2> QED BY <2>1, ElementOfSeq
<1>4. SubSeq(text, 1, n) \in Seq(ToSet(text))
  BY <1>1, <1>3, SubSeqProperties
<1> QED BY <1>2, <1>4, OwnSymbols

(* A text that holds another is not empty, and what is in the beginning of a
   text is in the text. *)
LEMMA ClampOccurs ==
    ASSUME NEW A, NEW text \in Seq(A), NEW w \in Seq(A), w # <<>>, Occurs(w, Clamp(text))
    PROVE  text # <<>> /\ Occurs(w, text)
<1> DEFINE n    == IF Len(text) <= ClampMax THEN Len(text) ELSE ClampMax
           head == SubSeq(text, 1, n)
<1>1. Len(text) \in Nat /\ Len(w) \in Nat \ {0} /\ n \in 0 .. Len(text)
  BY LenProperties, EmptySeq, SessionAssumption
<1>2. Clamp(text) = head
  BY DEF Clamp
<1> HIDE DEF n
<1>3. /\ head \in Seq(A) /\ Len(head) = n
      /\ \A i \in 1 .. n : head[i] = text[i]
  <2>1. \A i \in 1 .. n : text[i] \in A
    <3>1. \A i \in 1 .. n : i \in 1 .. Len(text)
      BY <1>1
    <3> QED BY <3>1, ElementOfSeq
  <2>2. /\ SubSeq(text, 1, n) \in Seq(A)
        /\ Len(SubSeq(text, 1, n)) = IF 1 <= n THEN n - 1 + 1 ELSE 0
        /\ \A i \in 1 .. n - 1 + 1 : SubSeq(text, 1, n)[i] = text[1 + i - 1]
    BY <1>1, <2>1, SubSeqProperties
  <2> QED BY <1>1, <2>2
<1> HIDE DEF head
<1>4. PICK p : p \in Places(w, head)
  BY <1>2 DEF Occurs
<1>5. p \in 1 .. Len(head) - Len(w) + 1
  BY <1>4 DEF Places
<1>6. \A d \in 1 .. Len(w) : head[p + d - 1] = w[d]
  <2>1. p \in Places(w, head) <=> \A d \in 1 .. Len(w) : head[p + d - 1] = w[d]
    <3>1. head \in Seq(A)
      BY <1>3
    <3> QED BY <1>5, <3>1, PlaceMeans
  <2> QED BY <1>4, <2>1
<1>7. p \in 1 .. Len(text) - Len(w) + 1 /\ Len(text) > 0
  BY <1>1, <1>3, <1>5
<1>8. \A d \in 1 .. Len(w) : text[p + d - 1] = w[d]
  <2> SUFFICES ASSUME NEW d \in 1 .. Len(w) PROVE text[p + d - 1] = w[d]
    OBVIOUS
  <2>1. p + d - 1 \in 1 .. n
    BY <1>1, <1>3, <1>5
  <2> QED BY <1>3, <1>6, <2>1
<1>9. p \in Places(w, text)
  BY <1>7, <1>8, PlaceMeans
<1>10. text # <<>>
  BY <1>7, EmptySeq
<1> QED BY <1>9, <1>10 DEF Occurs

-------------------------------------------------------------------------------
(* The secrets. *)

(* A secret that was loaded: the scanner looks for it, and the redactors can
   replace it. *)
SoundSecret(s) ==
    /\ s.source \in {"env", "file"} /\ s.value # <<>> /\ IsText(s.value)
    /\ \A f \in Forms : IsText(Encoded(f, s.value))
    /\ IsCandidate(s, config.entropy)

(* All that are loaded are such secrets. *)
LEMMA SecretsSound ==
    ASSUME SetupFixed
    PROVE  /\ secrets \in Seq(ToSet(secrets))
           /\ \A s \in ToSet(secrets) : SoundSecret(s)
           /\ \A i, j \in DOMAIN secrets : i # j => secrets[i].name # secrets[j].name
<1> DEFINE E == ToSet(setup.env) \cup ToSet(setup.dotenv)
           B == {SecretOf(e, "env") : e \in E} \cup {SecretOf(e, "file") : e \in E}
<1>1. /\ setup \in Setups /\ IsSource(setup.env) /\ IsSource(setup.dotenv)
      /\ secrets = LoadSecrets(setup.env, setup.dotenv, config.entropy)
      /\ config = load(setup.file).config
  BY SessionAssumption DEF SetupFixed
<1>2. setup.env \in Seq(E) /\ setup.dotenv \in Seq(E)
  BY <1>1, OwnSymbols DEF IsSource
<1>3. /\ secrets \in Seq(B)
      /\ \A i \in DOMAIN secrets : Sourced(secrets[i], setup.env, setup.dotenv, config.entropy)
      /\ \A i, j \in DOMAIN secrets : i # j => secrets[i].name # secrets[j].name
  <2> HIDE DEF E
  <2>1. Loaded(secrets, E, setup.env, setup.dotenv, config.entropy)
    BY <1>1, <1>2, LoadedSecrets
  <2> QED BY <2>1 DEF Loaded
<1>4. secrets \in Seq(ToSet(secrets))
  <2> HIDE DEF B
  <2> QED BY <1>3, OwnSymbols
<1>5. ASSUME NEW s \in ToSet(secrets) PROVE SoundSecret(s)
  <2>1. Sourced(s, setup.env, setup.dotenv, config.entropy)
    BY <1>3, <1>5, MembersOf
  <2>2. CASE \E j \in DOMAIN setup.env :
               EnvCandidate(setup.env[j], config.entropy) /\ s = SecretOf(setup.env[j], "env")
    <3>1. PICK j \in DOMAIN setup.env :
               EnvCandidate(setup.env[j], config.entropy) /\ s = SecretOf(setup.env[j], "env")
      BY <2>2
    <3> DEFINE e == setup.env[j]
    <3>2. e \in ToSet(setup.env) /\ EnvCandidate(e, config.entropy) /\ s = SecretOf(e, "env")
      BY <3>1, MembersOf
    <3> HIDE DEF e
    <3>3. IsText(e.value) /\ \A f \in Forms : IsText(Encoded(f, e.value))
      BY <1>1, <3>2 DEF IsSource
    <3>4. e.value # <<>>
      BY <1>1, <3>2, NoEmptySecret
    <3>5. s.source = "env" /\ s.value = e.value
      BY <3>2 DEF SecretOf
    <3>6. IsCandidate(s, config.entropy)
      BY <3>2, <3>5 DEF IsCandidate, EnvCandidate
    <3> QED BY <3>3, <3>4, <3>5, <3>6 DEF SoundSecret
  <2>3. CASE \E j \in DOMAIN setup.dotenv :
               FileCandidate(setup.dotenv[j], config.entropy) /\ s = SecretOf(setup.dotenv[j], "file")
    <3>1. PICK j \in DOMAIN setup.dotenv :
               FileCandidate(setup.dotenv[j], config.entropy) /\ s = SecretOf(setup.dotenv[j], "file")
      BY <2>3
    <3> DEFINE e == setup.dotenv[j]
    <3>2. e \in ToSet(setup.dotenv) /\ FileCandidate(e, config.entropy) /\ s = SecretOf(e, "file")
      BY <3>1, MembersOf
    <3> HIDE DEF e
    <3>3. IsText(e.value) /\ \A f \in Forms : IsText(Encoded(f, e.value))
      BY <1>1, <3>2 DEF IsSource
    <3>4. Len(Trim(e.value)) >= ShortestSecret
      BY <3>2 DEF FileCandidate
    <3>5. e.value # <<>>
      <4>1. Trim(<<>>) = <<>>
        BY DEF Trim
      <4>2. ~(Len(<<>>) >= ShortestSecret)
        BY SessionAssumption
      <4> QED BY <3>4, <4>1, <4>2
    <3>6. s.source = "file" /\ s.value = e.value
      BY <3>2 DEF SecretOf
    <3>7. IsCandidate(s, config.entropy)
      BY <3>4, <3>6 DEF IsCandidate
    <3> QED BY <3>3, <3>5, <3>6, <3>7 DEF SoundSecret
  <2> QED BY <2>1, <2>2, <2>3 DEF Sourced
<1> QED BY <1>3, <1>4, <1>5

(* The encodings the scanner looks for are texts of the program as well. *)
LEMMA VariantsSound ==
    ASSUME SetupFixed, NEW s \in ToSet(secrets), NEW v \in Variants(s, config.entropy)
    PROVE  /\ v # <<>> /\ IsText(v)
           /\ \E f \in Forms : v = Encoded(f, s.value)
<1>1. /\ v \in {Encoded(f, s.value) : f \in Forms}
      /\ Len(v) >= ShortestSecret
  BY DEF Variants
<1>2. PICK f \in Forms : v = Encoded(f, s.value)
  BY <1>1
<1>3. IsText(v)
  BY <1>2, SecretsSound DEF SoundSecret
<1>4. v # <<>>
  <2>1. ~(Len(<<>>) >= ShortestSecret)
    BY SessionAssumption
  <2> QED BY <1>1, <2>1
<1> QED BY <1>2, <1>3, <1>4

-------------------------------------------------------------------------------
(* What the redactors leave of a text. *)

(* The symbols of a text, of the secrets and of their encodings, and the marks. *)
Alphabet(text) ==
    {Hash[1], Excluded[1]} \cup ToSet(text)
    \cup (UNION {ToSet(s.value) : s \in ToSet(secrets)})
    \cup (UNION {UNION {ToSet(Encoded(f, s.value)) : f \in Forms} : s \in ToSet(secrets)})

(* All of them are texts over that alphabet, and the secrets have no mark. *)
LEMMA AlphabetFits ==
    ASSUME SetupFixed, NEW text, text \in Seq(ToSet(text))
    PROVE  /\ text \in Seq(Alphabet(text)) /\ Hash[1] \in Alphabet(text) /\ Excluded[1] \in Alphabet(text)
           /\ \A s \in ToSet(secrets) :
                 /\ s.value \in Seq(Alphabet(text)) /\ s.value # <<>>
                 /\ \A d \in DOMAIN s.value : s.value[d] # Hash[1] /\ s.value[d] # Excluded[1]
                 /\ \A v \in Variants(s, config.entropy) :
                       /\ v \in Seq(Alphabet(text)) /\ v # <<>>
                       /\ \A d \in DOMAIN v : v[d] # Excluded[1]
<1>1. /\ Hash[1] \in Alphabet(text) /\ Excluded[1] \in Alphabet(text)
      /\ ToSet(text) \subseteq Alphabet(text)
  BY DEF Alphabet
<1>2. text \in Seq(Alphabet(text))
  BY <1>1, OwnSymbols
<1>3. ASSUME NEW s \in ToSet(secrets)
      PROVE  /\ s.value \in Seq(Alphabet(text)) /\ s.value # <<>>
             /\ \A d \in DOMAIN s.value : s.value[d] # Hash[1] /\ s.value[d] # Excluded[1]
  <2>1. s.value # <<>> /\ IsText(s.value)
    BY <1>3, SecretsSound DEF SoundSecret
  <2>2. ToSet(s.value) \subseteq Alphabet(text)
    BY DEF Alphabet
  <2>3. s.value \in Seq(Alphabet(text))
    BY <2>1, <2>2, OwnSymbols DEF IsText
  <2>4. \A d \in DOMAIN s.value : s.value[d] \in ToSet(s.value)
    BY DEF ToSet
  <2> QED BY <2>1, <2>3, <2>4 DEF IsText
<1>4. ASSUME NEW s \in ToSet(secrets), NEW v \in Variants(s, config.entropy)
      PROVE  /\ v \in Seq(Alphabet(text)) /\ v # <<>>
             /\ \A d \in DOMAIN v : v[d] # Excluded[1]
  <2>1. /\ v # <<>> /\ IsText(v)
        /\ \E f \in Forms : v = Encoded(f, s.value)
    BY <1>4, VariantsSound
  <2>2. ToSet(v) \subseteq Alphabet(text)
    BY <2>1 DEF Alphabet
  <2>3. v \in Seq(Alphabet(text))
    BY <2>1, <2>2, OwnSymbols DEF IsText
  <2>4. \A d \in DOMAIN v : v[d] \in ToSet(v)
    BY DEF ToSet
  <2> QED BY <2>1, <2>3, <2>4 DEF IsText
<1> QED BY <1>1, <1>2, <1>3, <1>4

(* The parent's redactor leaves no secret. *)
LEMMA ParentRedacts ==
    ASSUME SetupFixed, NEW text, text \in Seq(ToSet(text)), NEW s \in ToSet(secrets)
    PROVE  ~Occurs(s.value, Redact(secrets, text))
<1> DEFINE A == Alphabet(text)
           B == ToSet(secrets)
           out == Redact(secrets, text)
<1>1. /\ text \in Seq(A) /\ Hash[1] \in A /\ secrets \in Seq(B)
      /\ \A x \in B : /\ x.value \in Seq(A) /\ x.value # <<>>
                     /\ \A d \in DOMAIN x.value : x.value[d] # Hash[1]
  BY AlphabetFits, SecretsSound
<1> HIDE DEF A, B, out
<1>2. Redacted(Redact(secrets, text), text, secrets, Len(secrets), A, Hash[1])
  BY <1>1, RedactCleans
<1>3. \A i \in 1 .. Len(secrets) : ~Occurs(secrets[i].value, Redact(secrets, text))
  BY <1>2 DEF Redacted
<1>4. PICK i \in DOMAIN secrets : secrets[i] = s
  BY MembersOf
<1>5. DOMAIN secrets = 1 .. Len(secrets)
  BY <1>1, LenProperties
<1> QED BY <1>3, <1>4, <1>5

(* The child leaves none either, and what is still there, an encoding perhaps,
   was in the text before. *)
LEMMA ChildRedacts ==
    ASSUME SetupFixed, NEW text, text \in Seq(ToSet(text))
    PROVE  LET left == PreRedact(secrets, text)
           IN  /\ left \in Seq(Alphabet(text))
               /\ \A s \in ToSet(secrets) :
                     /\ ~Occurs(s.value, left)
                     /\ \A v \in Variants(s, config.entropy) : Occurs(v, left) => Occurs(v, text)
<1> DEFINE A == Alphabet(text)
           B == ToSet(secrets)
           left == PreRedact(secrets, text)
<1>1. /\ text \in Seq(A) /\ Excluded[1] \in A /\ secrets \in Seq(B)
      /\ \A x \in B : /\ x.value \in Seq(A) /\ x.value # <<>>
                     /\ \A d \in DOMAIN x.value : x.value[d] # Excluded[1]
  BY AlphabetFits, SecretsSound
<1>2. \A s \in B : \A v \in Variants(s, config.entropy) :
         v \in Seq(A) /\ v # <<>> /\ \A d \in DOMAIN v : v[d] # Excluded[1]
  BY AlphabetFits
<1> HIDE DEF A, B
<1>3. Redacted(left, text, secrets, Len(secrets), A, Excluded[1])
  BY <1>1, PreRedactCleans
<1> HIDE DEF left
<1>4. left \in Seq(A)
  BY <1>3 DEF Redacted
<1>5. DOMAIN secrets = 1 .. Len(secrets)
  BY <1>1, LenProperties
<1>6. \A i \in DOMAIN secrets : ~Occurs(secrets[i].value, left)
  BY <1>3, <1>5 DEF Redacted
<1>7. \A s \in ToSet(secrets) : ~Occurs(s.value, left)
  BY <1>6, MembersOf
<1>8. \A s \in B : \A v \in Variants(s, config.entropy) : Occurs(v, left) => Occurs(v, text)
  BY <1>2, <1>3 DEF Redacted
<1> QED BY <1>4, <1>7, <1>8 DEF left, A, B

-------------------------------------------------------------------------------
(* What the scanner finds and records. *)

(* It finds loaded secrets only, and each whose value is in the text it looks at. *)
LEMMA Finding ==
    ASSUME SetupFixed, NEW text, NEW channel
    PROVE  /\ Found(text, channel) \subseteq ToSet(secrets)
           /\ text \in Seq(ToSet(text)) /\ Mode(channel) # "off"
              => \A s \in ToSet(secrets) : Occurs(s.value, Clamp(text)) => s \in Found(text, channel)
<1>1. Found(text, channel) \subseteq ToSet(secrets)
  BY DEF Found, FindIn
<1>2. ASSUME text \in Seq(ToSet(text)), Mode(channel) # "off",
             NEW s \in ToSet(secrets), Occurs(s.value, Clamp(text))
      PROVE  s \in Found(text, channel)
  <2>1. text \in Seq(Alphabet(text)) /\ s.value \in Seq(Alphabet(text)) /\ s.value # <<>>
    BY <1>2, AlphabetFits
  <2>2. text # <<>>
    BY <1>2, <2>1, ClampOccurs
  <2>3. IsCandidate(s, config.entropy)
    BY <1>2, SecretsSound DEF SoundSecret
  <2> QED BY <1>2, <2>2, <2>3 DEF Found, FindIn
<1> QED BY <1>1, <1>2

(* A log whose events are about loaded secrets, and whose cache knows no more
   than the events. *)
SoundLog(l) ==
    /\ DOMAIN l = {"events", "recent"}
    /\ \A e \in l.events : /\ e.secret \in ToSet(secrets) /\ e.channel \in Channels
                           /\ e.content \in Seq(ToSet(e.content))
    /\ l.recent \subseteq {s.name : s \in ToSet(secrets)} \X Channels
    /\ \A k \in l.recent : \E e \in l.events : k = <<e.secret.name, e.channel>>

(* What is found in the text has an event on the channel. *)
Heeded(l, text, channel) ==
    \A s \in Found(text, channel) : \E e \in l.events : e.channel = channel /\ e.secret = s

(* new is the log after the text was scanned. *)
Grown(new, l, text, channel) ==
    /\ l.events \subseteq new.events
    /\ \A e \in new.events :
          \/ e \in l.events
          \/ /\ e.channel = channel /\ e.content = Clamp(text)
             /\ e.secret \in Found(text, channel)

(* Two secrets with one name are one secret. *)
LEMMA NamesTell ==
    ASSUME SetupFixed, NEW s \in ToSet(secrets), NEW r \in ToSet(secrets), s.name = r.name
    PROVE  s = r
<1>1. PICK i \in DOMAIN secrets : secrets[i] = s
  BY MembersOf
<1>2. PICK j \in DOMAIN secrets : secrets[j] = r
  BY MembersOf
<1> QED BY <1>1, <1>2, SecretsSound

(* Recording keeps the log sound, and leaves an event for what was found, either
   a new one or that of the entry in the cache. *)
LEMMA Recording ==
    ASSUME SetupFixed, NEW l, SoundLog(l), NEW text, text \in Seq(ToSet(text)),
           NEW channel \in Channels
    PROVE  /\ SoundLog(Record(l, text, channel)) /\ Heeded(Record(l, text, channel), text, channel)
           /\ Grown(Record(l, text, channel), l, text, channel)
<1> DEFINE found == Found(text, channel)
           fresh == {s \in found : <<s.name, channel>> \notin l.recent}
           new   == Record(l, text, channel)
           added == {[secret |-> s, channel |-> channel, content |-> Clamp(text)] : s \in fresh}
<1>1. /\ DOMAIN new = {"events", "recent"}
      /\ new.events = l.events \cup added
      /\ new.recent = l.recent \cup {<<s.name, channel>> : s \in found}
  BY DEF Record
<1>2. found \subseteq ToSet(secrets)
  BY Finding
<1>3. /\ \A e \in added : /\ e.channel = channel /\ e.content = Clamp(text)
                         /\ e.secret \in fresh
      /\ \A s \in fresh : \E e \in added : e.channel = channel /\ e.secret = s
  <2> DEFINE event(s) == [secret |-> s, channel |-> channel, content |-> Clamp(text)]
  <2>1. \A s : event(s).secret = s /\ event(s).channel = channel /\ event(s).content = Clamp(text)
    OBVIOUS
  <2>2. added = {event(s) : s \in fresh}
    OBVIOUS
  <2> HIDE DEF event, fresh, added
  <2> QED BY <2>1, <2>2
<1> HIDE DEF found, new, added
<1>4. Grown(new, l, text, channel)
  BY <1>1, <1>3 DEF Grown, found
<1>5. Heeded(new, text, channel)
  <2> SUFFICES ASSUME NEW s \in found
               PROVE  \E e \in new.events : e.channel = channel /\ e.secret = s
    BY DEF Heeded, found
  <2>1. CASE s \in fresh
    BY <1>1, <1>3, <2>1
  <2>2. CASE s \notin fresh
    <3>1. <<s.name, channel>> \in l.recent
      BY <2>2
    <3>2. PICK e \in l.events : <<s.name, channel>> = <<e.secret.name, e.channel>>
      BY <3>1 DEF SoundLog
    <3>3. e.secret \in ToSet(secrets) /\ s \in ToSet(secrets)
      BY <1>2, <3>2 DEF SoundLog
    <3>4. e.channel = channel /\ e.secret = s
      BY <3>2, <3>3, NamesTell
    <3> QED BY <1>1, <3>2, <3>4
  <2> QED BY <2>1, <2>2
<1>6. SoundLog(new)
  <2>1. \A e \in new.events : /\ e.secret \in ToSet(secrets) /\ e.channel \in Channels
                              /\ e.content \in Seq(ToSet(e.content))
    <3>1. \A e \in l.events : /\ e.secret \in ToSet(secrets) /\ e.channel \in Channels
                               /\ e.content \in Seq(ToSet(e.content))
      BY DEF SoundLog
    <3>2. ASSUME NEW e \in added
          PROVE  /\ e.secret \in ToSet(secrets) /\ e.channel \in Channels
                 /\ e.content \in Seq(ToSet(e.content))
      <4>1. e.content = Clamp(text) /\ Clamp(text) \in Seq(ToSet(Clamp(text)))
        BY <1>3, <3>2, ClampedText
      <4>2. e.secret \in ToSet(secrets) /\ e.channel \in Channels
        BY <1>2, <1>3, <3>2
      <4> QED BY <4>1, <4>2
    <3> QED BY <1>1, <3>1, <3>2
  <2>2. new.recent \subseteq {s.name : s \in ToSet(secrets)} \X Channels
    BY <1>1, <1>2 DEF SoundLog
  <2>3. ASSUME NEW k \in new.recent PROVE \E e \in new.events : k = <<e.secret.name, e.channel>>
    <3>1. CASE k \in l.recent
      BY <1>1, <3>1 DEF SoundLog
    <3>2. CASE \E s \in found : k = <<s.name, channel>>
      BY <1>5, <3>2 DEF Heeded, found
    <3> QED BY <1>1, <2>3, <3>1, <3>2
  <2> QED BY <1>1, <2>1, <2>2, <2>3 DEF SoundLog
<1> QED BY <1>4, <1>5, <1>6 DEF new

(* What was heeded stays so while the log grows. *)
LEMMA StaysHeeded ==
    ASSUME NEW l, NEW new, l.events \subseteq new.events, NEW text, NEW channel, Heeded(l, text, channel)
    PROVE  Heeded(new, text, channel)
BY DEF Heeded

(* The parts of a request that are scanned. *)
LEMMA PartsOf ==
    ASSUME NEW c
    PROVE  LET r == Request(c)
           IN  /\ Allowed(c) => DOMAIN Parts(c) = {}
               /\ ~Allowed(c) /\ r.scheme = "https" =>
                     DOMAIN Parts(c) = {1} /\ Parts(c)[1] = r.text
               /\ ~Allowed(c) /\ r.scheme # "https" =>
                     /\ DOMAIN Parts(c) = {1, 2, 3}
                     /\ Parts(c)[1] = r.body /\ Parts(c)[2] = Encoded("json", r.headers)
                     /\ Parts(c)[3] = r.url
<1> DEFINE r == Request(c)
<1>1. \A a, b, d : /\ DOMAIN <<a>> = {1} /\ <<a>>[1] = a
                   /\ DOMAIN <<a, b, d>> = {1, 2, 3}
                   /\ <<a, b, d>>[1] = a /\ <<a, b, d>>[2] = b /\ <<a, b, d>>[3] = d
  OBVIOUS
<1> QED BY <1>1 DEF Parts

(* A request is scanned part by part. *)
LEMMA Scanning ==
    ASSUME SetupFixed, SoundLog(log), NEW c \in DOMAIN setup.requests
    PROVE  /\ SoundLog(Scanned(log, c)) /\ log.events \subseteq Scanned(log, c).events
           /\ \A e \in Scanned(log, c).events : e \in log.events \/ e.channel = "network"
           /\ \A k \in DOMAIN Parts(c) : Heeded(Scanned(log, c), Parts(c)[k], "network")
<1> DEFINE r == Request(c)
           heard(m, text) == Record(m, text, "network")
<1>1. "network" \in Channels
  BY DEF Channels
<1>0. /\ r.scheme = "https" => r.text \in Seq(ToSet(r.text))
      /\ r.scheme # "https" =>
            \A t \in {r.body, Encoded("json", r.headers), r.url} : t \in Seq(ToSet(t))
  BY RequestsAssumption DEF SetupFixed, Request
<1>2. ASSUME NEW m, SoundLog(m), NEW text, text \in Seq(ToSet(text))
      PROVE  /\ SoundLog(heard(m, text)) /\ Heeded(heard(m, text), text, "network")
             /\ m.events \subseteq heard(m, text).events
             /\ \A e \in heard(m, text).events : e \in m.events \/ e.channel = "network"
  <2>1. /\ SoundLog(Record(m, text, "network")) /\ Heeded(Record(m, text, "network"), text, "network")
        /\ Grown(Record(m, text, "network"), m, text, "network")
    BY <1>1, <1>2, Recording
  <2> QED BY <2>1 DEF Grown
<1>3. CASE Allowed(c)
  <2>1. Scanned(log, c) = log
    BY <1>3 DEF Scanned
  <2> QED BY <1>3, <2>1, PartsOf
<1>4. CASE ~Allowed(c) /\ r.scheme = "https"
  <2>1. Scanned(log, c) = heard(log, r.text)
    BY <1>4 DEF Scanned
  <2>2. DOMAIN Parts(c) = {1} /\ Parts(c)[1] = r.text
    BY <1>4, PartsOf
  <2>3. r.text \in Seq(ToSet(r.text))
    BY <1>0, <1>4
  <2> HIDE DEF heard, r
  <2> QED BY <1>2, <2>1, <2>2, <2>3
<1>5. CASE ~Allowed(c) /\ r.scheme # "https"
  <2> DEFINE a == heard(log, r.body)
             b == heard(a, Encoded("json", r.headers))
             d == heard(b, r.url)
  <2>1. Scanned(log, c) = d
    BY <1>5 DEF Scanned
  <2>2. /\ DOMAIN Parts(c) = {1, 2, 3} /\ Parts(c)[1] = r.body
        /\ Parts(c)[2] = Encoded("json", r.headers) /\ Parts(c)[3] = r.url
    BY <1>5, PartsOf
  <2>0. /\ r.body \in Seq(ToSet(r.body)) /\ r.url \in Seq(ToSet(r.url))
        /\ Encoded("json", r.headers) \in Seq(ToSet(Encoded("json", r.headers)))
    BY <1>0, <1>5
  <2> HIDE DEF heard, r
  <2>3. /\ SoundLog(a) /\ Heeded(a, r.body, "network") /\ log.events \subseteq a.events
        /\ \A e \in a.events : e \in log.events \/ e.channel = "network"
    BY <2>0, <1>2
  <2> HIDE DEF a
  <2>4. /\ SoundLog(b) /\ Heeded(b, Encoded("json", r.headers), "network") /\ a.events \subseteq b.events
        /\ \A e \in b.events : e \in a.events \/ e.channel = "network"
    BY <2>0, <1>2, <2>3
  <2> HIDE DEF b
  <2>5. /\ SoundLog(d) /\ Heeded(d, r.url, "network") /\ b.events \subseteq d.events
        /\ \A e \in d.events : e \in b.events \/ e.channel = "network"
    BY <2>0, <1>2, <2>4
  <2> HIDE DEF d
  <2>6. Heeded(d, r.body, "network") /\ Heeded(d, Encoded("json", r.headers), "network")
    <3>1. a.events \subseteq d.events
      BY <2>4, <2>5
    <3> QED BY <2>3, <2>4, <2>5, <3>1, StaysHeeded
  <2> QED BY <2>1, <2>2, <2>3, <2>4, <2>5, <2>6
<1> QED BY <1>3, <1>4, <1>5

-------------------------------------------------------------------------------
(* The steps. *)

(* What the run was started with determines what arrives and what is found. *)
LEMMA Frozen ==
    ASSUME UNCHANGED <<setup, config, secrets>>
    PROVE  /\ \A i : Output(i)' = Output(i) /\ Received(i)' = Received(i)
           /\ \A t, channel : Found(t, channel)' = Found(t, channel)
           /\ \A c : Parts(c)' = Parts(c) /\ Host(c)' = Host(c)
           /\ SetupFixed => SetupFixed'
<1>1. \A i : Output(i)' = Output(i)
  BY DEF Output
<1>2. \A i : FromExcluded(i)' = FromExcluded(i)
  BY DEF FromExcluded, Output
<1>3. \A i : LookupTold(i)' = LookupTold(i)
  BY <1>1, <1>2 DEF LookupTold, Mode
<1>4. \A i : Received(i)' = Received(i)
  BY <1>1, <1>2, <1>3 DEF Received
<1>5. \A t, channel : Found(t, channel)' = Found(t, channel)
  BY DEF Found, Mode
<1>6. \A c : Host(c)' = Host(c) /\ Request(c)' = Request(c)
  BY DEF Host, Request
<1>7. \A c : Allowed(c)' = Allowed(c)
  BY DEF Allowed, Host, Request
<1>8. \A c : Parts(c)' = Parts(c)
  BY <1>6, <1>7 DEF Parts
<1>9. SetupFixed => SetupFixed'
  BY DEF SetupFixed
<1> QED BY <1>1, <1>4, <1>5, <1>6, <1>8, <1>9

(* What arrives is a text. *)
LEMMA Arriving ==
    ASSUME SetupFixed, NEW i \in DOMAIN setup.outputs
    PROVE  /\ Received(i) \in Seq(ToSet(Received(i)))
           /\ Output(i).channel \in {"stdout", "stderr", "dns"} /\ Output(i).channel \in Channels
<1> DEFINE text == Output(i).text
<1>1. text \in Seq(ToSet(text)) /\ Output(i).channel \in {"stdout", "stderr", "dns"}
  BY OutputsAssumption DEF SetupFixed, Output
<1> HIDE DEF text
<1>2. PreRedact(secrets, text) \in Seq(Alphabet(text))
  BY <1>1, ChildRedacts
<1>3. PreRedact(secrets, text) \in Seq(ToSet(PreRedact(secrets, text)))
  BY <1>2, OwnSymbols
<1>4. <<>> \in Seq(ToSet(<<>>))
  BY EmptySeq
<1>5. Received(i) \in {text, <<>>, PreRedact(secrets, text)}
  BY DEF Received, text
<1> QED BY <1>1, <1>3, <1>4, <1>5 DEF Channels

(* The invariant makes a sound log. *)
LEMMA LogSound ==
    IInv <=> TypeOK /\ SoundLog(log) /\ SetupFixed /\ PrintedRedacted /\ LeaksRecorded
             /\ EventsFound /\ ReportFinal
BY DEF IInv, TypeOK, SoundLog, RecentRecorded

(* What is heard is known to be heeded. *)
LEMMA HeardHeeded ==
    LeaksRecorded <=> \A h \in Heard : Heeded(log, h[2], h[1])
BY DEF LeaksRecorded, Heeded

(* The run starts with clean books. *)
LEMMA Initial ==
    ASSUME Init
    PROVE  IInv
<1>1. DOMAIN log = {"events", "recent"} /\ log.events = {} /\ log.recent = {}
  BY DEF Init
<1>2. SetupFixed
  BY DEF Init, SetupFixed
<1>3. DOMAIN printed = {} /\ DOMAIN certs = {} /\ DOMAIN conn = DOMAIN setup.requests
  BY DEF Init
<1>4. TypeOK
  <2>1. config.channels \in [Channels -> Modes]
    BY <1>2, EveryChannelHasMode DEF SetupFixed
  <2>2. \A i \in DOMAIN secrets : secrets[i].source \in {"env", "file"}
    BY <1>2, SecretsSound, MembersOf DEF SoundSecret
  <2>3. conn \in [DOMAIN setup.requests -> Statuses]
    BY DEF Init, Statuses
  <2>4. expiries \in 0 .. MaxExpiries /\ done \subseteq DOMAIN setup.outputs /\ report \subseteq log.events
    BY SessionAssumption DEF Init
  <2>5. killed \in BOOLEAN /\ phase \in {"running", "done", "crashed"}
    BY DEF Init
  <2>6. DOMAIN printed \subseteq done /\ DOMAIN certs \subseteq {Host(c) : c \in DOMAIN conn}
    BY <1>3
  <2> QED BY <1>1, <2>1, <2>2, <2>3, <2>4, <2>5, <2>6 DEF TypeOK
<1>5. Heard = {}
  <2>1. \A c \in DOMAIN conn : conn[c] = "idle"
    BY DEF Init
  <2> QED BY <2>1 DEF Init, Heard
<1>6. PrintedRedacted /\ LeaksRecorded /\ RecentRecorded /\ EventsFound /\ ReportFinal
  BY <1>1, <1>3, <1>5 DEF Init, PrintedRedacted, LeaksRecorded, RecentRecorded, EventsFound, ReportFinal
<1> QED BY <1>2, <1>4, <1>6 DEF IInv

(* A step without output keeps the books, if all it adds to the log is about the
   network. *)
LEMMA BooksKept ==
    ASSUME IInv, UNCHANGED <<setup, config, secrets, done, printed>>,
           SoundLog(log'), log.events \subseteq log'.events,
           \A e \in log'.events : e \in log.events \/ e.channel = "network"
    PROVE  /\ SetupFixed' /\ PrintedRedacted' /\ EventsFound' /\ SoundLog(log)'
           /\ \A h \in Heard : Heeded(log', h[2], h[1])
<1>0. SetupFixed /\ PrintedRedacted /\ LeaksRecorded /\ EventsFound
  BY DEF IInv
<1>1. SetupFixed'
  BY <1>0, Frozen
<1>2. PrintedRedacted'
  <2>1. printed' = printed
    OBVIOUS
  <2>2. \A i : Output(i)' = Output(i) /\ Received(i)' = Received(i)
    BY Frozen
  <2>3. \A t, channel : Found(t, channel)' = Found(t, channel)
    BY Frozen
  <2> QED BY <1>0, <2>1, <2>2, <2>3 DEF PrintedRedacted
<1>3. EventsFound'
  <2>1. done' = done
    OBVIOUS
  <2>2. \A i : Output(i)' = Output(i) /\ Received(i)' = Received(i)
    BY Frozen
  <2>3. \A t, channel : Found(t, channel)' = Found(t, channel)
    BY Frozen
  <2> QED BY <1>0, <2>1, <2>2, <2>3 DEF EventsFound
<1>4. SoundLog(log)'
  BY DEF SoundLog
<1>5. \A h \in Heard : Heeded(log', h[2], h[1])
  BY <1>0, HeardHeeded, StaysHeeded
<1> QED BY <1>1, <1>2, <1>3, <1>4, <1>5

(* What was scanned of connections. *)
LEMMA HeardOf ==
    \A h : h \in Heard <=>
        \/ \E i \in done : h = <<Output(i).channel, Received(i)>>
        \/ \E c \in DOMAIN conn : /\ conn[c] \in {"forwarded", "severed"}
                                /\ \E k \in DOMAIN Parts(c) : h = <<"network", Parts(c)[k]>>
BY DEF Heard

(* A connection comes a step further: its request has been scanned when it is
   forwarded or severed. *)
LEMMA ConnStep ==
    ASSUME IInv, NEW c, NEW from, NEW to \in Statuses, Step(c, from, to),
           from \notin {"forwarded", "severed"},
           UNCHANGED <<setup, config, secrets, expiries, done, printed, killed, report>>,
           (log' = log /\ to \notin {"forwarded", "severed"}) \/ log' = Scanned(log, c),
           phase' \in {"running", "crashed"},
           DOMAIN certs' \subseteq DOMAIN certs \cup {Host(c)}
    PROVE  IInv'
<1>0. /\ SetupFixed /\ TypeOK /\ PrintedRedacted /\ LeaksRecorded /\ EventsFound
      /\ SoundLog(log) /\ c \in DOMAIN conn
  BY LogSound DEF Step
<1>a. c \in DOMAIN setup.requests
  BY <1>0 DEF TypeOK
<1>1. /\ SoundLog(log') /\ log.events \subseteq log'.events
      /\ \A e \in log'.events : e \in log.events \/ e.channel = "network"
  BY <1>0, <1>a, Scanning
<1>2. /\ SetupFixed' /\ PrintedRedacted' /\ EventsFound' /\ SoundLog(log)'
      /\ \A h \in Heard : Heeded(log', h[2], h[1])
  BY <1>1, BooksKept
<1>3. conn' = [conn EXCEPT ![c] = to] /\ phase = "running"
  BY DEF Step
<1>4. TypeOK'
  <2>1. config'.channels \in [Channels -> Modes] /\ \A i \in DOMAIN secrets' : secrets'[i].source \in {"env", "file"}
    BY <1>0 DEF TypeOK
  <2>2. SoundLog(log') /\ secrets' = secrets
    BY <1>1
  <2>3. expiries' \in 0 .. MaxExpiries /\ done' \subseteq DOMAIN setup'.outputs /\ DOMAIN printed' \subseteq done'
    BY <1>0 DEF TypeOK
  <2>4. killed' \in BOOLEAN
    BY <1>0, Zenon DEF TypeOK
  <2>5. phase' \in {"running", "done", "crashed"} /\ report' \subseteq log'.events
    BY <1>0, <1>1 DEF TypeOK
  <2>6. conn' \in [DOMAIN setup'.requests -> Statuses] /\ DOMAIN conn' = DOMAIN conn
    BY <1>0, <1>3 DEF TypeOK
  <2>7. DOMAIN certs' \subseteq {Host(x)' : x \in DOMAIN conn'}
    <3>1. \A x : Host(x)' = Host(x)
      BY Frozen
    <3>2. DOMAIN certs \subseteq {Host(x) : x \in DOMAIN conn} /\ Host(c) \in {Host(x) : x \in DOMAIN conn}
      BY <1>0 DEF TypeOK
    <3>3. {Host(x)' : x \in DOMAIN conn'} = {Host(x) : x \in DOMAIN conn}
      BY <2>6, <3>1
    <3> QED BY <3>2, <3>3
  <2> QED BY <2>1, <2>2, <2>3, <2>4, <2>5, <2>6, <2>7 DEF TypeOK, SoundLog
<1>5. ASSUME NEW h \in Heard' PROVE Heeded(log', h[2], h[1])
  <2>1. \A i : <<Output(i).channel, Received(i)>>' = <<Output(i).channel, Received(i)>>
    BY Frozen
  <2>2. \A x : Parts(x)' = Parts(x)
    BY Frozen
  <2>3. \/ \E i \in done' : h = <<Output(i).channel, Received(i)>>'
        \/ \E x \in DOMAIN conn' : /\ conn'[x] \in {"forwarded", "severed"}
                                 /\ \E k \in DOMAIN Parts(x)' : h = <<"network", Parts(x)'[k]>>
    BY <1>5 DEF Heard
  <2>4. CASE \E i \in done' : h = <<Output(i).channel, Received(i)>>'
    <3>1. h \in Heard
      BY <2>1, <2>4, HeardOf
    <3> QED BY <1>2, <3>1
  <2>5. CASE \E x \in DOMAIN conn' : /\ conn'[x] \in {"forwarded", "severed"}
                                  /\ \E k \in DOMAIN Parts(x)' : h = <<"network", Parts(x)'[k]>>
    <3>1. PICK x \in DOMAIN conn' : /\ conn'[x] \in {"forwarded", "severed"}
                                   /\ \E k \in DOMAIN Parts(x) : h = <<"network", Parts(x)[k]>>
      BY <2>2, <2>5
    <3>2. PICK k \in DOMAIN Parts(x) : h = <<"network", Parts(x)[k]>>
      BY <3>1
    <3>3. CASE x # c
      <4>1. x \in DOMAIN conn /\ conn[x] \in {"forwarded", "severed"}
        BY <1>3, <3>1, <3>3
      <4>2. h \in Heard
        BY <3>2, <4>1, HeardOf
      <4> QED BY <1>2, <4>2
    <3>4. CASE x = c
      <4>1. to \in {"forwarded", "severed"}
        BY <1>0, <1>3, <3>1, <3>4
      <4>2. log' = Scanned(log, c)
        BY <4>1
      <4>3. Heeded(log', Parts(c)[k], "network")
        BY <1>0, <1>a, <3>2, <3>4, <4>2, Scanning
      <4>4. h[1] = "network" /\ h[2] = Parts(c)[k]
        BY <3>2, <3>4
      <4> QED BY <4>3, <4>4
    <3> QED BY <3>3, <3>4
  <2> QED BY <2>3, <2>4, <2>5
<1>6. LeaksRecorded'
  <2>1. \A t, channel : Found(t, channel)' = Found(t, channel)
    BY Frozen
  <2> QED BY <1>5, <2>1 DEF LeaksRecorded, Heeded
<1>7. ReportFinal'
  BY DEF ReportFinal
<1>8. RecentRecorded'
  BY <1>1 DEF SoundLog, RecentRecorded
<1> QED BY <1>2, <1>4, <1>6, <1>7, <1>8 DEF IInv

(* An output is handled: it is scanned, and printed as it came or redacted. *)
LEMMA HandleStep ==
    ASSUME IInv, NEW i \in DOMAIN setup.outputs, Handle(i)
    PROVE  IInv'
<1> DEFINE channel == Output(i).channel
           text    == Received(i)
<1>0. /\ SetupFixed /\ TypeOK /\ PrintedRedacted /\ LeaksRecorded /\ EventsFound /\ SoundLog(log)
      /\ channel \in {"stdout", "stderr", "dns"} /\ channel \in Channels
      /\ text \in Seq(ToSet(text))
  BY LogSound, Arriving
<1>1. /\ UNCHANGED <<setup, config, secrets, expiries, conn, certs, phase, report>>
      /\ done' = done \cup {i} /\ i \notin done /\ phase = "running"
      /\ log' = Record(log, text, channel)
      /\ killed' = (killed \/ Blocks(text, channel))
      /\ \/ printed' = printed
         \/ printed' = With(printed, i, IF Found(text, channel) # {} THEN Redact(secrets, text) ELSE text)
  BY DEF Handle
<1> HIDE DEF channel, text
<1>2. SoundLog(log') /\ Heeded(log', text, channel) /\ Grown(log', log, text, channel)
  BY <1>0, <1>1, Recording
<1>3. SetupFixed' /\ SoundLog(log)'
  BY <1>0, <1>1, <1>2, Frozen DEF SoundLog
<1>4. /\ \A j : Output(j)' = Output(j) /\ Received(j)' = Received(j)
      /\ \A t, ch : Found(t, ch)' = Found(t, ch)
      /\ \A x : Parts(x)' = Parts(x) /\ Host(x)' = Host(x)
  BY <1>1, Frozen
<1>5. DOMAIN printed' \subseteq DOMAIN printed \cup {i}
  BY <1>1 DEF With
<1>6. TypeOK'
  <2>1. config'.channels \in [Channels -> Modes] /\ \A j \in DOMAIN secrets' : secrets'[j].source \in {"env", "file"}
    BY <1>0, <1>1 DEF TypeOK
  <2>2. SoundLog(log') /\ secrets' = secrets
    BY <1>1, <1>2
  <2>3. expiries' \in 0 .. MaxExpiries /\ done' \subseteq DOMAIN setup'.outputs /\ DOMAIN printed' \subseteq done'
    BY <1>0, <1>1, <1>5 DEF TypeOK
  <2>4. killed' \in BOOLEAN
    BY <1>1
  <2>5. phase' \in {"running", "done", "crashed"} /\ report' \subseteq log'.events
    BY <1>0, <1>1, <1>2 DEF TypeOK, Grown
  <2>6. conn' \in [DOMAIN setup'.requests -> Statuses]
    BY <1>0, <1>1 DEF TypeOK
  <2>7. DOMAIN certs' \subseteq {Host(x)' : x \in DOMAIN conn'}
    <3>1. {Host(x)' : x \in DOMAIN conn'} = {Host(x) : x \in DOMAIN conn}
      BY <1>1, <1>4
    <3> QED BY <1>0, <1>1, <3>1 DEF TypeOK
  <2> QED BY <2>1, <2>2, <2>3, <2>4, <2>5, <2>6, <2>7 DEF TypeOK, SoundLog
<1>7. PrintedRedacted'
  <2>1. printed' = printed => PrintedRedacted'
    BY <1>0, <1>1, <1>4 DEF PrintedRedacted
  <2>2. ASSUME printed' = With(printed, i, IF Found(text, channel) # {} THEN Redact(secrets, text) ELSE text),
               NEW j \in DOMAIN printed'
        PROVE  printed'[j] = IF Found(Received(j), Output(j).channel) # {}
                               THEN Redact(secrets, Received(j)) ELSE Received(j)
    <3>1. CASE j = i
      BY <2>2, <3>1 DEF With, text, channel
    <3>2. CASE j # i
      <4>1. j \in DOMAIN printed /\ printed'[j] = printed[j]
        BY <2>2, <3>2 DEF With
      <4> QED BY <1>0, <4>1 DEF PrintedRedacted
    <3> QED BY <3>1, <3>2
  <2> QED BY <1>1, <1>4, <2>1, <2>2 DEF PrintedRedacted
<1>8. LeaksRecorded'
  <2>1. ASSUME NEW h \in Heard' PROVE h \in Heard \/ h = <<channel, text>>
    <3>1. \/ \E j \in done' : h = <<Output(j).channel, Received(j)>>
          \/ \E x \in DOMAIN conn : /\ conn[x] \in {"forwarded", "severed"}
                                  /\ \E k \in DOMAIN Parts(x) : h = <<"network", Parts(x)[k]>>
      BY <1>1, <1>4, <2>1 DEF Heard
    <3> QED BY <1>1, <3>1, HeardOf DEF channel, text
  <2>2. ASSUME NEW h \in Heard PROVE Heeded(log', h[2], h[1])
    BY <1>0, <1>2, <2>2, HeardHeeded, StaysHeeded DEF Grown
  <2>3. ASSUME NEW h, h = <<channel, text>> PROVE Heeded(log', h[2], h[1])
    BY <1>2, <2>3
  <2>4. \A h \in Heard' : Heeded(log', h[2], h[1])
    BY <2>1, <2>2, <2>3
  <2> QED BY <1>4, <2>4 DEF LeaksRecorded, Heeded
<1>9. EventsFound'
  <2> SUFFICES ASSUME NEW e \in log'.events, e.channel \in {"stdout", "stderr"}
               PROVE  \E j \in done' : /\ Output(j).channel = e.channel /\ Clamp(Received(j)) = e.content
                                       /\ e.secret \in Found(Received(j), e.channel)
    BY <1>4 DEF EventsFound
  <2>1. CASE e \in log.events
    BY <1>0, <1>1, <2>1 DEF EventsFound
  <2>2. CASE e \notin log.events
    <3>1. e.channel = channel /\ e.content = Clamp(text) /\ e.secret \in Found(text, channel)
      BY <1>2, <2>2 DEF Grown
    <3> QED BY <1>1, <3>1 DEF channel, text
  <2> QED BY <2>1, <2>2
<1>10. ReportFinal' /\ RecentRecorded'
  BY <1>1, <1>2 DEF ReportFinal, RecentRecorded, SoundLog
<1> QED BY <1>3, <1>6, <1>7, <1>8, <1>9, <1>10 DEF IInv

(* An entry of the cache runs out. *)
LEMMA ExpireStep ==
    ASSUME IInv, Expire
    PROVE  IInv'
<1>0. /\ SetupFixed /\ TypeOK /\ LeaksRecorded /\ SoundLog(log)
  BY LogSound
<1>1. /\ UNCHANGED <<setup, config, secrets, done, printed, killed, conn, certs, phase, report>>
      /\ phase = "running" /\ expiries' = expiries + 1 /\ expiries < MaxExpiries
  BY DEF Expire
<1>2. PICK k \in log.recent : log' = [log EXCEPT !.recent = log.recent \ {k}]
  BY DEF Expire
<1>3. /\ DOMAIN log' = {"events", "recent"} /\ log'.events = log.events
      /\ log'.recent = log.recent \ {k}
  BY <1>0, <1>2 DEF SoundLog
<1>4. SoundLog(log')
  BY <1>0, <1>3 DEF SoundLog
<1>5. /\ SetupFixed' /\ PrintedRedacted' /\ EventsFound' /\ SoundLog(log)'
      /\ \A h \in Heard : Heeded(log', h[2], h[1])
  BY <1>1, <1>3, <1>4, BooksKept
<1>6. /\ \A t, ch : Found(t, ch)' = Found(t, ch)
      /\ \A x : Host(x)' = Host(x)
  BY <1>1, Frozen
<1>7. Heard' = Heard
  <2>1. /\ \A j : Output(j)' = Output(j) /\ Received(j)' = Received(j)
        /\ \A x : Parts(x)' = Parts(x)
    BY <1>1, Frozen
  <2> QED BY <1>1, <2>1 DEF Heard
<1>8. LeaksRecorded'
  BY <1>5, <1>6, <1>7 DEF LeaksRecorded, Heeded
<1>9. TypeOK'
  <2>1. config'.channels \in [Channels -> Modes] /\ \A j \in DOMAIN secrets' : secrets'[j].source \in {"env", "file"}
    BY <1>0, <1>1 DEF TypeOK
  <2>2. expiries' \in 0 .. MaxExpiries
    BY <1>0, <1>1, SessionAssumption DEF TypeOK
  <2>3. done' \subseteq DOMAIN setup'.outputs /\ DOMAIN printed' \subseteq done'
    BY <1>0, <1>1 DEF TypeOK
  <2>4. killed' \in BOOLEAN
    BY <1>0, <1>1, Zenon DEF TypeOK
  <2>5. phase' \in {"running", "done", "crashed"} /\ report' \subseteq log'.events
    BY <1>0, <1>1, <1>3 DEF TypeOK
  <2>6. conn' \in [DOMAIN setup'.requests -> Statuses]
    BY <1>0, <1>1 DEF TypeOK
  <2>7. DOMAIN certs' \subseteq {Host(x)' : x \in DOMAIN conn'}
    <3>1. {Host(x)' : x \in DOMAIN conn'} = {Host(x) : x \in DOMAIN conn}
      BY <1>1, <1>6
    <3> QED BY <1>0, <1>1, <3>1 DEF TypeOK
  <2>8. SoundLog(log') /\ secrets' = secrets
    BY <1>1, <1>4
  <2> QED BY <2>1, <2>2, <2>3, <2>4, <2>5, <2>6, <2>7, <2>8 DEF TypeOK, SoundLog
<1>10. ReportFinal' /\ RecentRecorded'
  BY <1>1, <1>4 DEF ReportFinal, RecentRecorded, SoundLog
<1> QED BY <1>5, <1>8, <1>9, <1>10 DEF IInv

(* The child exits and the report is written. *)
LEMMA ExitStep ==
    ASSUME IInv, ChildExit
    PROVE  IInv'
<1>0. /\ SetupFixed /\ TypeOK /\ LeaksRecorded /\ SoundLog(log)
  BY LogSound
<1>1. /\ UNCHANGED <<setup, config, secrets, log, expiries, done, printed, killed, conn, certs>>
      /\ phase' = "done" /\ report' = log.events
  BY DEF ChildExit
<1>2. SoundLog(log')
  BY <1>0, <1>1
<1>3. /\ SetupFixed' /\ PrintedRedacted' /\ EventsFound' /\ SoundLog(log)'
      /\ \A h \in Heard : Heeded(log', h[2], h[1])
  BY <1>1, <1>2, BooksKept
<1>4. /\ \A t, ch : Found(t, ch)' = Found(t, ch)
      /\ \A x : Host(x)' = Host(x)
  BY <1>1, Frozen
<1>5. Heard' = Heard
  <2>1. /\ \A j : Output(j)' = Output(j) /\ Received(j)' = Received(j)
        /\ \A x : Parts(x)' = Parts(x)
    BY <1>1, Frozen
  <2> QED BY <1>1, <2>1 DEF Heard
<1>6. LeaksRecorded'
  BY <1>3, <1>4, <1>5 DEF LeaksRecorded, Heeded
<1>7. TypeOK'
  <2>1. config'.channels \in [Channels -> Modes] /\ \A j \in DOMAIN secrets' : secrets'[j].source \in {"env", "file"}
    BY <1>0, <1>1 DEF TypeOK
  <2>2. expiries' \in 0 .. MaxExpiries /\ done' \subseteq DOMAIN setup'.outputs /\ DOMAIN printed' \subseteq done'
    BY <1>0, <1>1 DEF TypeOK
  <2>3. killed' \in BOOLEAN
    BY <1>0, <1>1, Zenon DEF TypeOK
  <2>4. phase' \in {"running", "done", "crashed"} /\ report' \subseteq log'.events
    BY <1>1
  <2>5. conn' \in [DOMAIN setup'.requests -> Statuses]
    BY <1>0, <1>1 DEF TypeOK
  <2>6. DOMAIN certs' \subseteq {Host(x)' : x \in DOMAIN conn'}
    <3>1. {Host(x)' : x \in DOMAIN conn'} = {Host(x) : x \in DOMAIN conn}
      BY <1>1, <1>4
    <3> QED BY <1>0, <1>1, <3>1 DEF TypeOK
  <2>7. SoundLog(log') /\ secrets' = secrets
    BY <1>1, <1>2
  <2> QED BY <2>1, <2>2, <2>3, <2>4, <2>5, <2>6, <2>7 DEF TypeOK, SoundLog
<1>8. ReportFinal' /\ RecentRecorded'
  BY <1>1, <1>2 DEF ReportFinal, RecentRecorded, SoundLog
<1> QED BY <1>3, <1>6, <1>7, <1>8 DEF IInv

(* A connection takes a step: which, and what else changes with it. *)
LEMMA ConnectionSteps ==
    ASSUME IInv, NEW c \in Conns, Direct(c) \/ Ask(c) \/ Handshake(c) \/ Send(c) \/ Answer(c)
    PROVE  IInv'
<1> USE DEF Statuses
<1>1. CASE Direct(c)
  <2>1. Step(c, "idle", "direct") /\ phase' = "running"
    BY <1>1 DEF Direct, Step
  <2> QED BY <1>1, <2>1, ConnStep DEF Direct
<1>2. CASE Ask(c)
  <2>1. Step(c, "idle", "asked") /\ phase' = "running"
    BY <1>2 DEF Ask, Step
  <2> QED BY <1>2, <2>1, ConnStep DEF Ask
<1>3. CASE Handshake(c)
  <2>1. PICK to \in {"secure", "failed"} : Step(c, "established", to)
    BY <1>3 DEF Handshake
  <2>2. phase' = "running"
    BY <1>3, <2>1 DEF Handshake, Step
  <2> QED BY <1>3, <2>1, <2>2, ConnStep DEF Handshake
<1>4. CASE Connect(c)
  <2>1. Step(c, "asked", "established") /\ phase' = "running"
    BY <1>4 DEF Connect, Step
  <2>2. DOMAIN certs' \subseteq DOMAIN certs \cup {Host(c)}
    BY <1>4 DEF Connect, Certify, With
  <2> QED BY <1>4, <2>1, <2>2, ConnStep DEF Connect
<1>5. CASE CertFails(c)
  <2>1. Step(c, "asked", "refused") /\ phase' = "running"
    BY <1>5 DEF CertFails, Step
  <2> QED BY <1>5, <2>1, ConnStep DEF CertFails
<1>6. CASE HttpEnd(c)
  <2>1. Deal(c, "asked")
    BY <1>6 DEF HttpEnd
  <2>2. PICK to \in {"severed", "forwarded", "thrown"} : Step(c, "asked", to)
    BY <2>1 DEF Deal
  <2>3. phase' \in {"running", "crashed"} /\ log' = Scanned(log, c)
    BY <2>1, <2>2 DEF Deal, Step
  <2> QED BY <2>1, <2>2, <2>3, ConnStep DEF Deal
<1>7. CASE Data(c)
  <2>1. Deal(c, "sent")
    BY <1>7 DEF Data
  <2>2. PICK to \in {"severed", "forwarded", "thrown"} : Step(c, "sent", to)
    BY <2>1 DEF Deal
  <2>3. phase' \in {"running", "crashed"} /\ log' = Scanned(log, c)
    BY <2>1, <2>2 DEF Deal, Step
  <2> QED BY <2>1, <2>2, <2>3, ConnStep DEF Deal
<1>8. CASE Send(c)
  <2>1. Step(c, "secure", "sent") /\ phase' = "running"
    BY <1>8 DEF Send, Step
  <2> QED BY <1>8, <2>1, ConnStep DEF Send
<1> QED BY <1>1, <1>2, <1>3, <1>4, <1>5, <1>6, <1>7, <1>8 DEF Answer

(* Nothing else matters to the invariant. *)
LEMMA StutterStep ==
    ASSUME IInv, UNCHANGED vars
    PROVE  IInv'
<1>1. /\ UNCHANGED <<setup, config, secrets, log, expiries, done, printed, killed, conn, certs, phase, report>>
  BY DEF vars
<1>2. SoundLog(log') /\ TypeOK /\ LeaksRecorded /\ ReportFinal /\ RecentRecorded
  BY <1>1, LogSound DEF IInv
<1>3. /\ SetupFixed' /\ PrintedRedacted' /\ EventsFound' /\ SoundLog(log)'
      /\ \A h \in Heard : Heeded(log', h[2], h[1])
  BY <1>1, <1>2, BooksKept
<1>4. /\ \A t, ch : Found(t, ch)' = Found(t, ch)
      /\ \A x : Host(x)' = Host(x) /\ Parts(x)' = Parts(x)
      /\ \A j : Output(j)' = Output(j) /\ Received(j)' = Received(j)
  BY <1>1, Frozen
<1>5. Heard' = Heard
  BY <1>1, <1>4 DEF Heard
<1>6. LeaksRecorded'
  BY <1>3, <1>4, <1>5 DEF LeaksRecorded, Heeded
<1>7. TypeOK'
  <2>1. {Host(x)' : x \in DOMAIN conn'} = {Host(x) : x \in DOMAIN conn}
    BY <1>1, <1>4
  <2> QED BY <1>1, <1>2, <2>1 DEF TypeOK
<1> QED BY <1>1, <1>2, <1>3, <1>6, <1>7 DEF IInv, ReportFinal, RecentRecorded

(* The invariant: nothing changes what a run was started with, what it printed
   was made from that, and what it scanned has left its events. *)
THEOREM Invariance == Spec => []IInv
<1>1. Init => IInv
  BY Initial
<1>2. IInv /\ [Next]_vars => IInv'
  <2> SUFFICES ASSUME IInv, [Next]_vars PROVE IInv'
    OBVIOUS
  <2>1. CASE Next
    <3>1. CASE Expire
      BY <3>1, ExpireStep
    <3>2. CASE ChildExit
      BY <3>2, ExitStep
    <3>3. ASSUME NEW i \in DOMAIN setup.outputs, Handle(i) PROVE IInv'
      BY <3>3, HandleStep
    <3>4. ASSUME NEW c \in Conns, Direct(c) \/ Ask(c) \/ Handshake(c) \/ Send(c) \/ Answer(c) PROVE IInv'
      BY <3>4, ConnectionSteps
    <3> QED BY <2>1, <3>1, <3>2, <3>3, <3>4 DEF Next
  <2>2. CASE UNCHANGED vars
    BY <2>2, StutterStep
  <2> QED BY <2>1, <2>2
<1> QED BY <1>1, <1>2, PTL DEF Spec

(* Every variable keeps its type. *)
THEOREM TypeCorrect == Spec => []TypeOK
<1>1. IInv => TypeOK
  BY DEF IInv
<1> QED BY <1>1, Invariance, PTL

(* The validator and the merger agree about the file of every run. *)
THEOREM SettingsAgree == Spec => []ValidatorAndMergerAgree
<1>1. IInv => ValidatorAndMergerAgree
  <2> SUFFICES ASSUME IInv, NEW p \in SettingPaths
               PROVE  LET v      == Written(setup.file, p)
                          errors == load(setup.file).errors
                      IN  IF Is("undefined", v) \/ Rejected(errors, p)
                            THEN InEffect(config, p) = InEffect(DefaultConfig, p)
                            ELSE ComesTo(v, InEffect(config, p))
    BY DEF ValidatorAndMergerAgree
  <2>1. IsFile(setup.file) /\ config = load(setup.file).config
    BY SessionAssumption DEF IInv, SetupFixed
  <2>2. Agree(setup.file, p)
    BY <2>1, FileJudgedAlike
  <2> QED BY <2>1, <2>2 DEF Agree
<1> QED BY <1>1, Invariance, PTL

(* Every secret the application can see is guarded, whatever the sources hold. *)
THEOREM SecretsGuarded == Spec => []LiveSecretsGuarded
<1>1. IInv => LiveSecretsGuarded
  <2> SUFFICES ASSUME IInv PROVE LiveSecretsGuarded
    OBVIOUS
  <2> DEFINE E == ToSet(setup.env) \cup ToSet(setup.dotenv)
  <2>1. /\ IsSource(setup.env) /\ IsSource(setup.dotenv)
        /\ secrets = LoadSecrets(setup.env, setup.dotenv, config.entropy)
    BY SessionAssumption DEF IInv, SetupFixed
  <2>2. setup.env \in Seq(E) /\ setup.dotenv \in Seq(E) /\ NamedOnce(setup.env) /\ NamedOnce(setup.dotenv)
    BY <2>1, OwnSymbols DEF IsSource
  <2> HIDE DEF E
  <2>3. Guards(secrets, setup.env, setup.dotenv, config.entropy)
    BY <2>1, <2>2, SourcesGuarded
  <2>4. ASSUME NEW e \in ToSet(setup.env), EnvCandidate(e, config.entropy)
        PROVE  \E s \in ToSet(secrets) : s.value = e.value
    <3>1. PICK j \in DOMAIN setup.env : setup.env[j] = e
      BY <2>4, MembersOf
    <3>2. PICK i \in DOMAIN secrets : secrets[i].value = e.value
      BY <2>3, <2>4, <3>1 DEF Guards
    <3> QED BY <3>2, MembersOf
  <2>5. ASSUME NEW f \in ToSet(setup.dotenv), FileCandidate(f, config.entropy),
               ~(\E e \in ToSet(setup.env) : e.name = f.name)
        PROVE  \E s \in ToSet(secrets) : s.value = f.value
    <3>1. PICK j \in DOMAIN setup.dotenv : setup.dotenv[j] = f
      BY <2>5, MembersOf
    <3>2. \A k \in DOMAIN setup.env : setup.env[k].name # setup.dotenv[j].name
      BY <2>5, <3>1, MembersOf
    <3>3. PICK i \in DOMAIN secrets : secrets[i].value = f.value
      BY <2>3, <2>5, <3>1, <3>2 DEF Guards
    <3> QED BY <3>3, MembersOf
  <2> QED BY <2>4, <2>5 DEF LiveSecretsGuarded
<1> QED BY <1>1, Invariance, PTL

(* Where a secret was found nothing printed holds one. *)
THEOREM PrintedClean == Spec => []PrintedHoldsNoSecret
<1>1. IInv => PrintedHoldsNoSecret
  <2> SUFFICES ASSUME IInv, NEW i \in DOMAIN printed, Mode(Output(i).channel) # "off",
                      NEW r \in ToSet(secrets), Occurs(r.value, Clamp(Received(i))),
                      NEW s \in ToSet(secrets)
               PROVE  ~Occurs(s.value, printed[i])
    BY DEF PrintedHoldsNoSecret
  <2>1. SetupFixed /\ i \in DOMAIN setup.outputs
    BY DEF IInv, TypeOK
  <2>2. Received(i) \in Seq(ToSet(Received(i)))
    BY <2>1, Arriving
  <2>3. r \in Found(Received(i), Output(i).channel)
    BY <2>1, <2>2, Finding
  <2>4. printed[i] = Redact(secrets, Received(i))
    BY <2>3 DEF IInv, PrintedRedacted
  <2> QED BY <2>1, <2>2, <2>4, ParentRedacts
<1> QED BY <1>1, Invariance, PTL

(* Every leak that was scanned is in the report, under its own value. *)
THEOREM LeaksReported == Spec => []EveryLeakReported
<1>1. IInv => EveryLeakReported
  <2> SUFFICES ASSUME IInv, phase = "done", NEW h \in Heard, NEW s \in Found(h[2], h[1])
               PROVE  \E e \in report : e.channel = h[1] /\ e.secret.value = s.value
    BY DEF EveryLeakReported
  <2> QED BY DEF IInv, LeaksRecorded, ReportFinal
<1> QED BY <1>1, Invariance, PTL

(* An excluded writer raises an event for an encoding of a secret only. *)
THEOREM ExcludedStaySilent == Spec => []ExcludedWritersRaiseNothing
<1>1. IInv => ExcludedWritersRaiseNothing
  <2> SUFFICES ASSUME IInv, NEW e \in log.events, e.channel \in {"stdout", "stderr"}
               PROVE  \E i \in done :
                         /\ Output(i).channel = e.channel /\ Clamp(Received(i)) = e.content
                         /\ ~FromExcluded(i) \/ \E v \in Variants(e.secret, config.entropy) :
                                                    Occurs(v, Output(i).text)
    BY DEF ExcludedWritersRaiseNothing
  <2>1. PICK i \in done : /\ Output(i).channel = e.channel /\ Clamp(Received(i)) = e.content
                         /\ e.secret \in Found(Received(i), e.channel)
    BY DEF IInv, EventsFound
  <2>2. ASSUME FromExcluded(i)
        PROVE  \E v \in Variants(e.secret, config.entropy) : Occurs(v, Output(i).text)
    <3> DEFINE s    == e.secret
               text == Output(i).text
               left == Received(i)
    <3>1. SetupFixed /\ i \in DOMAIN setup.outputs /\ s \in ToSet(secrets)
      BY DEF IInv, TypeOK
    <3>2. text \in Seq(ToSet(text))
      BY <3>1, OutputsAssumption DEF SetupFixed, Output
    <3>3. left = PreRedact(secrets, text)
      BY <2>1, <2>2 DEF Received
    <3> HIDE DEF s, text, left
    <3>4. /\ left \in Seq(Alphabet(text)) /\ ~Occurs(s.value, left)
          /\ \A v \in Variants(s, config.entropy) : Occurs(v, left) => Occurs(v, text)
      BY <3>1, <3>2, <3>3, ChildRedacts
    <3>5. /\ s.value \in Seq(Alphabet(text)) /\ s.value # <<>>
          /\ \A v \in Variants(s, config.entropy) : v \in Seq(Alphabet(text)) /\ v # <<>>
      BY <3>1, <3>2, AlphabetFits
    <3>6. ~Occurs(s.value, Clamp(left))
      BY <3>4, <3>5, ClampOccurs
    <3>7. s \in FindIn(secrets, config.entropy, Clamp(left))
      BY <2>1 DEF Found, left, s
    <3>8. PICK v \in Variants(s, config.entropy) : Occurs(v, Clamp(left))
      BY <3>6, <3>7 DEF FindIn
    <3>9. Occurs(v, left)
      BY <3>4, <3>5, <3>8, ClampOccurs
    <3> QED BY <3>4, <3>8, <3>9 DEF s, text
  <2> QED BY <2>1, <2>2
<1> QED BY <1>1, Invariance, PTL

(* Beyond the request line, the Host header and the names of the headers, the
   report shows the secret of an event only where it was found repeatedly. *)
THEOREM RepeatsOnly == Spec => []ReportShowsOnlyRepeats
<1>1. IInv => ReportShowsOnlyRepeats
  <2> DEFINE AsIs(e) ==
        LET value   == e.secret.value
            request == IF e.channel = "network" THEN Parse(e.content) ELSE Unparsed
        IN  /\ request.parsed
            /\ \/ Occurs(value, request.method \o <<Blank>> \o request.url)
               \/ Occurs(value, request.host)
               \/ \E k \in DOMAIN request.headers :
                     \E i \in Places(value, k \o <<Colon>> \o request.headers[k]) :
                         i <= Len(k) + 1
  <2> SUFFICES ASSUME IInv, NEW e \in report, NEW p \in Context(e), Occurs(e.secret.value, p)
               PROVE  Cardinality(Places(e.secret.value, e.content)) > 1 \/ AsIs(e)
    BY DEF ReportShowsOnlyRepeats
  <2> DEFINE value == e.secret.value
             A     == Alphabet(e.content) \cup {Withheld[1], Crlf, Colon}
  <2>1. /\ SetupFixed /\ e.secret \in ToSet(secrets)
        /\ e.content \in Seq(ToSet(e.content))
    BY DEF IInv, TypeOK
  <2>2. /\ e.content \in Seq(Alphabet(e.content)) /\ Hash[1] \in Alphabet(e.content)
        /\ value \in Seq(Alphabet(e.content)) /\ value # <<>>
    BY <2>1, AlphabetFits
  <2>3. /\ e.content \in Seq(A) /\ value \in Seq(A)
        /\ {Hash[1], Withheld[1], Crlf, Colon} \subseteq A
    <3>1. Alphabet(e.content) \subseteq A
      OBVIOUS
    <3> QED BY <2>2, <3>1, SeqMonotonic
  <2>4. \A d \in DOMAIN value : value[d] # Hash[1] /\ value[d] # Withheld[1]
    <3>1. IsText(value)
      BY <2>1, SecretsSound DEF SoundSecret
    <3> QED BY <3>1 DEF IsText, ToSet
  <2> HIDE DEF A
  <2>5. \/ Cardinality(Places(value, e.content)) > 1
        \/ /\ e.channel = "network" /\ Parse(e.content).parsed
           /\ ShownAsIs(value, Parse(e.content))
    BY <2>2, <2>3, <2>4, ContextShows
  <2> QED BY <2>5 DEF ShownAsIs, BeginsInName
<1> QED BY <1>1, Invariance, PTL

-------------------------------------------------------------------------------
(* Connections are egress gates. *)

Fwd(c)  == IF conn[c] = "forwarded" THEN 1 ELSE 0
Open(c) == phase = "running" /\ conn[c] \in {"idle", "asked", "established", "secure", "sent"}

(* The parcel of a connection is fixed, as its request is. *)
LEMMA ParcelFixed ==
    ASSUME UNCHANGED <<setup, config, secrets>>
    PROVE  \A c : Parcel(c)' = Parcel(c)
<1>1. \A c : Request(c)' = Request(c) /\ Allowed(c)' = Allowed(c)
  BY DEF Request, Allowed, Host
<1>2. \A c : Secretive(c)' = Secretive(c)
  BY <1>1 DEF Secretive
<1> QED BY <1>1, <1>2 DEF Parcel, Mode

(* No secret occurs in the empty text. *)
LEMMA EmptyHoldsNone ==
    ASSUME SetupFixed
    PROVE  FindIn(secrets, config.entropy, Clamp(<<>>)) = {}
<1>1. <<>> \in Seq(ToSet(<<>>)) /\ <<>> \in Seq(Alphabet(<<>>))
  BY EmptySeq
<1>2. ASSUME NEW s \in ToSet(secrets) PROVE ~Occurs(s.value, Clamp(<<>>))
  <2>1. s.value \in Seq(Alphabet(<<>>)) /\ s.value # <<>>
    BY <1>1, <1>2, AlphabetFits
  <2> QED BY <1>1, <2>1, ClampOccurs
<1>3. ASSUME NEW s \in ToSet(secrets), NEW v \in Variants(s, config.entropy)
      PROVE  ~Occurs(v, Clamp(<<>>))
  <2>1. v \in Seq(Alphabet(<<>>)) /\ v # <<>>
    BY <1>1, <1>3, AlphabetFits
  <2> QED BY <1>1, <2>1, ClampOccurs
<1> QED BY <1>2, <1>3 DEF FindIn

(* A request that is not blocked leaks nothing that its parcel guards. *)
LEMMA UnblockedLeaksNothing ==
    ASSUME SetupFixed, NEW c, ~RequestBlocked(c), ~Allowed(c), Mode("network") = "block"
    PROVE  ~Secretive(c)
<1>1. \A k \in DOMAIN Parts(c) : Found(Parts(c)[k], "network") = {}
  BY DEF RequestBlocked, Blocks
<1>2. \A t : Found(t, "network") = {} => FindIn(secrets, config.entropy, Clamp(t)) = {}
  BY EmptyHoldsNone DEF Found
<1>3. CASE Request(c).scheme = "https"
  <2>1. DOMAIN Parts(c) = {1} /\ Parts(c)[1] = Request(c).text
    BY <1>3, PartsOf
  <2>2. FindIn(secrets, config.entropy, Clamp(Request(c).text)) = {}
    BY <1>1, <1>2, <2>1
  <2> QED BY <1>3, <2>2 DEF Secretive
<1>4. CASE Request(c).scheme # "https"
  <2>1. /\ DOMAIN Parts(c) = {1, 2, 3} /\ Parts(c)[1] = Request(c).body
        /\ Parts(c)[2] = Encoded("json", Request(c).headers) /\ Parts(c)[3] = Request(c).url
    BY <1>4, PartsOf
  <2>2. /\ Found(Request(c).body, "network") = {} /\ Found(Request(c).url, "network") = {}
        /\ Found(Encoded("json", Request(c).headers), "network") = {}
    BY <1>1, <2>1
  <2>3. /\ FindIn(secrets, config.entropy, Clamp(Request(c).body)) = {}
        /\ FindIn(secrets, config.entropy, Clamp(Request(c).url)) = {}
        /\ FindIn(secrets, config.entropy, Clamp(Encoded("json", Request(c).headers))) = {}
    BY <1>2, <2>2
  <2> QED BY <1>4, <2>3 DEF Secretive
<1> QED BY <1>3, <1>4

(* Every step is one of a connection's, or leaves all of them where they are. *)
LEMMA GateSteps ==
    ASSUME IInv, Next, NEW c \in DOMAIN conn
    PROVE  /\ UNCHANGED <<setup, config, secrets>> /\ phase = "running"
           /\ \/ conn'[c] = conn[c]
              \/ /\ conn[c] \in {"idle", "asked", "established", "secure", "sent"} /\ phase' \in {"running", "crashed"}
                 /\ conn'[c] = "forwarded" => ~RequestBlocked(c) /\ phase' = "running"
<1>1. conn \in [DOMAIN setup.requests -> Statuses]
  BY DEF IInv, TypeOK
<1>2. CASE Expire \/ ChildExit
  BY <1>2 DEF Expire, ChildExit
<1>3. ASSUME NEW i, Handle(i)
      PROVE  UNCHANGED <<setup, config, secrets, conn>> /\ phase = "running"
  BY <1>3 DEF Handle
<1>4. ASSUME NEW x, NEW from, NEW to, Step(x, from, to), x # c
      PROVE  conn'[c] = conn[c]
  BY <1>4 DEF Step
<1>5. ASSUME NEW from, NEW to, Step(c, from, to)
      PROVE  conn[c] = from /\ conn'[c] = to
  BY <1>1, <1>5 DEF Step
<1>6. ASSUME NEW x, NEW from, NEW to, Step(x, from, to) PROVE phase = "running"
  BY <1>6 DEF Step
<1>7. ASSUME NEW x, Direct(x) \/ Ask(x) \/ Connect(x) \/ CertFails(x) \/ Handshake(x) \/ Send(x)
      PROVE  /\ UNCHANGED <<setup, config, secrets, phase>>
             /\ \E from \in {"idle", "asked", "established", "secure"},
                    to \in {"direct", "asked", "established", "refused", "secure", "failed", "sent"} : Step(x, from, to)
  BY <1>7, Zenon DEF Direct, Ask, Connect, CertFails, Handshake, Send
<1>8. ASSUME NEW x, HttpEnd(x) \/ Data(x)
      PROVE  /\ UNCHANGED <<setup, config, secrets>>
             /\ \E from \in {"asked", "sent"}, to \in {"severed", "forwarded", "thrown"} :
                   /\ Step(x, from, to) /\ phase' \in {phase, "crashed"}
                   /\ to = "forwarded" => ~RequestBlocked(x) /\ phase' = phase
  BY <1>8, Zenon DEF HttpEnd, Data, Deal
<1>9. CASE \E x \in Conns : Direct(x) \/ Ask(x) \/ Connect(x) \/ CertFails(x) \/ Handshake(x) \/ Send(x)
  <2>1. PICK x \in Conns : Direct(x) \/ Ask(x) \/ Connect(x) \/ CertFails(x) \/ Handshake(x) \/ Send(x)
    BY <1>9
  <2>2. PICK from \in {"idle", "asked", "established", "secure"},
             to \in {"direct", "asked", "established", "refused", "secure", "failed", "sent"} : Step(x, from, to)
    BY <1>7, <2>1
  <2>3. UNCHANGED <<setup, config, secrets, phase>> /\ phase = "running"
    BY <1>6, <1>7, <2>1, <2>2
  <2> QED BY <1>4, <1>5, <2>2, <2>3
<1>10. CASE \E x \in Conns : HttpEnd(x) \/ Data(x)
  <2>1. PICK x \in Conns : HttpEnd(x) \/ Data(x)
    BY <1>10
  <2>2. PICK from \in {"asked", "sent"}, to \in {"severed", "forwarded", "thrown"} :
           /\ Step(x, from, to) /\ phase' \in {phase, "crashed"}
           /\ to = "forwarded" => ~RequestBlocked(x) /\ phase' = phase
    BY <1>8, <2>1
  <2>3. UNCHANGED <<setup, config, secrets>> /\ phase = "running"
    BY <1>6, <1>8, <2>1, <2>2
  <2> QED BY <1>4, <1>5, <2>2, <2>3
<1> QED BY <1>2, <1>3, <1>9, <1>10 DEF Next, Answer

(* Every connection implements the gate: what is forwarded leaves in one step,
   through an open gate, and never with a secret that is guarded. *)
THEOREM GatesImplemented == Spec => ConnectionsAreGates
<1>1. ASSUME Init, NEW c \in DOMAIN conn PROVE Gate(c)!Init
  <2>1. conn[c] = "idle" /\ phase = "running"
    BY <1>1 DEF Init
  <2>2. Parcel(c) \in [enforced : BOOLEAN, length : {1}, guarded : SUBSET {[first |-> 1, last |-> 1]}]
    <3> DEFINE whole == [first |-> 1, last |-> 1]
               enforced == ~Allowed(c) /\ Mode("network") = "block"
               guarded == IF Secretive(c) THEN {whole} ELSE {}
    <3>1. enforced \in BOOLEAN /\ guarded \in SUBSET {whole}
      OBVIOUS
    <3>2. Parcel(c) = [enforced |-> enforced, length |-> 1, guarded |-> guarded]
      BY DEF Parcel
    <3> HIDE DEF enforced, guarded, whole
    <3>3. Parcel(c) \in [enforced : BOOLEAN, length : {1}, guarded : SUBSET {whole}]
      BY <3>1, <3>2
    <3> QED BY <3>3 DEF whole
  <2> QED BY <2>1, <2>2 DEF Gate!Init
<1>2. ASSUME IInv, [Next]_vars, NEW c \in DOMAIN conn
      PROVE  Gate(c)!Next \/ UNCHANGED Gate(c)!vars
  <2>1. CASE UNCHANGED vars
    <3>1. UNCHANGED <<setup, config, secrets, conn, phase>>
      BY <2>1 DEF vars
    <3>2. Parcel(c)' = Parcel(c)
      BY <3>1, ParcelFixed
    <3> QED BY <3>1, <3>2 DEF Gate!vars
  <2>2. CASE Next
    <3>1. /\ UNCHANGED <<setup, config, secrets>> /\ phase = "running"
          /\ \/ conn'[c] = conn[c]
             \/ /\ conn[c] \in {"idle", "asked", "established", "secure", "sent"} /\ phase' \in {"running", "crashed"}
                /\ conn'[c] = "forwarded" => ~RequestBlocked(c) /\ phase' = "running"
      BY <1>2, <2>2, GateSteps
    <3>2. Parcel(c)' = Parcel(c)
      BY <3>1, ParcelFixed
    <3>3. Fwd(c) \in {0, 1} /\ Open(c) \in BOOLEAN /\ Open(c)' \in BOOLEAN
      BY DEF Fwd, Open
    <3>4. CASE Fwd(c)' = Fwd(c) /\ Open(c)' = Open(c)
      BY <3>2, <3>4 DEF Gate!vars, Fwd, Open
    <3>5. CASE Fwd(c)' = Fwd(c) /\ Open(c)' # Open(c)
      <4>1. Open(c) /\ ~Open(c)'
        BY <3>1, <3>5 DEF Open
      <4> QED BY <3>2, <3>5, <4>1 DEF Gate!Next, Gate!Close, Fwd, Open
    <3>6. CASE Fwd(c)' # Fwd(c)
      <4>1. Open(c) /\ Fwd(c) = 0 /\ Fwd(c)' = 1 /\ ~RequestBlocked(c)
        BY <3>1, <3>6 DEF Open, Fwd
      <4>2. Parcel(c).length = 1
        BY DEF Parcel
      <4>3. ~(Parcel(c).enforced /\ \E s \in Parcel(c).guarded : s.last <= 1)
        <5>1. ASSUME ~Allowed(c), Mode("network") = "block" PROVE ~Secretive(c)
          BY <1>2, <4>1, <5>1, UnblockedLeaksNothing DEF IInv
        <5> QED BY <5>1 DEF Parcel
      <4>4. Gate(c)!Forward
        BY <3>2, <3>3, <4>1, <4>2, <4>3 DEF Gate!Forward, Gate!Leaks, Fwd, Open
      <4> QED BY <4>4 DEF Gate!Next
    <3> QED BY <3>4, <3>5, <3>6
  <2> QED BY <1>2, <2>1, <2>2
<1>3. Init => \A c \in DOMAIN conn : Gate(c)!Init
  BY <1>1
<1>4. IInv /\ [Next]_vars => [\A c \in DOMAIN conn : Gate(c)!Next \/ UNCHANGED Gate(c)!vars]_vars
  BY <1>2
<1> QED BY <1>3, <1>4, Invariance, PTL DEF Spec, ConnectionsAreGates
===============================================================================
