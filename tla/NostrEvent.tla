----------------------------- MODULE NostrEvent ------------------------------
(***************************************************************************)
(* Events, encrypted payloads, gift wraps and relay frames of the client   *)
(* library (omachat-nostr/src/event.rs, gift_wrap.rs, frame.rs, auth.rs    *)
(* and omachat-crypto/src/nip44.rs) as operators.                          *)
(*                                                                         *)
(* An operator that can fail gives the set of its results: {} stands for   *)
(* every error the code returns, and a set of several results for the      *)
(* random choices it makes.                                                *)
(*                                                                         *)
(* A key pair is one value.  The id of an event is the record of the       *)
(* fields it hashes; a signature is the key that made it and the id it     *)
(* covers (hash, signature and cipher are taken to be perfect).  Content   *)
(* is a record with its length in bytes and a body.                        *)
(***************************************************************************)
EXTENDS Integers, Sequences, FiniteSets

CONSTANTS
    MaxSerialized, MaxContent, MaxTags,  \* EventLimits
    MaxFuture,                           \* EventLimits::max_future_seconds
    Envelope,      \* bytes of an event's JSON other than its content
    Skew,          \* MAX_TIMESTAMP_SKEW_SECONDS
    Url            \* the endpoints that parse, as url::Url reads them

ASSUME EventAssumption ==
    \A n \in {MaxSerialized, MaxContent, MaxTags, MaxFuture, Envelope, Skew} : n \in Nat

\* The components of a parsed URL the code looks at; canon is to_string().
ParsedUrl ==
    [scheme: {"wss", "ws", "https"}, host: {"name", "v4loopback", "v6loopback"},
     user: BOOLEAN, query: BOOLEAN, fragment: BOOLEAN, canon: DOMAIN Url]

\* What url::Url prints it reads back as the same URL.
ASSUME UrlAssumption ==
    /\ IsFiniteSet(DOMAIN Url) /\ Url \in [DOMAIN Url -> ParsedUrl]
    /\ \A u \in DOMAIN Url : Url[Url[u].canon] = Url[u]

Least(n, m) == IF n <= m THEN n ELSE m
Minus(n, m) == IF n >= m THEN n - m ELSE 0   \* saturating_sub

Text(n, b) == [len |-> n, body |-> b]
NoText == Text(0, "")

(***************************************************************************)
(* Events.                                                                 *)
(***************************************************************************)
Unsigned(pubkey, at, kind, tags, content) ==
    [pubkey |-> pubkey, created_at |-> at, kind |-> kind, tags |-> tags, content |-> content]

Fields(e) == Unsigned(e.pubkey, e.created_at, e.kind, e.tags, e.content)

SerializedLen(e) == Envelope + e.content.len

\* UnsignedEvent::validate.
Valid(u) == u.content.len <= MaxContent /\ Len(u.tags) <= MaxTags

\* UnsignedEvent::new followed by sign_with_aux.
Sign(secret, u) ==
    {[pubkey |-> u.pubkey, created_at |-> u.created_at, kind |-> u.kind, tags |-> u.tags,
      content |-> u.content, id |-> i, sig |-> [by |-> secret, of |-> i]] :
        i \in {j \in {Fields(u)} : Valid(u) /\ u.pubkey = secret}}

\* SignedEvent::verify: size, time, limits, id, signature.
Verify(e, now) ==
    /\ SerializedLen(e) <= MaxSerialized
    /\ e.created_at <= now + MaxFuture
    /\ Valid(e)
    /\ e.id = Fields(e)
    /\ e.sig = [by |-> e.pubkey, of |-> e.id]

\* The positions of the p tags of an event.
PTags(e) == {i \in DOMAIN e.tags : e.tags[i][1] = "p"}

(***************************************************************************)
(* NIP-44 payloads.                                                        *)
(***************************************************************************)
MaxPlaintext == 1048576
ExtendedPrefix == 65536

NextPower(n) == 2 ^ (CHOOSE k \in 0..20 : n <= 2 ^ k /\ \A j \in 0..(k - 1) : 2 ^ j < n)

\* calc_padded_len for a length of at least 1.
PaddedLen(n) ==
    LET chunk == IF NextPower(n) <= 256 THEN 32 ELSE NextPower(n) \div 8
    IN IF n <= 32 THEN 32 ELSE ((n - 1) \div chunk + 1) * chunk

PrefixLen(n) == IF n >= ExtendedPrefix THEN 6 ELSE 2

\* pad: what is written for a plaintext of n bytes, by its length field (the
\* low 16 bits, or 0 and the 32 bits) and its total length.
Pad(n) ==
    IF n = 0 \/ n > MaxPlaintext THEN {}
    ELSE {[first |-> IF n >= ExtendedPrefix THEN 0 ELSE n % 65536, wide |-> n,
           total |-> PrefixLen(n) + PaddedLen(n)]}

\* unpad: the length of the plaintext.
Unpad(p) ==
    LET n == IF p.first = 0 THEN p.wide ELSE p.first
    IN IF \/ p.first = 0 /\ (p.total < 6 \/ n < ExtendedPrefix)
          \/ n > MaxPlaintext
          \/ p.total # (IF p.first = 0 THEN 6 ELSE 2) + PaddedLen(n)
       THEN {} ELSE {n}

\* Version, nonce, padded text and code, in base64.
EncodedLen(total) == ((1 + 32 + total + 32 + 2) \div 3) * 4
MaxEncodedLen == EncodedLen(6 + PaddedLen(MaxPlaintext))

\* conversation_key and encrypt: both ends derive the same key.
Encrypt(secret, peer, text) ==
    {[len |-> EncodedLen(p.total), key |-> {secret, peer}, mac |-> TRUE, padded |-> p,
      body |-> text.body] : p \in Pad(text.len)}

\* decrypt: size, version and code, then the padding.
Decrypt(secret, peer, payload) ==
    IF payload.len < 132 \/ payload.len > MaxEncodedLen
       \/ ~payload.mac \/ payload.key # {secret, peer}
    THEN {}
    ELSE {Text(n, payload.body) : n \in Unpad(payload.padded)}

(***************************************************************************)
(* Gift wraps.                                                             *)
(***************************************************************************)
MaxRecipients == 10

\* validate_relay_hint.
HintValid(hint) ==
    /\ hint \in DOMAIN Url
    /\ Url[hint].scheme \in {"ws", "wss"} /\ ~Url[hint].user /\ ~Url[hint].fragment

\* create_chat_rumor for recipients given as [key, hint] with hint "" for
\* none (a subject or a reply adds a tag nothing here looks at).
CreateChatRumor(sender, at, recipients, content) ==
    LET tag(r) == IF r.hint = "" THEN <<"p", r.key>> ELSE <<"p", r.key, r.hint>>
        u == Unsigned(sender, at, "chat", [i \in DOMAIN recipients |-> tag(recipients[i])], content)
        refused ==
            \/ Len(recipients) \notin 1..MaxRecipients
            \/ \E i \in DOMAIN recipients :
                  \/ recipients[i].key = sender
                  \/ \E j \in 1..(i - 1) : recipients[j].key = recipients[i].key
                  \/ recipients[i].hint # "" /\ ~HintValid(recipients[i].hint)
    IN IF refused \/ ~Valid(u) THEN {}
       ELSE {[pubkey |-> sender, created_at |-> at, kind |-> "chat", tags |-> u.tags,
              content |-> content, id |-> u]}

\* Rumor::verify.
RumorVerify(r) == Valid(r) /\ r.id = Fields(r)

\* random_past_timestamp.
Past(now) == Minus(now, Skew)..now

\* create_gift_wrap: the rumor sealed by its author, the seal wrapped under a
\* key used once, both dated at random up to Skew in the past.
CreateGiftWrap(rumor, sender, recipient, now, kind, once) ==
    LET payload(e) == Text(SerializedLen(e), e)
        seals == UNION {Sign(sender, Unsigned(rumor.pubkey, at, "seal", <<>>, c)) :
                            at \in Past(now), c \in Encrypt(sender, recipient, payload(rumor))}
    IN IF ~RumorVerify(rumor) \/ rumor.pubkey # sender THEN {}
       ELSE UNION {Sign(once, Unsigned(once, at, kind, <<<<"p", recipient>>>>, c)) :
                       at \in Past(now), c \in UNION {Encrypt(once, recipient, payload(s)) : s \in seals}}

\* Mutant of OpenGiftWrap: the author of the rumor is taken at its word.
OpenUnbound(e, me, now) ==
    LET open(s) == {[seal |-> s, rumor |-> t.body] : t \in Decrypt(me, s.pubkey, s.content)}
    IN IF ~Verify(e, now) \/ ~\E i \in PTags(e) : PTags(e) = {i} /\ e.tags[i][2] = me THEN {}
       ELSE {o \in UNION {open(t.body) : t \in Decrypt(me, e.pubkey, e.content)} :
                 Verify(o.seal, now) /\ o.seal.kind = "seal" /\ RumorVerify(o.rumor)}

\* open_gift_wrap.
OpenGiftWrap(e, me, now) ==
    LET sealOk(s) == Verify(s, now) /\ s.kind = "seal" /\ s.tags = <<>>
        seals == {t.body : t \in Decrypt(me, e.pubkey, e.content)}
        rumors(s) == {t \in Decrypt(me, s.pubkey, s.content) : t.len <= MaxSerialized}
    IN IF \/ ~Verify(e, now) \/ e.kind \notin {"wrap", "ephemeral_wrap"}
          \/ ~\E i \in PTags(e) : PTags(e) = {i} /\ Len(e.tags[i]) >= 2 /\ e.tags[i][2] = me
       THEN {}
       ELSE UNION {{[seal |-> s, rumor |-> t.body] :
                        t \in {u \in rumors(s) : RumorVerify(u.body) /\ u.body.pubkey = s.pubkey}} :
                   s \in {x \in seals : sealOk(x)}}

(***************************************************************************)
(* Frames.                                                                 *)
(***************************************************************************)
\* A frame on the wire: its type, the number of its fields, whether it is
\* within the frame's size limits, and what the fields hold.
Frame(type, fields, fits, sub, ev) ==
    [type |-> type, fields |-> fields, fits |-> fits, sub |-> sub, ev |-> ev]

FieldCount == [EVENT |-> 3, EOSE |-> 2, OK |-> 4, CLOSED |-> 3, NOTICE |-> 2, AUTH |-> 2]

\* RelayFrame::from_json: an unknown type, a missing or trailing field, a
\* size over a limit, an unusable subscription id, or an event that does not
\* verify is an error.
FromFrame(f, now) ==
    IF /\ f.fits /\ f.type \in DOMAIN FieldCount
       /\ f.fields = FieldCount[f.type]
       /\ f.type \in {"EVENT", "EOSE", "CLOSED"} => f.sub # ""
       /\ f.type = "EVENT" => Verify(f.ev, now)
    THEN {[kind |-> f.type, sub |-> f.sub, ev |-> f.ev]} ELSE {}

\* RelayAuthSigner::sign_challenge.
SignChallenge(signer, relay, challenge, now) ==
    IF challenge = "" THEN {}
    ELSE Sign(signer, Unsigned(signer, now, "auth",
                               <<<<"relay", relay>>, <<"challenge", challenge>>>>, NoText))

=============================================================================
