----------------------------- MODULE MCDmLibrary -----------------------------
(***************************************************************************)
(* Two participants, two relays to search, and small clocks and caches.    *)
(* Byte limits are those of the code; the cache holds one record, and a    *)
(* list with three relays is too large for it.                             *)
(***************************************************************************)
EXTENDS DmLibrary

\* Endpoints: three relays, one of them also in another spelling.
MCUrl ==
    LET at(s, h, c) == [scheme |-> s, host |-> h, user |-> FALSE, query |-> FALSE,
                        fragment |-> FALSE, canon |-> c]
    IN [w1 |-> at("wss", "name", "w1"), w2 |-> at("wss", "name", "w2"),
        W2 |-> at("wss", "name", "w2"), local |-> at("ws", "v4loopback", "local"),
        plain |-> at("ws", "name", "plain")]

\* An order of ids that tells the events below apart.
MCIdBefore(i, j) == Len(i.tags) + i.content.len < Len(j.tags) + j.content.len

MCBootstrap == <<"w1", "local">>

\* What the participants published, and what does not count: a later list that
\* names a plain endpoint, a profile with a repeated field; the lookup of carol
\* is answered with an event of bob as well.
Theirs(k) ==
    CASE k = "dm_relays" ->
           CreateDmRelayList("bob", 0, <<"w1", "W2">>) \cup CreateDmRelayList("bob", 0, <<"w1">>)
           \cup CreateDmRelayList("bob", 1, <<"w2">>)
      [] k = "relays" ->
           LET pref(u) == [url |-> u, read |-> TRUE, write |-> u # "local"]
           IN CreateNip65("bob", 0, <<pref("w1"), pref("W2"), pref("w2")>>)
              \cup CreateNip65("bob", 0, <<pref("w1")>>)
              \cup CreateNip65("bob", 1, <<pref("w1"), pref("w2"), pref("local")>>)
      [] k = "profile" ->
           LET named == [NoProfile EXCEPT !.name = "usable"]
           IN CreateProfile("bob", 0, named, 20) \cup CreateProfile("bob", 0, NoProfile, 2)
              \cup CreateProfile("bob", 1, named, 30)
Unusable(k) ==
    LET tags == CASE k = "dm_relays" -> <<<<"relay", "plain">>>>
                  [] k = "relays" -> <<<<"r", "w1", "both">>>>
                  [] k = "profile" -> <<>>
    IN Sign("bob", Unsigned("bob", 1, k, tags, Text(3, [NoProfile EXCEPT !.repeats = TRUE])))
Carols(k) ==
    CASE k = "dm_relays" -> CreateDmRelayList("carol", 0, <<"w1">>)
      [] k = "relays" -> CreateNip65("carol", 0, <<[url |-> "w1", read |-> TRUE, write |-> TRUE]>>)
      [] k = "profile" -> CreateProfile("carol", 0, NoProfile, 2)
MCServed ==
    [k \in Kinds |-> [a \in {"bob", "carol"} |->
        IF a = "bob" THEN Theirs(k) \cup Unusable(k)
        ELSE Carols(k) \cup {e \in Theirs(k) : e.created_at = 1}]]

\* Gift wraps: two messages as their authors made them, and wraps no client
\* accepts: for someone else, ephemeral, with a second recipient, with a seal
\* that carries another author's rumor.
Rumor(a, to) == CHOOSE r \in CreateChatRumor(a, 0, <<[key |-> to, hint |-> ""]>>, Text(40, a)) : TRUE
Wrapped(a, to, k) == CHOOSE w \in CreateGiftWrap(Rumor(a, to), a, to, 0, k, "once") : TRUE
Misattributed ==
    LET seal == CHOOSE s \in UNION {Sign("bob", Unsigned("bob", 0, "seal", <<>>, c)) :
                    c \in Encrypt("bob", "me", Text(SerializedLen(Rumor("carol", "me")), Rumor("carol", "bob")))} : TRUE
    IN CHOOSE w \in UNION {Sign("once", Unsigned("once", 0, "wrap", <<<<"p", "me">>>>, c)) :
                    c \in Encrypt("once", "me", Text(SerializedLen(seal), seal))} : TRUE
TwoRecipients ==
    LET w == Wrapped("bob", "me", "wrap")
    IN CHOOSE e \in Sign("once", [Fields(w) EXCEPT !.tags = @ \o <<<<"p", "bob">>>>]) : TRUE
MCWraps ==
    {Wrapped("bob", "me", "wrap"), Wrapped("carol", "me", "wrap"), Wrapped("bob", "carol", "wrap"),
     Wrapped("bob", "me", "ephemeral_wrap"), Misattributed, TwoRecipients,
     [Wrapped("bob", "me", "wrap") EXCEPT !.created_at = 1]}
MCSaid == {Rumor("bob", "me"), Rumor("carol", "me")}

MCHandle == [shaped |-> TRUE, name |-> "bob", domain |-> "public"]

\* Responses: a document of two or three units, framed in each way, and the
\* ones that must be refused; names may occur twice, in different case.
MCResponses ==
    LET entry(n, k) == [name |-> n, valid |-> k # "none", key |-> k]
        first(n) == [units |-> n, names |-> <<entry("carol", "other"), entry("bob", "key"), entry("bob", "other")>>]
        rest == [units |-> 0]
        resp(h, st, f, n, ps) == [headLen |-> h, wellFormed |-> TRUE, status |-> st, framing |-> f,
                                  length |-> n, parts |-> ps]
        two == <<first(2), rest>>
        without(ns) == resp(1, 200, "length", 2, <<<<[units |-> 2, names |-> ns], rest>>>>)
    IN {resp(h, st, f, 2, <<two>>) : h \in {1, 2}, st \in {200, 404}, f \in {"length", "none", "chunked"}}
       \cup {resp(1, 200, "chunked", 0, <<<<first(3)>>, <<rest>>, <<rest>>>>),
             resp(1, 200, "length", 2, <<two \o <<rest>>>>),
             resp(1, 200, "length", 1, <<two>>),
             resp(4, 200, "length", 2, <<two>>),
             resp(1, 200, "none", 0, <<<<first(6)>> \o [i \in 1..5 |-> rest]>>),
             without(<<>>), without(<<entry("carol", "other")>>),
             without(<<entry("bob", "none"), entry("bob", "key")>>),
             [resp(1, 200, "length", 2, <<two>>) EXCEPT !.wellFormed = FALSE]}

\* Gift wraps an inbox on n relays processes.
MCMaxCalls(n) == IF n = 1 THEN 3 ELSE 2

=============================================================================
