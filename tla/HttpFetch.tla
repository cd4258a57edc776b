------------------------------ MODULE HttpFetch ------------------------------
(***************************************************************************)
(* The bounded HTTP fetch of the client library and the handle it resolves *)
(* with it (omachat-nostr/src/nip11.rs, nip05.rs).  The bytes of a         *)
(* response are cells: the header as one cell for each unit of its length, *)
(* then the units of the body as they are framed on the wire.              *)
(***************************************************************************)
EXTENDS Integers, Sequences

CONSTANTS
    MaxHeader,     \* MAX_HEADER_BYTES, in cells
    MaxDocument,   \* RelayInformationLimits::max_document_bytes, in cells
    Responses,     \* what a server may answer
    Handle         \* the handle that is resolved

ASSUME FetchAssumption == MaxHeader \in Nat \ {0} /\ MaxDocument \in Nat \ {0}

\* What a server sends: the length of its header, the fields of the header the
\* code reads (framing is "length", "chunked" or "none"), and the body as a
\* sequence of parts, each a sequence of units.  length is the value of
\* content-length.
Header(r) == [i \in 1..r.headLen |-> [cell |-> IF i = r.headLen THEN "header_end" ELSE "header"]]
Data(s) == [i \in DOMAIN s |-> [cell |-> "data", unit |-> s[i]]]
Size(n) == <<[cell |-> "size", n |-> n]>>
LineEnd == <<[cell |-> "line_end"]>>

\* For each i the first i sequences of ss as one; and all of them.
Joined(ss) ==
    LET upto[i \in 0..Len(ss)] == IF i = 0 THEN <<>> ELSE upto[i - 1] \o ss[i]
    IN upto
Flat(ss) == Joined(ss)[Len(ss)]

\* The body on the wire; a chunk is its size, its data and a line end.
Chunk(p) == Size(Len(p)) \o Data(p) \o LineEnd
Framed(r) ==
    IF r.framing = "chunked" THEN Flat([i \in DOMAIN r.parts |-> Chunk(r.parts[i])]) \o Size(0)
    ELSE Data(Flat(r.parts))

Wire(r) == Header(r) \o Framed(r)

\* The document the server meant.
Document(r) == IF r.framing = "length" THEN SubSeq(Flat(r.parts), 1, r.length) ELSE Flat(r.parts)

\* What a server sends.  An empty chunk would end the body; a body shorter than
\* its length is one whose connection is lost; and nothing follows a document
\* that only the end of the connection delimits.
Sendable(r) ==
    LET all == Flat(r.parts)
        units == UNION {{p[j] : j \in DOMAIN p} : p \in {r.parts[i] : i \in DOMAIN r.parts}}
    IN /\ r.framing \in {"length", "chunked", "none"}
       /\ r.headLen \in Nat \ {0} /\ r.length \in Nat
       /\ r.parts \in Seq(Seq(units))
       /\ r.framing = "chunked" => \A i \in DOMAIN r.parts : r.parts[i] # <<>>
       /\ r.framing = "length" => r.length <= Len(all)
       /\ r.framing = "none" /\ all # <<>> => all[1].units \in Nat /\ Len(all) <= all[1].units

Units(s) == [i \in DOMAIN s |-> s[i].unit]

More == [state |-> "more", body |-> <<>>]
Bad == [state |-> "error", body |-> <<>>]
Got(body) == [state |-> "body", body |-> body]

\* decode_chunked: chunk by chunk, from each position where a chunk may begin.
\* A size is what the chunk has (Sendable), far from the width of a usize, at
\* whose end the code's size + 2 would overflow.
DecodeChunked(s) ==
    LET from[i \in 1..(Len(s) + 1)] ==
            IF i > Len(s) THEN More
            ELSE IF s[i].cell # "size" THEN Bad
            ELSE IF s[i].n = 0 THEN Got(<<>>)
            ELSE LET end == i + s[i].n + 1
                 IN IF Len(s) < end THEN More
                    ELSE IF s[end].cell # "line_end" THEN Bad
                    ELSE LET rest == from[end + 1]
                         IN IF rest.state = "body"
                            THEN Got(Units(SubSeq(s, i + 1, end - 1)) \o rest.body)
                            ELSE rest
    IN from

\* Mutant of TryComplete: a body with a length is complete when the header is.
CompleteAtHeader(s, eof, r) ==
    IF Len(s) < r.headLen THEN (IF Len(s) > MaxHeader THEN Bad ELSE More)
    ELSE IF r.framing = "chunked" THEN DecodeChunked(SubSeq(s, r.headLen + 1, Len(s)))[1]
    ELSE IF eof \/ r.framing = "length" THEN Got(Units(SubSeq(s, r.headLen + 1, Len(s)))) ELSE More

\* try_complete for the cells s read so far of a response whose header is r's.
TryComplete(s, eof, r) ==
    LET body == SubSeq(s, r.headLen + 1, Len(s))
        framed == IF r.framing = "chunked" THEN DecodeChunked(body)[1]
                  ELSE IF r.framing = "length"
                  THEN IF Len(body) < r.length THEN More ELSE Got(Units(SubSeq(body, 1, r.length)))
                  ELSE IF eof THEN Got(Units(body)) ELSE More
    IN IF Len(s) < r.headLen THEN (IF Len(s) > MaxHeader THEN Bad ELSE More)
       ELSE IF ~r.wellFormed THEN Bad
       ELSE IF framed.state # "body" THEN framed
       ELSE IF r.status # 200 \/ Len(framed.body) > MaxDocument THEN Bad
       ELSE framed

\* One turn of exchange, after read gave the cells up to n (none at the end).
Exchange(r, n, eof) ==
    LET s == SubSeq(Wire(r), 1, n)
    IN IF eof THEN (IF TryComplete(s, TRUE, r).state = "body" THEN TryComplete(s, TRUE, r) ELSE Bad)
       ELSE IF n > MaxHeader + MaxDocument THEN Bad
       ELSE TryComplete(s, FALSE, r)

\* fetch_http_document up to the request: the scheme and the limits.
Requests(url) == url.scheme \in {"http", "https"} /\ url.fits

\* parse_handle, validate_public_domain and loopback_url: the URL asked for a
\* handle [shaped, name, domain], at the domain or at the base that replaces it.
HandleUrl(h, base) ==
    IF ~h.shaped THEN {}
    ELSE IF base = "loopback" THEN {[scheme |-> "http", fits |-> TRUE, at |-> "loopback", name |-> h.name]}
    ELSE IF base # "" \/ h.domain # "public" THEN {}
    ELSE {[scheme |-> "https", fits |-> TRUE, at |-> h.domain, name |-> h.name]}

\* public_key_from_document: the first unit of a document has its names, in the
\* order of the parsed object, and a document cut short does not parse.  The
\* first entry whose name is equal up to case decides, be its key valid or not
\* (name is the one the entry has in lower case).
KeyFromDocument(body, name) ==
    IF body = <<>> THEN {}
    ELSE LET names == body[1].names
             first(i) == names[i].name = name /\ \A j \in 1..(i - 1) : names[j].name # name
         IN IF Len(body) # body[1].units THEN {}
            ELSE {names[i].key : i \in {j \in DOMAIN names : first(j) /\ names[j].valid}}

ASSUME ResponseAssumption == \A r \in Responses : Sendable(r)

(***************************************************************************)
(* Resolving a handle: resolve_handle and the fetch under it.              *)
(***************************************************************************)
VARIABLE fetch    \* the call in progress, or its result

NoFetch == [op |-> "none"]

FetchInit == fetch = NoFetch

\* resolve_handle up to the response of the server.
StartResolve(resp) ==
    /\ fetch = NoFetch
    /\ \E url \in HandleUrl(Handle, "") :
          /\ Requests(url)
          /\ fetch' = [op |-> "fetch", name |-> url.name, resp |-> resp, read |-> 0]

\* public_key_from_document on the body, or the error of the fetch after the
\* first n cells.
Resolve(outcome, n, eof) ==
    IF outcome.state = "error" \/ KeyFromDocument(outcome.body, fetch.name) = {}
    THEN [op |-> "unresolved", name |-> fetch.name, resp |-> fetch.resp,
          cut |-> eof /\ n < Len(Wire(fetch.resp))]
    ELSE [op |-> "resolved", name |-> fetch.name, resp |-> fetch.resp,
          key |-> CHOOSE k \in KeyFromDocument(outcome.body, fetch.name) : TRUE]

\* The socket gives n more cells.
ReadCells(n) ==
    /\ fetch.op = "fetch" /\ fetch.read + n <= Len(Wire(fetch.resp))
    /\ LET read == fetch.read + n
           outcome == Exchange(fetch.resp, read, FALSE)
       IN fetch' = IF outcome.state = "more" THEN [fetch EXCEPT !.read = read]
                   ELSE Resolve(outcome, read, FALSE)

\* The server closes the connection, or it is lost.
ReadEnd ==
    /\ fetch.op = "fetch"
    /\ fetch' = Resolve(Exchange(fetch.resp, fetch.read, TRUE), fetch.read, TRUE)

\* The timeout or an error of the socket ends the call; or the caller has seen
\* its result.
EndResolve ==
    /\ fetch # NoFetch
    /\ fetch' = NoFetch

FetchNext ==
    \/ ReadEnd \/ EndResolve
    \/ \E resp \in Responses : StartResolve(resp)
    \/ \E n \in 1..2 : ReadCells(n)

FetchSpec == FetchInit /\ [][FetchNext]_fetch

\* However a response is split into reads: a handle resolves only to the key
\* that the whole document of a good response gives for the name, in the first
\* of its entries for it, and a response that arrives whole is refused only for
\* a reason of its own (nip11.rs, nip05.rs).  A response is one whose framing
\* is true to its body (Sendable).
ResolvedExactly ==
    LET r == fetch.resp
        doc == Document(r)
        whole == r.wellFormed /\ r.status = 200 /\ doc # <<>> /\ Len(doc) = doc[1].units
        gives(i) == /\ doc[1].names[i].name = fetch.name /\ doc[1].names[i].valid
                    /\ \A j \in 1..(i - 1) : doc[1].names[j].name # fetch.name
        small == r.headLen <= MaxHeader /\ Len(Framed(r)) <= MaxDocument
    IN /\ fetch.op = "resolved" =>
             /\ whole /\ Len(doc) <= MaxDocument
             /\ \E i \in DOMAIN doc[1].names : gives(i) /\ fetch.key = doc[1].names[i].key
       /\ fetch.op = "unresolved" =>
             fetch.cut \/ ~small \/ ~(whole /\ \E i \in DOMAIN doc[1].names : gives(i))

=============================================================================
