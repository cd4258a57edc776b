--------------------------- MODULE NostrChatProofs ---------------------------
(***************************************************************************)
(* What every handler of a relay connection and every operation of the     *)
(* relay pool preserves, and from it the safety properties of the chat     *)
(* actor: for any set of relays, events, subscriptions and messages, and   *)
(* any queue depth, window, threshold and list size.                       *)
(***************************************************************************)
EXTENDS NostrChat, TLAPS, FiniteSetTheorems

\* A leaf is tried with Zenon, which is soon done, and then with SMT, unless it
\* names its prover.
USE ZenonT(10), SMTT(20)

(***************************************************************************)
(* One connection.                                                         *)
(***************************************************************************)
\* The commands whose caller still waits.
Live(c) == {i \in DOMAIN c.cmds : c.cmds[i].live}

\* No caller waits for an answer of this connection.
Quiet(c) == c.pend = {} /\ Live(c) = {}

Single(S) == \A x, y \in S : x = y

\* What the pool sends: nobody closes a subscription.
Fit(m) ==
    /\ m.op # "close"
    /\ m.op = "publish" => m.ev \in Events
    /\ m.op = "subscribe" => m.sub \in Subscriptions

\* The inductive invariant of a connection: what was asked of the relay is
\* kept, and is all that is kept once the session is open; one call at a time
\* is in flight, as a command or as an event, and only while it waits.
Good(c) ==
    /\ c \in Connection
    /\ c.wire \subseteq c.subs
    /\ c.phase = "up" /\ c.open => c.wire = c.subs
    /\ \A i \in DOMAIN c.cmds : Fit(c.cmds[i])
    /\ Single(c.pend) /\ Single(Live(c))
    /\ c.pend = {} \/ Live(c) = {}
    /\ c.call # "waiting" => Quiet(c)
    /\ c.phase = "ended" => c.cmds = <<>> /\ c.pend = {} /\ c.wire = {} /\ ~c.open

\* The call in progress is a publish of e.
Serving(c, e) ==
    /\ c.pend \subseteq {e}
    /\ \A i \in Live(c) : c.cmds[i].op = "publish" /\ c.cmds[i].ev = e
    /\ c.call = "ok" => e \in c.took

\* The call in progress is a subscription to s.
Asking(c, s) ==
    /\ c.pend = {}
    /\ \A i \in Live(c) : c.cmds[i].op = "subscribe" /\ c.cmds[i].sub = s
    /\ c.call = "ok" => s \in c.subs

\* A session has the subscription, or will be asked for it.
Kept(c, s) ==
    c.phase = "up" /\ ~c.full =>
        \/ s \in c.subs
        \/ \E i \in DOMAIN c.cmds : c.cmds[i].op = "subscribe" /\ c.cmds[i].sub = s
        \/ \E i \in DOMAIN c.notes : c.notes[i].kind = "connected"

\* Nothing is sent on a session that is not open.
Fenced(c, d) == d.open \/ (d.wire \subseteq c.wire /\ d.pend \subseteq c.pend)

\* What a step of the actor from c to d keeps for its callers.
Keeps(c, d) ==
    /\ Good(d)
    /\ c.subs \subseteq d.subs
    /\ Quiet(c) => Quiet(d) /\ d.call = c.call
    /\ \A e \in Events : Serving(c, e) => Serving(d, e)
    /\ \A s \in Subscriptions : Asking(c, s) => Asking(d, s)

\* A step of the actor.
Preserves(c, d) ==
    /\ Keeps(c, d) /\ Fenced(c, d)
    /\ \A s \in Subscriptions : Kept(c, s) => Kept(d, s)

\* Keeping is transitive.
LEMMA KeepsTransitive ==
    ASSUME NEW b, NEW c, NEW d, Keeps(b, c), Keeps(c, d)
    PROVE  Keeps(b, d)
BY DEF Keeps

\* The actor's return leaves nothing in flight.
LEMMA EndedKeeps ==
    ASSUME NEW c, Good(c)
    PROVE  /\ Keeps(c, Ended(c))
           /\ Ended(c).phase = "ended" /\ Ended(c).wire = {} /\ Ended(c).pend = {}
<1> DEFINE waiting == c.pend # {} \/ \E i \in DOMAIN c.cmds : c.cmds[i].live
<1>1. c \in Connection
  BY DEF Good
<1>2. waiting <=> ~Quiet(c)
  BY DEF Quiet, Live
<1>3. Ended(c) = [c EXCEPT !.phase = "ended", !.open = FALSE, !.auth = FALSE, !.wire = {}, !.pend = {},
                 !.cmds = <<>>, !.full = FALSE, !.call = IF waiting THEN "err" ELSE c.call]
  BY DEF Ended
<1> HIDE DEF waiting
<1>4. Ended(c) \in Connection
  <2>1. <<>> \in Seq(Command)
    OBVIOUS
  <2> QED
    BY <1>1, <1>3, <2>1 DEF Connection
<1>5. /\ Ended(c).phase = "ended" /\ Ended(c).wire = {} /\ Ended(c).pend = {}
      /\ Ended(c).cmds = <<>> /\ Ended(c).subs = c.subs /\ Ended(c).took = c.took
  BY <1>1, <1>3 DEF Connection
<1>6. Ended(c).open = FALSE
  BY <1>1, <1>3 DEF Connection
<1>7. Ended(c).call = IF Quiet(c) THEN c.call ELSE "err"
  BY <1>1, <1>2, <1>3 DEF Connection
<1>8. Live(Ended(c)) = {}
  BY <1>5, SMTT(20) DEF Live
<1> QED
  BY <1>4, <1>5, <1>6, <1>7, <1>8, SMTT(20) DEF Keeps, Good, Quiet, Serving, Asking, Single

\* A notification that finds room changes nothing else.
LEMMA NoteKeeps ==
    ASSUME NEW c, Good(c), NEW n \in Notification
    PROVE  /\ Preserves(c, [c EXCEPT !.notes = Append(@, n)])
           /\ [c EXCEPT !.notes = Append(@, n)].wire = c.wire
           /\ [c EXCEPT !.notes = Append(@, n)].pend = c.pend
           /\ [c EXCEPT !.notes = Append(@, n)].open = c.open
<1> DEFINE d == [c EXCEPT !.notes = Append(@, n)]
<1>1. c \in Connection
  BY DEF Good
<1>2. d \in Connection
  <2>1. Append(c.notes, n) \in Seq(Notification)
    BY <1>1, SMTT(20) DEF Connection
  <2> QED
    BY <1>1, <2>1 DEF Connection
<1>3. /\ d.phase = c.phase /\ d.wire = c.wire /\ d.pend = c.pend /\ d.cmds = c.cmds
      /\ d.subs = c.subs /\ d.took = c.took /\ d.call = c.call
  BY <1>1 DEF Connection
<1>4. d.open = c.open /\ d.full = c.full
  BY <1>1 DEF Connection
<1>5. d.notes = Append(c.notes, n) /\ c.notes \in Seq(Notification)
  BY <1>1 DEF Connection
<1>6. \A i \in DOMAIN c.notes : i \in DOMAIN d.notes /\ d.notes[i] = c.notes[i]
  BY <1>5
<1> HIDE DEF d
<1>7. Live(d) = Live(c)
  BY <1>3 DEF Live
<1>8. Keeps(c, d)
  BY <1>2, <1>3, <1>4, <1>7 DEF Keeps, Good, Quiet, Serving, Asking
<1>9. \A s \in Subscriptions : Kept(c, s) => Kept(d, s)
  BY <1>3, <1>4, <1>6 DEF Kept
<1> QED
  BY <1>3, <1>4, <1>8, <1>9 DEF Preserves, Fenced, d

\* A lost session fails the pending publish and keeps the commands.
LEMMA DisconnectedKeeps ==
    ASSUME NEW c, Good(c)
    PROVE  /\ Keeps(c, Disconnected(c))
           /\ Disconnected(c).phase # "up"
           /\ Disconnected(c).wire = {} /\ Disconnected(c).pend = {}
<1> DEFINE d == [FailPending(c) EXCEPT !.phase = "backoff", !.auth = FALSE, !.open = FALSE,
                                       !.wire = {}, !.full = FALSE]
<1>1. c \in Connection
  BY DEF Good
<1>2. d = [c EXCEPT !.pend = {}, !.call = IF c.pend # {} THEN "err" ELSE c.call, !.phase = "backoff",
                    !.auth = FALSE, !.open = FALSE, !.wire = {}, !.full = FALSE]
  BY <1>1 DEF FailPending, Connection
<1>3. Disconnected(c) = IF Len(d.notes) = NoteDepth THEN Ended(d) ELSE [d EXCEPT !.notes = Append(@, Other)]
  BY DEF Disconnected, Notify
<1> HIDE DEF d
<1>4. d \in Connection
  BY <1>1, <1>2 DEF Connection
<1>5. /\ d.phase = "backoff" /\ d.wire = {} /\ d.pend = {} /\ d.cmds = c.cmds
      /\ d.subs = c.subs /\ d.took = c.took /\ d.call = IF c.pend # {} THEN "err" ELSE c.call
  BY <1>1, <1>2 DEF Connection
<1>6. d.open = FALSE
  BY <1>1, <1>2 DEF Connection
<1>7. Live(d) = Live(c)
  BY <1>5 DEF Live
<1>8. Keeps(c, d)
  BY <1>4, <1>5, <1>6, <1>7 DEF Keeps, Good, Quiet, Serving, Asking, Single
<1>9. Good(d)
  BY <1>8 DEF Keeps
<1>10. CASE Len(d.notes) = NoteDepth
  BY <1>3, <1>8, <1>9, <1>10, EndedKeeps, KeepsTransitive
<1>11. CASE Len(d.notes) # NoteDepth
  <2>1. Other \in Notification
    BY DEF Other, Notification
  <2> DEFINE n == [d EXCEPT !.notes = Append(@, Other)]
  <2>2. Keeps(d, n)
    BY <1>9, <2>1, NoteKeeps DEF Preserves
  <2>3. n.phase = d.phase /\ n.wire = d.wire /\ n.pend = d.pend
    BY <1>4 DEF Connection
  <2>4. Disconnected(c) = n
    BY <1>3, <1>11
  <2> HIDE DEF n
  <2> QED
    BY <1>5, <1>8, <2>2, <2>3, <2>4, KeepsTransitive
<1> QED
  BY <1>10, <1>11

\* A lost session has nothing on the wire and nothing to keep.
LEMMA DisconnectedPreserves ==
    ASSUME NEW b, NEW c, Keeps(b, c)
    PROVE  Preserves(b, Disconnected(c)) /\ Preserves(b, Ended(c))
<1>1. Good(c)
  BY DEF Keeps
<1>2. /\ Keeps(b, Disconnected(c)) /\ Disconnected(c).phase # "up"
      /\ Disconnected(c).wire = {} /\ Disconnected(c).pend = {}
  BY <1>1, DisconnectedKeeps, KeepsTransitive
<1>3. /\ Keeps(b, Ended(c)) /\ Ended(c).phase # "up"
      /\ Ended(c).wire = {} /\ Ended(c).pend = {}
  BY <1>1, EndedKeeps, KeepsTransitive
<1> QED
  BY <1>2, <1>3 DEF Preserves, Fenced, Kept

\* x is c without its first command m.
Taken(c, x, m) ==
    /\ m \in Command /\ m = c.cmds[1]
    /\ x \in Connection
    /\ x.phase = c.phase /\ x.wire = c.wire /\ x.pend = c.pend /\ x.notes = c.notes
    /\ x.subs = c.subs /\ x.took = c.took /\ x.call = c.call
    /\ x.open = c.open /\ x.full = c.full
    /\ 1 \in DOMAIN c.cmds
    /\ \A i \in DOMAIN x.cmds : i \in Nat \ {0} /\ i + 1 \in DOMAIN c.cmds /\ x.cmds[i] = c.cmds[i + 1]
    /\ \A i \in DOMAIN c.cmds : i = 1 \/ (i - 1 \in DOMAIN x.cmds /\ c.cmds[i] = x.cmds[i - 1])

\* A command leaves the channel (recv of the actor).
LEMMA TakeFields ==
    ASSUME NEW c, Good(c), c.cmds # <<>>
    PROVE  Taken(c, [c EXCEPT !.cmds = Tail(@)], Head(c.cmds))
<1> DEFINE x == [c EXCEPT !.cmds = Tail(@)]
<1>1. c \in Connection
  BY DEF Good
<1>2. /\ Head(c.cmds) \in Command
      /\ Tail(c.cmds) \in Seq(Command)
      /\ \A i \in DOMAIN Tail(c.cmds) :
            i \in Nat \ {0} /\ i + 1 \in DOMAIN c.cmds /\ Tail(c.cmds)[i] = c.cmds[i + 1]
      /\ \A i \in DOMAIN c.cmds :
            i = 1 \/ (i - 1 \in DOMAIN Tail(c.cmds) /\ c.cmds[i] = Tail(c.cmds)[i - 1])
      /\ 1 \in DOMAIN c.cmds /\ Head(c.cmds) = c.cmds[1]
  BY <1>1, SMTT(20) DEF Connection
<1>3. x \in Connection
  BY <1>1, <1>2 DEF Connection
<1>4. /\ x.phase = c.phase /\ x.wire = c.wire /\ x.pend = c.pend /\ x.cmds = Tail(c.cmds)
      /\ x.subs = c.subs /\ x.took = c.took /\ x.call = c.call /\ x.notes = c.notes
  BY <1>1 DEF Connection
<1>5. x.open = c.open /\ x.full = c.full
  BY <1>1 DEF Connection
<1> HIDE DEF x
<1>6. Taken(c, x, Head(c.cmds))
  BY <1>2, <1>3, <1>4, <1>5 DEF Taken
<1> QED
  BY <1>6 DEF x

\* Nobody else waits when the caller of the command does.
LEMMA TakeKeeps ==
    ASSUME NEW c, NEW x, NEW m, Good(c), Taken(c, x, m)
    PROVE  /\ Keeps(c, x) /\ Fit(m)
           /\ m.live => Quiet(x) /\ ~Quiet(c)
           /\ \A e \in Events : Serving(c, e) /\ m.live => m.op = "publish" /\ m.ev = e
           /\ \A s \in Subscriptions : Asking(c, s) /\ m.live => m.op = "subscribe" /\ m.sub = s
           /\ \A s \in Subscriptions : Kept(c, s) => Kept(x, s) \/ (m.op = "subscribe" /\ m.sub = s)
<1>1. \A i \in Live(x) : i + 1 \in Live(c) /\ i \in Nat \ {0} /\ x.cmds[i] = c.cmds[i + 1]
  BY DEF Live, Taken
<1>2. m.live <=> 1 \in Live(c)
  BY DEF Live, Taken
<1>3. Single(Live(c)) /\ (c.pend = {} \/ Live(c) = {})
  BY DEF Good
<1>4. ASSUME 1 \in Live(c) PROVE Live(x) = {}
  <2> SUFFICES ASSUME NEW j \in Live(x) PROVE FALSE
    OBVIOUS
  <2>1. j + 1 \in Live(c) /\ j \in Nat \ {0}
    BY <1>1
  <2>2. j + 1 = 1
    BY <1>3, <1>4, <2>1 DEF Single
  <2> QED
    BY <2>1, <2>2
<1>5. Single(Live(x)) /\ (Live(c) = {} => Live(x) = {})
  BY <1>1, <1>3, SMTT(20) DEF Single
<1>6. m.live => Live(x) = {} /\ Live(c) # {} /\ c.pend = {}
  BY <1>2, <1>3, <1>4
<1>7. /\ \A i \in DOMAIN x.cmds : Fit(x.cmds[i])
      /\ Fit(m) /\ c.phase # "ended"
  BY SMTT(20) DEF Good, Taken
<1>8. Good(x)
  BY <1>5, <1>7 DEF Good, Quiet, Taken
<1>9. \A e \in Events : Serving(c, e) => Serving(x, e)
  BY <1>1, SMTT(20) DEF Serving, Taken
<1>10. \A s \in Subscriptions : Asking(c, s) => Asking(x, s)
  BY <1>1, SMTT(20) DEF Asking, Taken
<1>11. Keeps(c, x)
  BY <1>5, <1>8, <1>9, <1>10 DEF Keeps, Quiet, Taken
<1>12. \A e \in Events : Serving(c, e) /\ m.live => m.op = "publish" /\ m.ev = e
  BY <1>2 DEF Serving, Taken
<1>13. \A s \in Subscriptions : Asking(c, s) /\ m.live => m.op = "subscribe" /\ m.sub = s
  BY <1>2 DEF Asking, Taken
<1>14. \A s \in Subscriptions : Kept(c, s) => Kept(x, s) \/ (m.op = "subscribe" /\ m.sub = s)
  BY DEF Kept, Taken
<1> QED
  BY <1>6, <1>7, <1>11, <1>12, <1>13, <1>14 DEF Quiet, Taken

\* An answer to the caller of a command that was taken, as x, from c.
LEMMA ReplyKeeps ==
    ASSUME NEW c, NEW x, Keeps(c, x), NEW live \in BOOLEAN, NEW result \in {"ok", "err"},
           live => Quiet(x) /\ ~Quiet(c),
           result = "ok" /\ live =>
              /\ \A e \in Events : ~Serving(c, e)
              /\ \A s \in Subscriptions : Asking(c, s) => s \in x.subs
    PROVE  /\ Keeps(c, Reply(x, live, result))
           /\ Reply(x, live, result).phase = x.phase /\ Reply(x, live, result).wire = x.wire
           /\ Reply(x, live, result).pend = x.pend /\ Reply(x, live, result).subs = x.subs
           /\ Reply(x, live, result).cmds = x.cmds /\ Reply(x, live, result).notes = x.notes
           /\ Reply(x, live, result).open = x.open /\ Reply(x, live, result).full = x.full
<1> DEFINE y == Reply(x, live, result)
<1>1. x \in Connection /\ Good(x)
  BY DEF Keeps, Good
<1>2. y = [x EXCEPT !.call = IF live THEN result ELSE x.call]
  BY DEF Reply
<1> HIDE DEF y
<1>3. y \in Connection
  BY <1>1, <1>2 DEF Connection
<1>4. /\ y.phase = x.phase /\ y.wire = x.wire /\ y.pend = x.pend /\ y.cmds = x.cmds
      /\ y.subs = x.subs /\ y.took = x.took /\ y.notes = x.notes
  BY <1>1, <1>2 DEF Connection
<1>5. y.open = x.open /\ y.full = x.full
  BY <1>1, <1>2 DEF Connection
<1>6. y.call = IF live THEN result ELSE x.call
  BY <1>1, <1>2 DEF Connection
<1>7. Live(y) = Live(x)
  BY <1>4 DEF Live
<1>8. Good(y)
  BY <1>1, <1>3, <1>4, <1>5, <1>6, <1>7 DEF Good, Quiet
<1>9. Keeps(c, y)
  BY <1>4, <1>6, <1>7, <1>8, SMTT(20) DEF Keeps, Quiet, Serving, Asking
<1> QED
  BY <1>4, <1>5, <1>9 DEF y

\* A publish that is sent waits for its OK.
LEMMA PublishSent ==
    ASSUME NEW c, NEW x, NEW m, Good(c), Taken(c, x, m), m.op = "publish", m.live, x.open
    PROVE  Preserves(c, [x EXCEPT !.pend = @ \cup {m.ev}])
<1> DEFINE y == [x EXCEPT !.pend = @ \cup {m.ev}]
<1>1. /\ Keeps(c, x) /\ m.ev \in Events
      /\ Quiet(x) /\ ~Quiet(c)
      /\ \A e \in Events : Serving(c, e) => m.ev = e
      /\ \A s \in Subscriptions : ~Asking(c, s)
      /\ \A s \in Subscriptions : Kept(c, s) => Kept(x, s)
  BY TakeKeeps DEF Fit
<1>2. x \in Connection /\ Good(x)
  BY <1>1 DEF Keeps, Good
<1>3. y \in Connection
  BY <1>1, <1>2 DEF Connection
<1>4. /\ y.phase = x.phase /\ y.wire = x.wire /\ y.pend = x.pend \cup {m.ev} /\ y.cmds = x.cmds
      /\ y.subs = x.subs /\ y.took = x.took /\ y.notes = x.notes /\ y.call = x.call
  BY <1>2 DEF Connection
<1>5. y.open = x.open /\ y.full = x.full
  BY <1>2 DEF Connection
<1> HIDE DEF y
<1>6. Live(y) = Live(x)
  BY <1>4 DEF Live
<1>7. y.pend = {m.ev} /\ Live(y) = {}
  BY <1>1, <1>4, <1>6 DEF Quiet
<1>8. x.phase # "ended" /\ x.call = "waiting"
  BY <1>1 DEF Good, Taken
<1>9. Good(y)
  BY <1>2, <1>3, <1>4, <1>5, <1>7, <1>8 DEF Good, Single
<1>10. Keeps(c, y)
  BY <1>1, <1>4, <1>7, <1>8, <1>9 DEF Keeps, Serving
<1>11. \A s \in Subscriptions : Kept(c, s) => Kept(y, s)
  BY <1>1, <1>4, <1>5 DEF Kept
<1>12. Preserves(c, y)
  BY <1>5, <1>10, <1>11 DEF Preserves, Fenced
<1> QED
  BY <1>12 DEF y

\* A subscription that is recorded, and sent when the session is open.
LEMMA SubscribeTaken ==
    ASSUME NEW c, NEW x, NEW m, Good(c), Taken(c, x, m), m.op = "subscribe",
           NEW wire, wire = IF x.open THEN x.wire \cup {m.sub} ELSE x.wire
    PROVE  Preserves(c, Reply([x EXCEPT !.subs = @ \cup {m.sub}, !.wire = wire], m.live, "ok"))
<1> DEFINE y == [x EXCEPT !.subs = @ \cup {m.sub}, !.wire = wire]
<1>1. /\ Keeps(c, x) /\ m.sub \in Subscriptions /\ m.live \in BOOLEAN
      /\ m.live => Quiet(x) /\ ~Quiet(c)
      /\ \A e \in Events : ~(Serving(c, e) /\ m.live)
      /\ \A s \in Subscriptions : Asking(c, s) /\ m.live => m.sub = s
      /\ \A s \in Subscriptions : Kept(c, s) => Kept(x, s) \/ m.sub = s
  BY TakeKeeps, SMTT(20) DEF Fit, Taken, Command
<1>2. x \in Connection /\ Good(x)
  BY <1>1 DEF Keeps, Good
<1>3. y \in Connection
  <2>1. x.wire \in SUBSET Subscriptions
    BY <1>2 DEF Connection
  <2>2. wire \in SUBSET Subscriptions
    BY <1>1, <2>1
  <2> QED
    BY <1>1, <1>2, <2>2 DEF Connection
<1>4. /\ y.phase = x.phase /\ y.wire = wire /\ y.pend = x.pend /\ y.cmds = x.cmds
      /\ y.subs = x.subs \cup {m.sub} /\ y.took = x.took /\ y.notes = x.notes /\ y.call = x.call
  BY <1>2 DEF Connection
<1>5. y.open = x.open /\ y.full = x.full
  BY <1>2 DEF Connection
<1> HIDE DEF y
<1>6. Live(y) = Live(x)
  BY <1>4 DEF Live
<1>7. x.phase # "ended"
  BY SMTT(20) DEF Good, Taken
<1>8. Good(y)
  BY <1>2, <1>3, <1>4, <1>5, <1>6, <1>7 DEF Good, Quiet
<1>9. Keeps(x, y)
  BY <1>4, <1>6, <1>8 DEF Keeps, Quiet, Serving, Asking
<1>10. Keeps(c, y)
  BY <1>1, <1>9, KeepsTransitive
<1>11. \A s \in Subscriptions : Kept(c, s) => Kept(y, s)
  BY <1>1, <1>4, <1>5 DEF Kept
<1>12. Quiet(x) => Quiet(y)
  BY <1>4, <1>6 DEF Quiet
<1>13. Fenced(c, y)
  BY <1>4, <1>5 DEF Fenced, Taken
<1> DEFINE z == Reply(y, m.live, "ok")
<1>14. /\ Keeps(c, z) /\ z.phase = y.phase /\ z.wire = y.wire /\ z.pend = y.pend /\ z.subs = y.subs
       /\ z.cmds = y.cmds /\ z.notes = y.notes /\ z.open = y.open /\ z.full = y.full
  BY <1>1, <1>4, <1>10, <1>12, ReplyKeeps, SMTT(20)
<1> HIDE DEF z
<1>15. Preserves(c, z)
  BY <1>11, <1>13, <1>14 DEF Preserves, Fenced, Kept
<1> QED
  BY <1>15 DEF y, z

\* A command that is taken and fails is answered; the session may be lost.
LEMMA CommandFails ==
    ASSUME NEW c, NEW x, NEW m, Good(c), Taken(c, x, m)
    PROVE  /\ Keeps(c, Reply(x, m.live, "err"))
           /\ m.op # "subscribe" => Preserves(c, Reply(x, m.live, "err"))
           /\ Preserves(c, Disconnected(Reply(x, m.live, "err")))
           /\ Preserves(c, Ended(x))
<1> DEFINE y == Reply(x, m.live, "err")
<1>1. /\ Keeps(c, x) /\ m.live \in BOOLEAN
      /\ m.live => Quiet(x) /\ ~Quiet(c)
      /\ \A s \in Subscriptions : Kept(c, s) => Kept(x, s) \/ m.op = "subscribe"
  BY TakeKeeps, SMTT(20) DEF Taken, Command
<1>2. /\ Keeps(c, y) /\ y.phase = x.phase /\ y.wire = x.wire /\ y.pend = x.pend /\ y.subs = x.subs
      /\ y.cmds = x.cmds /\ y.notes = x.notes /\ y.open = x.open /\ y.full = x.full
  BY <1>1, ReplyKeeps, SMTT(20)
<1> HIDE DEF y
<1>3. m.op # "subscribe" => Preserves(c, y)
  BY <1>1, <1>2, SMTT(20) DEF Preserves, Fenced, Kept, Taken
<1> QED
  BY <1>1, <1>2, <1>3, DisconnectedPreserves DEF y

\* Command::Publish, Subscribe and Shutdown in a session.
LEMMA HandleCommandPreserves ==
    ASSUME NEW c, Good(c), c.cmds # <<>>, NEW d \in HandleCommand(c)
    PROVE  Preserves(c, d)
<1> DEFINE x == [c EXCEPT !.cmds = Tail(@)]
           m == Head(c.cmds)
<1>1. Taken(c, x, m)
  BY TakeFields
<1>2. m.op \in {"publish", "subscribe", "shutdown"} /\ m.live \in BOOLEAN
  <2> HIDE DEF x, m
  <2>1. Fit(m)
    BY <1>1, TakeKeeps
  <2>2. m \in Command
    BY <1>1 DEF Taken
  <2> QED
    BY <2>1, <2>2 DEF Command, Fit
<1>3. x.open = c.open /\ c.open \in BOOLEAN
  BY <1>1 DEF Taken, Good, Connection
<1>4. CASE m.op = "publish"
  <2>1. d \in HandlePublish(x, m)
    BY <1>4 DEF HandleCommand
  <2> HIDE DEF x, m
  <2>2. \/ d = Reply(x, m.live, "err")
        \/ x.open /\ m.live /\ d = [x EXCEPT !.pend = @ \cup {m.ev}]
        \/ ~m.live /\ d = x
        \/ d = Disconnected(Reply(x, m.live, "err"))
    BY <2>1 DEF HandlePublish
  <2>3. ~m.live => Preserves(c, x)
    BY <1>1, <1>4, TakeKeeps DEF Preserves, Fenced, Taken
  <2> QED
    BY <1>1, <1>4, <2>2, <2>3, CommandFails, PublishSent, SMTT(20)
<1>5. CASE m.op = "subscribe"
  <2>1. \/ ~x.open /\ d = Reply([x EXCEPT !.subs = @ \cup {m.sub}], m.live, "ok")
        \/ x.open /\ d = Reply([x EXCEPT !.subs = @ \cup {m.sub}, !.wire = @ \cup {m.sub}], m.live, "ok")
        \/ d = Disconnected(Reply(x, m.live, "err"))
    BY <1>3, <1>5 DEF HandleCommand
  <2> HIDE DEF x, m
  <2>2. x \in Connection
    BY <1>1 DEF Taken
  <2>3. ~x.open => [x EXCEPT !.subs = @ \cup {m.sub}] = [x EXCEPT !.subs = @ \cup {m.sub}, !.wire = x.wire]
    BY <2>2 DEF Connection
  <2>4. CASE ~x.open /\ d = Reply([x EXCEPT !.subs = @ \cup {m.sub}], m.live, "ok")
    <3> DEFINE wire == x.wire
    <3>1. wire = IF x.open THEN x.wire \cup {m.sub} ELSE x.wire
      BY <2>4
    <3> HIDE DEF wire
    <3>2. Preserves(c, Reply([x EXCEPT !.subs = @ \cup {m.sub}, !.wire = wire], m.live, "ok"))
      BY <1>1, <1>5, <3>1, SubscribeTaken
    <3> QED
      BY <2>3, <2>4, <3>2 DEF wire
  <2>5. CASE x.open /\ d = Reply([x EXCEPT !.subs = @ \cup {m.sub}, !.wire = @ \cup {m.sub}], m.live, "ok")
    <3> DEFINE wire == x.wire \cup {m.sub}
    <3>1. wire = IF x.open THEN x.wire \cup {m.sub} ELSE x.wire
      BY <2>5
    <3> HIDE DEF wire
    <3>2. Preserves(c, Reply([x EXCEPT !.subs = @ \cup {m.sub}, !.wire = wire], m.live, "ok"))
      BY <1>1, <1>5, <3>1, SubscribeTaken
    <3> QED
      BY <2>5, <3>2 DEF wire
  <2>6. CASE d = Disconnected(Reply(x, m.live, "err"))
    BY <1>1, <2>6, CommandFails
  <2> QED
    BY <2>1, <2>4, <2>5, <2>6
<1>6. CASE m.op = "shutdown"
  <2>1. d = Ended(x)
    BY <1>6 DEF HandleCommand
  <2> HIDE DEF x, m
  <2> QED
    BY <1>1, <2>1, CommandFails
<1> QED
  BY <1>2, <1>4, <1>5, <1>6

\* The start of a session replays the subscriptions that are kept.
LEMMA ConnectPreserves ==
    ASSUME NEW c, Good(c), c.phase = "connecting", NEW d \in Connect(c)
    PROVE  Preserves(c, d)
<1> DEFINE open == ~c.signer \/ Policy = "AuthenticateWhenChallenged"
           n == [kind |-> "connected", ev |-> NoEvent]
           u == [c EXCEPT !.phase = "up", !.open = open, !.wire = IF open THEN c.subs ELSE {},
                          !.notes = Append(@, n)]
           b == [c EXCEPT !.phase = "backoff"]
<1>1. d = u \/ d = Ended(c) \/ d = Ended(u) \/ d = b
  BY DEF Connect, SessionStarted
<1>2. c \in Connection /\ Keeps(c, c)
  BY DEF Good, Keeps
<1>3. open \in BOOLEAN
  OBVIOUS
<1>4. n \in Notification
  BY DEF Notification
<1> HIDE DEF open, n
<1>5. ASSUME NEW v, v = u PROVE Preserves(c, v)
  <2>1. v \in Connection
    <3>1. Append(c.notes, n) \in Seq(Notification)
      BY <1>2, <1>4, SMTT(20) DEF Connection
    <3>2. (IF open THEN c.subs ELSE {}) \in SUBSET Subscriptions
      BY <1>2 DEF Connection
    <3> QED
      BY <1>2, <1>3, <1>5, <3>1, <3>2 DEF Connection
  <2>2. /\ v.phase = "up" /\ v.wire = (IF open THEN c.subs ELSE {}) /\ v.pend = c.pend /\ v.cmds = c.cmds
        /\ v.subs = c.subs /\ v.took = c.took /\ v.call = c.call /\ v.notes = Append(c.notes, n)
    BY <1>2, <1>5 DEF Connection
  <2>3. v.open = open
    BY <1>2, <1>5 DEF Connection
  <2>4. \E i \in DOMAIN v.notes : v.notes[i].kind = "connected"
    <3>1. c.notes \in Seq(Notification)
      BY <1>2 DEF Connection
    <3>2. Len(c.notes) + 1 \in DOMAIN v.notes /\ v.notes[Len(c.notes) + 1] = n
      BY <2>2, <3>1, SMTT(20)
    <3> QED
      BY <3>2 DEF n
  <2> HIDE DEF u, b
  <2>5. Live(v) = Live(c)
    BY <2>2 DEF Live
  <2>6. Good(v)
    BY <2>1, <2>2, <2>3, <2>5 DEF Good, Quiet
  <2>7. Keeps(c, v)
    BY <2>2, <2>5, <2>6 DEF Keeps, Quiet, Serving, Asking
  <2> QED
    BY <2>2, <2>3, <2>4, <2>7 DEF Preserves, Fenced, Kept
<1>6. CASE d = Ended(c) \/ d = Ended(u)
  <2>1. Keeps(c, u)
    BY <1>5 DEF Preserves
  <2> HIDE DEF u, b
  <2> QED
    BY <1>2, <1>6, <2>1, DisconnectedPreserves
<1>7. CASE d = b
  <2>1. d \in Connection
    BY <1>2, <1>7 DEF Connection
  <2>2. /\ d.phase = "backoff" /\ d.wire = c.wire /\ d.pend = c.pend /\ d.cmds = c.cmds
        /\ d.subs = c.subs /\ d.took = c.took /\ d.call = c.call
    BY <1>2, <1>7 DEF Connection
  <2>3. d.open = c.open
    BY <1>2, <1>7 DEF Connection
  <2> HIDE DEF u, b
  <2>4. Live(d) = Live(c)
    BY <2>2 DEF Live
  <2>5. Keeps(c, d)
    BY <2>1, <2>2, <2>3, <2>4 DEF Good, Keeps, Quiet, Serving, Asking
  <2> QED
    BY <2>2, <2>3, <2>5 DEF Preserves, Fenced, Kept
<1>8. CASE d = u
  BY <1>5, <1>8
<1> QED
  BY <1>1, <1>6, <1>7, <1>8

\* A notification that finds no room loses the session.
LEMMA NotifyPreserves ==
    ASSUME NEW c, NEW x, Preserves(c, x), NEW n \in Notification
    PROVE  Preserves(c, PassedOn(x, n))
<1>1. Keeps(c, x) /\ Good(x)
  BY DEF Preserves, Keeps
<1>2. CASE Len(x.notes) = NoteDepth
  BY <1>1, <1>2, DisconnectedPreserves DEF Notify, PassedOn
<1>3. CASE Len(x.notes) # NoteDepth
  <2> DEFINE y == [x EXCEPT !.notes = Append(@, n)]
  <2>1. /\ Preserves(x, y)
        /\ y.wire = x.wire /\ y.pend = x.pend /\ y.open = x.open
    BY <1>1, NoteKeeps
  <2>2. PassedOn(x, n) = y
    BY <1>3 DEF Notify, PassedOn
  <2> HIDE DEF y
  <2>3. Keeps(c, y)
    BY <1>1, <2>1, KeepsTransitive DEF Preserves
  <2> QED
    BY <2>1, <2>2, <2>3 DEF Preserves, Fenced
<1> QED
  BY <1>2, <1>3

\* The outcome of an authentication: accepted, the subscriptions are replayed.
LEMMA AuthenticationPreserves ==
    ASSUME NEW c, Good(c), c.phase = "up"
    PROVE  /\ Preserves(c, c)
           /\ Preserves(c, Accepted(c))
           /\ \A a \in BOOLEAN : Preserves(c, Closed(c, a))
<1>1. c \in Connection /\ Preserves(c, c)
  BY DEF Good, Preserves, Keeps, Fenced
<1>2. Preserves(c, Accepted(c))
  <2> DEFINE d == Accepted(c)
  <2>1. d \in Connection
    BY <1>1 DEF Connection, Accepted
  <2>2. /\ d.phase = c.phase /\ d.wire = c.wire \cup c.subs /\ d.pend = c.pend /\ d.cmds = c.cmds
        /\ d.subs = c.subs /\ d.took = c.took /\ d.call = c.call /\ d.notes = c.notes
    BY <1>1 DEF Connection, Accepted
  <2>3. d.open = TRUE /\ d.full = c.full
    BY <1>1 DEF Connection, Accepted
  <2> HIDE DEF d
  <2>4. Live(d) = Live(c)
    BY <2>2 DEF Live
  <2>5. d.wire = d.subs
    BY <2>2 DEF Good
  <2>6. Keeps(c, d)
    BY <2>1, <2>2, <2>3, <2>4, <2>5, ZenonT(30) DEF Good, Keeps, Quiet, Serving, Asking
  <2>7. Preserves(c, d)
    BY <2>2, <2>3, <2>6 DEF Preserves, Fenced, Kept
  <2> QED
    BY <2>7 DEF d
<1>3. ASSUME NEW a \in BOOLEAN
      PROVE  Preserves(c, Closed(c, a))
  <2> DEFINE d == Closed(c, a)
  <2>1. d \in Connection
    BY <1>1 DEF Connection, Closed
  <2>2. /\ d.phase = c.phase /\ d.wire = c.wire /\ d.pend = c.pend /\ d.cmds = c.cmds
        /\ d.subs = c.subs /\ d.took = c.took /\ d.call = c.call /\ d.notes = c.notes
    BY <1>1 DEF Connection, Closed
  <2>3. d.open = FALSE /\ d.full = c.full
    BY <1>1 DEF Connection, Closed
  <2> HIDE DEF d
  <2>4. Live(d) = Live(c)
    BY <2>2 DEF Live
  <2>5. Keeps(c, d)
    BY <2>1, <2>2, <2>3, <2>4 DEF Good, Keeps, Quiet, Serving, Asking
  <2>6. Preserves(c, d)
    BY <2>2, <2>3, <2>5 DEF Preserves, Fenced, Kept
  <2> QED
    BY <2>6 DEF d
<1> QED
  BY <1>1, <1>2, <1>3

\* An OK for the pending event.
LEMMA OkPreserves ==
    ASSUME NEW c, Good(c), c.phase = "up", NEW e \in c.pend, NEW ok \in BOOLEAN
    PROVE  Preserves(c, OkReceived(c, e, ok))
<1> DEFINE d == OkReceived(c, e, ok)
<1>1. c \in Connection
  BY DEF Good
<1>2. c.pend \subseteq Events /\ c.took \subseteq Events
  BY <1>1 DEF Connection
<1>3. d \in Connection
  BY <1>1, <1>2 DEF Connection, OkReceived
<1>4. /\ d.phase = c.phase /\ d.wire = c.wire /\ d.pend = c.pend \ {e} /\ d.cmds = c.cmds
      /\ d.subs = c.subs /\ d.took = (IF ok THEN c.took \cup {e} ELSE c.took) /\ d.notes = c.notes
      /\ d.call = IF ok THEN "ok" ELSE "err"
  BY <1>1 DEF Connection, OkReceived
<1>5. d.open = c.open /\ d.full = c.full
  BY <1>1 DEF Connection, OkReceived
<1> HIDE DEF d
<1>6. Live(d) = Live(c)
  BY <1>4 DEF Live
<1>7. d.pend = {} /\ Live(d) = {} /\ c.pend # {}
  BY <1>4, <1>6 DEF Good, Single
<1>8. Good(d)
  BY <1>3, <1>4, <1>5, <1>6, <1>7 DEF Good, Quiet, Single
<1>9. Keeps(c, d)
  BY <1>4, <1>7, <1>8 DEF Keeps, Quiet, Serving, Asking
<1>10. Preserves(c, d)
  BY <1>4, <1>5, <1>9 DEF Preserves, Fenced, Kept
<1> QED
  BY <1>10 DEF d

\* Every frame of the relay.
LEMMA HandleFramePreserves ==
    ASSUME NEW c, Good(c), c.phase = "up", NEW mail \in SUBSET Events, NEW d \in HandleFrame(c, mail)
    PROVE  Preserves(c, d)
<1> DEFINE signed(a) == [Closed(c, a) EXCEPT !.notes = Append(@, Other)]
<1>1. c \in Connection /\ Other \in Notification /\ c.auth \in BOOLEAN
  BY DEF Good, Other, Notification, Connection
<1>2. /\ Preserves(c, c) /\ Preserves(c, Accepted(c))
      /\ \A a \in BOOLEAN : Preserves(c, Closed(c, a))
  BY AuthenticationPreserves
<1>3. CASE d \in Delivered(c, mail)
  <2>1. \A e \in mail : [kind |-> "event", ev |-> e] \in Notification
    BY DEF Notification
  <2>2. \/ \E e \in mail : d = PassedOn(c, [kind |-> "event", ev |-> e])
        \/ d = PassedOn(c, Other)
    BY <1>3 DEF Delivered
  <2> QED
    BY <1>1, <1>2, <2>1, <2>2, NotifyPreserves
<1>4. CASE d \in Authenticated(c)
  <2>1. \/ d = PassedOn(Accepted(c), Other) \/ d = PassedOn(Closed(c, FALSE), Other)
        \/ d = Disconnected(Accepted(c))
    BY <1>4 DEF Authenticated
  <2> QED
    BY <1>1, <1>2, <2>1, NotifyPreserves, DisconnectedPreserves DEF Preserves
<1>5. ASSUME NEW a \in BOOLEAN
      PROVE  Preserves(c, signed(a))
  <2>1. Preserves(c, Closed(c, a)) /\ Good(Closed(c, a))
    BY <1>2 DEF Preserves, Keeps
  <2>2. /\ Preserves(Closed(c, a), signed(a))
        /\ signed(a).wire = Closed(c, a).wire /\ signed(a).pend = Closed(c, a).pend
        /\ signed(a).open = Closed(c, a).open
    BY <1>1, <2>1, NoteKeeps
  <2> HIDE DEF signed
  <2>3. Keeps(c, signed(a))
    BY <2>1, <2>2, KeepsTransitive DEF Preserves
  <2> QED
    BY <2>1, <2>2, <2>3 DEF Preserves, Fenced
<1>6. CASE d \in Challenged(c)
  <2>1. \/ d = Disconnected(c) \/ d = [c EXCEPT !.notes = Append(@, Other)]
        \/ d = signed(TRUE) \/ d = Disconnected(signed(c.auth))
    BY <1>6 DEF Challenged
  <2> HIDE DEF signed
  <2>2. Preserves(c, [c EXCEPT !.notes = Append(@, Other)])
    BY <1>1, NoteKeeps
  <2> QED
    BY <1>1, <1>2, <1>5, <2>1, <2>2, DisconnectedPreserves DEF Preserves
<1>7. CASE d \in UNION {{OkReceived(c, e, ok) : ok \in BOOLEAN} : e \in c.pend}
  <2>1. \E e \in c.pend : \E ok \in BOOLEAN : d = OkReceived(c, e, ok)
    BY <1>7
  <2> QED
    BY <2>1, OkPreserves
<1> QED
  BY <1>3, <1>4, <1>6, <1>7 DEF HandleFrame

\* wait_to_reconnect.
LEMMA WaitPreserves ==
    ASSUME NEW c, Good(c), c.phase = "backoff", NEW d \in WaitToReconnect(c)
    PROVE  Preserves(c, d)
<1> DEFINE x == [c EXCEPT !.cmds = Tail(@)]
           m == Head(c.cmds)
<1>1. \/ d = [c EXCEPT !.phase = "connecting"]
      \/ c.cmds # <<>> /\ d = Ended(x)
      \/ c.cmds # <<>> /\ d = [Reply(x, m.live, "err") EXCEPT !.phase = "connecting"]
  BY DEF WaitToReconnect
<1>2. c.cmds # <<>> => Taken(c, x, m)
  BY TakeFields
<1> HIDE DEF x, m
<1>3. ASSUME NEW y, Keeps(c, y), y.phase = "backoff", y.wire \subseteq c.wire, y.pend \subseteq c.pend
      PROVE  Preserves(c, [y EXCEPT !.phase = "connecting"])
  <2> DEFINE z == [y EXCEPT !.phase = "connecting"]
  <2>1. y \in Connection /\ Good(y)
    BY <1>3 DEF Keeps, Good
  <2>2. z \in Connection
    BY <2>1 DEF Connection
  <2>3. /\ z.phase = "connecting" /\ z.wire = y.wire /\ z.pend = y.pend /\ z.cmds = y.cmds
        /\ z.subs = y.subs /\ z.took = y.took /\ z.call = y.call
    BY <2>1 DEF Connection
  <2>4. z.open = y.open
    BY <2>1 DEF Connection
  <2> HIDE DEF z
  <2>5. Live(z) = Live(y)
    BY <2>3 DEF Live
  <2>6. Good(z)
    BY <2>1, <2>2, <2>3, <2>4, <2>5 DEF Good, Quiet
  <2>7. Keeps(y, z)
    BY <2>3, <2>5, <2>6 DEF Keeps, Quiet, Serving, Asking
  <2>8. Keeps(c, z)
    BY <1>3, <2>7, KeepsTransitive
  <2>9. Preserves(c, z)
    BY <1>3, <2>3, <2>8 DEF Preserves, Fenced, Kept
  <2> QED
    BY <2>9 DEF z
<1>4. CASE d = [c EXCEPT !.phase = "connecting"]
  BY <1>3, <1>4 DEF Keeps
<1>5. CASE c.cmds # <<>> /\ d = Ended(x)
  BY <1>2, <1>5, CommandFails
<1>6. CASE c.cmds # <<>> /\ d = [Reply(x, m.live, "err") EXCEPT !.phase = "connecting"]
  <2> DEFINE y == Reply(x, m.live, "err")
  <2>1. x \in Connection /\ x.phase = "backoff" /\ x.wire = c.wire /\ x.pend = c.pend
    BY <1>2, <1>6 DEF Taken
  <2>2. y.phase = x.phase /\ y.wire = x.wire /\ y.pend = x.pend
    BY <2>1 DEF Reply, Connection
  <2>3. Keeps(c, y)
    BY <1>2, <1>6, CommandFails
  <2> HIDE DEF y
  <2>4. Preserves(c, [y EXCEPT !.phase = "connecting"])
    BY <1>3, <2>1, <2>2, <2>3
  <2> QED
    BY <1>6, <2>4 DEF y
<1> QED
  BY <1>1, <1>4, <1>5, <1>6

(***************************************************************************)
(* The calls of the pool.                                                  *)
(***************************************************************************)
\* A call is issued where none is waiting.
LEMMA IssueGood ==
    ASSUME NEW c, Good(c), Quiet(c), NEW m \in Command, Fit(m), m.live
    PROVE  /\ Good(Issue(c, m)) /\ Fenced(c, Issue(c, m))
           /\ Issue(c, m).subs = c.subs /\ Issue(c, m).phase = c.phase
           /\ Issue(c, m).pend = {} /\ Issue(c, m).call \in {"waiting", "err"}
           /\ \A i \in Live(Issue(c, m)) : Issue(c, m).cmds[i] = m
           /\ \A s \in Subscriptions : Kept(c, s) => Kept(Issue(c, m), s)
           /\ m.op = "subscribe" => Kept(Issue(c, m), m.sub)
<1> DEFINE full == c.full \/ (c.phase = "up" /\ m.op = "subscribe")
           refused == [c EXCEPT !.call = "err", !.full = full]
           sent == [c EXCEPT !.cmds = Append(@, m), !.call = "waiting"]
           d == Issue(c, m)
<1>1. c \in Connection /\ c.cmds \in Seq(Command) /\ full \in BOOLEAN
  BY DEF Good, Connection
<1>2. CASE c.phase = "ended" \/ Len(c.cmds) = CommandDepth
  <2>1. d = refused
    BY <1>2 DEF Issue
  <2>2. d \in Connection
    BY <1>1, <2>1 DEF Connection
  <2>3. /\ d.phase = c.phase /\ d.wire = c.wire /\ d.pend = c.pend /\ d.cmds = c.cmds
        /\ d.subs = c.subs /\ d.took = c.took /\ d.call = "err" /\ d.notes = c.notes
    BY <1>1, <2>1 DEF Connection
  <2>4. d.open = c.open /\ d.full = full
    BY <1>1, <2>1 DEF Connection
  <2> HIDE DEF d
  <2>5. Live(d) = Live(c)
    BY <2>3 DEF Live
  <2>6. Good(d)
    BY <2>2, <2>3, <2>4, <2>5 DEF Good, Quiet
  <2> QED
    BY <2>3, <2>4, <2>5, <2>6 DEF Fenced, Quiet, Kept, d
<1>3. CASE ~(c.phase = "ended" \/ Len(c.cmds) = CommandDepth)
  <2>1. d = sent
    BY <1>3 DEF Issue
  <2>2. d \in Connection
    <3>1. Append(c.cmds, m) \in Seq(Command)
      BY <1>1
    <3> QED
      BY <1>1, <2>1, <3>1 DEF Connection
  <2>3. /\ d.phase = c.phase /\ d.wire = c.wire /\ d.pend = c.pend /\ d.cmds = Append(c.cmds, m)
        /\ d.subs = c.subs /\ d.took = c.took /\ d.call = "waiting" /\ d.notes = c.notes
    BY <1>1, <2>1 DEF Connection
  <2>4. d.open = c.open /\ d.full = c.full
    BY <1>1, <2>1 DEF Connection
  <2> HIDE DEF d
  <2>5. /\ \A i \in DOMAIN c.cmds : i \in DOMAIN d.cmds /\ d.cmds[i] = c.cmds[i]
        /\ \A i \in DOMAIN d.cmds : i \in DOMAIN c.cmds \/ i = Len(c.cmds) + 1
        /\ Len(c.cmds) + 1 \in DOMAIN d.cmds /\ d.cmds[Len(c.cmds) + 1] = m
    BY <1>1, <2>3
  <2>6. Live(d) = {Len(c.cmds) + 1}
    BY <2>5 DEF Live, Quiet
  <2>7. \A i \in DOMAIN d.cmds : Fit(d.cmds[i])
    BY <2>5 DEF Good
  <2>8. Good(d)
    BY <1>3, <2>2, <2>3, <2>4, <2>6, <2>7 DEF Good, Quiet, Single
  <2>9. \A i \in Live(d) : d.cmds[i] = m
    BY <2>5, <2>6
  <2>10. \A s \in Subscriptions : Kept(c, s) => Kept(d, s)
    BY <2>3, <2>4, <2>5, ZenonT(30) DEF Kept
  <2>11. m.op = "subscribe" => Kept(d, m.sub)
    BY <2>5 DEF Kept
  <2> QED
    BY <2>3, <2>4, <2>8, <2>9, <2>10, <2>11 DEF Fenced, Quiet, d
<1> QED
  BY <1>2, <1>3

\* A caller gives up.
LEMMA AbandonGood ==
    ASSUME NEW c, Good(c), NEW result \in {"none", "err"}
    PROVE  /\ Good(Abandon(c, result)) /\ Fenced(c, Abandon(c, result))
           /\ Quiet(Abandon(c, result)) /\ Abandon(c, result).call = result
           /\ Abandon(c, result).phase = c.phase /\ Abandon(c, result).subs = c.subs
           /\ \A e \in Events : Serving(c, e) => Serving(Abandon(c, result), e)
           /\ \A s \in Subscriptions : Asking(c, s) => Asking(Abandon(c, result), s)
           /\ \A s \in Subscriptions : Kept(c, s) => Kept(Abandon(c, result), s)
<1> DEFINE dead == [i \in DOMAIN c.cmds |-> [c.cmds[i] EXCEPT !.live = FALSE]]
           d == Abandon(c, result)
<1>1. c \in Connection /\ c.cmds \in Seq(Command)
  BY DEF Good, Connection
<1>2. /\ DOMAIN dead = DOMAIN c.cmds
      /\ \A i \in DOMAIN c.cmds :
            dead[i].op = c.cmds[i].op /\ dead[i].ev = c.cmds[i].ev /\ dead[i].sub = c.cmds[i].sub
  BY <1>1, SMTT(20) DEF Command
<1>3. \A i \in DOMAIN c.cmds : dead[i].live = FALSE
  BY <1>1 DEF Command
<1>4. dead \in Seq(Command)
  <2>1. \A i \in DOMAIN c.cmds : dead[i] \in Command
    <3>1. \A m \in Command : [m EXCEPT !.live = FALSE] \in Command
      BY DEF Command
    <3>2. \A i \in DOMAIN c.cmds : c.cmds[i] \in Command
      BY <1>1
    <3> QED
      BY <3>1, <3>2
  <2>2. DOMAIN c.cmds = 1..Len(c.cmds) /\ Len(c.cmds) \in Nat
    BY <1>1
  <2>3. dead \in [1..Len(c.cmds) -> Command]
    BY <2>1, <2>2
  <2> HIDE DEF dead
  <2> QED
    BY <2>2, <2>3
<1>5. d = [c EXCEPT !.call = result, !.cmds = dead, !.pend = {}]
  BY DEF Abandon
<1> HIDE DEF dead, d
<1>6. d \in Connection
  BY <1>1, <1>4, <1>5 DEF Connection
<1>7. /\ d.phase = c.phase /\ d.wire = c.wire /\ d.pend = {} /\ d.cmds = dead
      /\ d.subs = c.subs /\ d.took = c.took /\ d.call = result /\ d.notes = c.notes
  BY <1>1, <1>5 DEF Connection
<1>8. d.open = c.open /\ d.full = c.full
  BY <1>1, <1>5 DEF Connection
<1>9. Live(d) = {}
  BY <1>2, <1>3, <1>7 DEF Live
<1>10. \A i \in DOMAIN d.cmds : Fit(d.cmds[i])
  BY <1>2, <1>7 DEF Fit, Good
<1>11. d.phase = "ended" => d.cmds = <<>>
  <2>1. c.cmds = <<>> => dead = <<>>
    BY <1>2, <1>4
  <2> QED
    BY <1>7, <2>1 DEF Good
<1>12. Good(d)
  BY <1>6, <1>7, <1>8, <1>9, <1>10, <1>11 DEF Good, Quiet, Single
<1>13. \A s \in Subscriptions : Kept(c, s) => Kept(d, s)
  BY <1>2, <1>7, <1>8 DEF Kept
<1> QED
  BY <1>7, <1>8, <1>9, <1>12, <1>13 DEF Fenced, Quiet, Serving, Asking, d

\* A connection is asked to end; a full channel loses the command.
LEMMA AskShutdownPreserves ==
    ASSUME NEW c, Good(c)
    PROVE  Preserves(c, AskShutdown(c))
<1> DEFINE d == [c EXCEPT !.cmds = Append(@, Shutdown)]
<1>1. c \in Connection /\ c.cmds \in Seq(Command) /\ Shutdown \in Command /\ Fit(Shutdown) /\ ~Shutdown.live
  BY DEF Good, Connection, Shutdown, Command, Fit
<1>2. AskShutdown(c) = c \/ (c.phase # "ended" /\ AskShutdown(c) = d)
  BY DEF AskShutdown
<1>3. d \in Connection
  <2>1. Append(c.cmds, Shutdown) \in Seq(Command)
    BY <1>1
  <2> QED
    BY <1>1, <2>1 DEF Connection
<1>4. /\ d.phase = c.phase /\ d.wire = c.wire /\ d.pend = c.pend /\ d.cmds = Append(c.cmds, Shutdown)
      /\ d.subs = c.subs /\ d.took = c.took /\ d.call = c.call /\ d.notes = c.notes
  BY <1>1 DEF Connection
<1>5. d.open = c.open /\ d.full = c.full
  BY <1>1 DEF Connection
<1> HIDE DEF d
<1>6. /\ \A i \in DOMAIN c.cmds : i \in DOMAIN d.cmds /\ d.cmds[i] = c.cmds[i]
      /\ \A i \in DOMAIN d.cmds : i \in DOMAIN c.cmds \/ d.cmds[i] = Shutdown
  BY <1>1, <1>4
<1>7. Live(d) = Live(c)
  BY <1>1, <1>6 DEF Live
<1>8. \A i \in DOMAIN d.cmds : Fit(d.cmds[i])
  BY <1>1, <1>6 DEF Good
<1>9. ASSUME c.phase # "ended"
      PROVE  Preserves(c, d)
  <2>1. Good(d)
    BY <1>3, <1>4, <1>5, <1>7, <1>8, <1>9 DEF Good, Quiet
  <2>2. \A e \in Events : Serving(c, e) => Serving(d, e)
    BY <1>4, <1>6, <1>7 DEF Serving, Live
  <2>3. \A s \in Subscriptions : Asking(c, s) => Asking(d, s)
    BY <1>4, <1>6, <1>7 DEF Asking, Live
  <2>4. Keeps(c, d)
    BY <1>4, <1>7, <2>1, <2>2, <2>3 DEF Keeps, Quiet
  <2>5. \A s \in Subscriptions : Kept(c, s) => Kept(d, s)
    BY <1>4, <1>5, <1>6 DEF Kept
  <2> QED
    BY <1>4, <1>5, <2>4, <2>5 DEF Preserves, Fenced
<1>10. Preserves(c, c)
  BY DEF Preserves, Keeps, Fenced
<1> QED
  BY <1>2, <1>9, <1>10

\* A connection as it is spawned, and one that is not part of a pool.
LEMMA SpawnGood ==
    ASSUME NEW signer \in BOOLEAN
    PROVE  /\ Good(Spawn(signer)) /\ Quiet(Spawn(signer)) /\ Spawn(signer).call = "none"
           /\ Spawn(signer).wire = {} /\ Spawn(signer).pend = {} /\ Spawn(signer).phase # "up"
           /\ Good([Spawn(signer) EXCEPT !.phase = "ended"]) /\ Quiet([Spawn(signer) EXCEPT !.phase = "ended"])
           /\ [Spawn(signer) EXCEPT !.phase = "ended"].call = "none"
           /\ [Spawn(signer) EXCEPT !.phase = "ended"].wire = {}
           /\ [Spawn(signer) EXCEPT !.phase = "ended"].pend = {}
           /\ [Spawn(signer) EXCEPT !.phase = "ended"].phase = "ended"
<1>1. ASSUME NEW d \in Connection, d.wire = {}, d.pend = {}, d.cmds = <<>>, d.call = "none", d.open = FALSE
      PROVE  Good(d) /\ Quiet(d)
  <2>1. Live(d) = {}
    BY <1>1, SMTT(20) DEF Live
  <2> QED
    BY <1>1, <2>1, SMTT(20) DEF Good, Quiet, Single
<1> DEFINE c == Spawn(signer)
           e == [c EXCEPT !.phase = "ended"]
<1>2. c \in Connection
  <2>1. <<>> \in Seq(Command) /\ <<>> \in Seq(Notification)
    OBVIOUS
  <2> QED
    BY <2>1 DEF Spawn, Connection
<1>3. /\ c.phase = "connecting" /\ c.wire = {} /\ c.subs = {} /\ c.pend = {} /\ c.cmds = <<>>
      /\ c.call = "none" /\ c.open = FALSE
  BY DEF Spawn
<1> HIDE DEF c
<1>4. e \in Connection
  BY <1>2 DEF Connection
<1>5. /\ e.phase = "ended" /\ e.wire = c.wire /\ e.pend = c.pend /\ e.cmds = c.cmds
      /\ e.call = c.call
  BY <1>2 DEF Connection
<1>6. e.open = c.open
  BY <1>2 DEF Connection
<1>7. Good(c) /\ Quiet(c)
  BY <1>1, <1>2, <1>3
<1> HIDE DEF e
<1>8. Good(e) /\ Quiet(e)
  BY <1>1, <1>3, <1>4, <1>5, <1>6
<1> QED
  BY <1>3, <1>5, <1>7, <1>8 DEF c, e

\* A call whose result is collected.
LEMMA CollectGood ==
    ASSUME NEW c, Good(c), c.call # "waiting"
    PROVE  LET d == [c EXCEPT !.call = "none", !.took = {}]
           IN /\ Good(d) /\ Fenced(c, d) /\ Quiet(d) /\ d.call = "none"
              /\ d.subs = c.subs /\ d.phase = c.phase
              /\ \A s \in Subscriptions : Kept(c, s) => Kept(d, s)
<1> DEFINE d == [c EXCEPT !.call = "none", !.took = {}]
<1>1. c \in Connection
  BY DEF Good
<1>2. d \in Connection
  BY <1>1 DEF Connection
<1>3. /\ d.phase = c.phase /\ d.wire = c.wire /\ d.pend = c.pend /\ d.cmds = c.cmds
      /\ d.subs = c.subs /\ d.took = {} /\ d.call = "none" /\ d.notes = c.notes
  BY <1>1 DEF Connection
<1>4. d.open = c.open /\ d.full = c.full
  BY <1>1 DEF Connection
<1> HIDE DEF d
<1>5. Live(d) = Live(c)
  BY <1>3 DEF Live
<1>6. Good(d) /\ Quiet(d)
  BY <1>2, <1>3, <1>4, <1>5 DEF Good, Quiet
<1>7. /\ Good(d) /\ Fenced(c, d) /\ Quiet(d) /\ d.call = "none"
      /\ d.subs = c.subs /\ d.phase = c.phase
      /\ \A s \in Subscriptions : Kept(c, s) => Kept(d, s)
  BY <1>3, <1>4, <1>6 DEF Fenced, Kept
<1> QED
  BY <1>7 DEF d

\* The pool reads a notification.
LEMMA TakeNoteGood ==
    ASSUME NEW c, Good(c), c.notes # <<>>
    PROVE  LET d == [c EXCEPT !.notes = Tail(@)]
           IN /\ Keeps(c, d) /\ Fenced(c, d) /\ d.phase = c.phase /\ d.subs = c.subs
              /\ \A s \in Subscriptions :
                    Kept(c, s) /\ (Head(c.notes).kind # "connected" \/ s \in c.subs) => Kept(d, s)
<1> DEFINE d == [c EXCEPT !.notes = Tail(@)]
<1>1. c \in Connection /\ c.notes \in Seq(Notification)
  BY DEF Good, Connection
<1>2. d \in Connection
  <2>1. Tail(c.notes) \in Seq(Notification)
    BY <1>1
  <2> QED
    BY <1>1, <2>1 DEF Connection
<1>3. /\ d.phase = c.phase /\ d.wire = c.wire /\ d.pend = c.pend /\ d.cmds = c.cmds
      /\ d.subs = c.subs /\ d.took = c.took /\ d.call = c.call /\ d.notes = Tail(c.notes)
  BY <1>1 DEF Connection
<1>4. d.open = c.open /\ d.full = c.full
  BY <1>1 DEF Connection
<1> HIDE DEF d
<1>5. Live(d) = Live(c)
  BY <1>3 DEF Live
<1>6. Keeps(c, d)
  BY <1>2, <1>3, <1>4, <1>5 DEF Good, Keeps, Quiet, Serving, Asking
<1>7. \A i \in DOMAIN c.notes : i = 1 \/ (i - 1 \in DOMAIN d.notes /\ d.notes[i - 1] = c.notes[i])
  BY <1>1, <1>3
<1>8. Head(c.notes) = c.notes[1]
  OBVIOUS
<1>9. \A s \in Subscriptions :
        Kept(c, s) /\ (Head(c.notes).kind # "connected" \/ s \in c.subs) => Kept(d, s)
  BY <1>3, <1>4, <1>7, <1>8 DEF Kept
<1>10. Fenced(c, d)
  BY <1>3, <1>4 DEF Fenced
<1> QED
  BY <1>3, <1>6, <1>9, <1>10 DEF d

\* A connection of a pool that was shut down.
LEMMA ResetGood ==
    ASSUME NEW c, Good(c), c.phase = "ended"
    PROVE  LET d == [c EXCEPT !.notes = <<>>, !.subs = {}, !.took = {}, !.call = "none"]
           IN Good(d) /\ Quiet(d) /\ Fenced(c, d) /\ d.call = "none" /\ d.phase = "ended"
<1> DEFINE d == [c EXCEPT !.notes = <<>>, !.subs = {}, !.took = {}, !.call = "none"]
<1>1. c \in Connection
  BY DEF Good
<1>2. d \in Connection
  <2>1. <<>> \in Seq(Notification)
    OBVIOUS
  <2> QED
    BY <1>1, <2>1 DEF Connection
<1>3. /\ d.phase = c.phase /\ d.wire = c.wire /\ d.pend = c.pend /\ d.cmds = c.cmds
      /\ d.subs = {} /\ d.call = "none"
  BY <1>1 DEF Connection
<1>4. d.open = c.open
  BY <1>1 DEF Connection
<1> HIDE DEF d
<1>5. d.wire = {} /\ d.pend = {} /\ d.cmds = <<>> /\ ~d.open
  BY <1>3, <1>4 DEF Good
<1>6. Live(d) = {}
  BY <1>5, SMTT(20) DEF Live
<1>7. Good(d) /\ Quiet(d)
  BY <1>2, <1>3, <1>5, <1>6 DEF Good, Quiet, Single
<1> QED
  BY <1>3, <1>5, <1>7 DEF Fenced, d

(***************************************************************************)
(* The window of event ids.                                                *)
(***************************************************************************)
Distinct(s) == \A i, j \in DOMAIN s : s[i] = s[j] => i = j

Window(p) ==
    /\ p \in Pools
    /\ p.seen = Range(p.order)
    /\ Distinct(p.order)
    /\ Len(p.order) <= DedupCapacity

\* Everything but the window.
SamePool(p, q) ==
    /\ q.there = p.there /\ q.relays = p.relays /\ q.subs = p.subs
    /\ q.sync = p.sync /\ q.closed = p.closed

\* A sequence without repetition has as many elements as its length.
LEMMA DistinctCardinality ==
    ASSUME NEW S, NEW s \in Seq(S), Distinct(s)
    PROVE  Cardinality(Range(s)) = Len(s)
<1>1. Len(s) \in Nat /\ DOMAIN s = 1..Len(s) /\ s \in [1..Len(s) -> S]
  OBVIOUS
<1>2. s \in [1..Len(s) -> Range(s)]
  BY <1>1 DEF Range
<1>3. s \in Injection(1..Len(s), Range(s))
  BY <1>1, <1>2 DEF Injection, IsInjective, Distinct
<1>4. s \in Surjection(1..Len(s), Range(s))
  BY <1>1, <1>2 DEF Surjection, Range
<1>5. ExistsBijection(1..Len(s), Range(s))
  BY <1>3, <1>4 DEF ExistsBijection, Bijection
<1> QED
  BY <1>1, <1>5, FS_CountingElements

\* The first k entries leave the window together.
LEMMA WithoutWindow ==
    ASSUME NEW q, Window(q), NEW k \in 0..Len(q.order)
    PROVE  /\ Window(Without(q, k)) /\ SamePool(q, Without(q, k))
           /\ Len(Without(q, k).order) = Len(q.order) - k
<1> DEFINE order == SubSeq(q.order, k + 1, Len(q.order))
           seen == q.seen \ {q.order[i] : i \in 1..k}
           w == Without(q, k)
<1>1. q.order \in Seq(Events) /\ Len(q.order) \in Nat /\ DOMAIN q.order = 1..Len(q.order)
  BY SMTT(20) DEF Window, Pools
<1>2. /\ order \in Seq(Events) /\ Len(order) = Len(q.order) - k
      /\ DOMAIN order = 1..(Len(q.order) - k)
      /\ \A i \in 1..(Len(q.order) - k) : order[i] = q.order[k + i]
  BY <1>1
<1>3. seen \subseteq Events
  BY DEF Window, Pools
<1>4. Distinct(q.order) /\ q.seen = Range(q.order)
  BY DEF Window
<1>5. seen = Range(order)
  <2>1. ASSUME NEW e \in seen PROVE e \in Range(order)
    <3>1. PICK i \in DOMAIN q.order : e = q.order[i]
      BY <1>4 DEF Range
    <3>2. i \in 1..Len(q.order) /\ i \notin 1..k
      BY <1>1, <3>1
    <3>3. i - k \in 1..(Len(q.order) - k) /\ order[i - k] = q.order[i]
      BY <1>1, <1>2, <3>2, SMTT(20)
    <3> QED
      BY <1>2, <3>1, <3>3 DEF Range
  <2>2. ASSUME NEW e \in Range(order) PROVE e \in seen
    <3>1. PICK j \in 1..(Len(q.order) - k) : e = q.order[k + j]
      BY <1>2 DEF Range
    <3>2. k + j \in DOMAIN q.order /\ k + j \notin 1..k
      BY <1>1
    <3>3. e \in q.seen
      BY <1>4, <3>1, <3>2 DEF Range
    <3>4. \A i \in 1..k : q.order[i] # e
      BY <1>1, <1>4, <3>1, <3>2, SMTT(20) DEF Distinct
    <3> QED
      BY <3>3, <3>4
  <2> QED
    BY <2>1, <2>2
<1>6. Distinct(order)
  <2> SUFFICES ASSUME NEW i \in 1..(Len(q.order) - k), NEW j \in 1..(Len(q.order) - k), order[i] = order[j]
               PROVE  i = j
    BY <1>2 DEF Distinct
  <2>1. k + i \in DOMAIN q.order /\ k + j \in DOMAIN q.order /\ q.order[k + i] = q.order[k + j]
    BY <1>1, <1>2
  <2>2. k + i = k + j
    BY <1>4, <2>1 DEF Distinct
  <2> QED
    BY <2>2
<1>0. w = [q EXCEPT !.order = order, !.seen = seen]
  BY DEF Without
<1> HIDE DEF order, seen, w
<1>7. w \in Pools
  BY <1>0, <1>2, <1>3 DEF Window, Pools
<1>8. /\ w.order = order /\ w.seen = seen
      /\ w.relays = q.relays /\ w.subs = q.subs /\ w.sync = q.sync /\ w.closed = q.closed
  BY <1>0 DEF Window, Pools
<1>9. w.there = q.there
  BY <1>0 DEF Window, Pools
<1> HIDE DEF w
<1>10. DedupCapacity \in Nat
  BY PoolAssumption
<1>11. Window(w) /\ Len(w.order) = Len(q.order) - k
  BY <1>1, <1>2, <1>5, <1>6, <1>7, <1>8, <1>10 DEF Window
<1> QED
  BY <1>8, <1>9, <1>11 DEF w, SamePool

\* An event that is not in the window enters it.
LEMMA EnteredWindow ==
    ASSUME NEW q, Window(q), NEW e \in Events \ q.seen
    PROVE  Window(Entered(q, e)) /\ SamePool(q, Entered(q, e))
<1> DEFINE excess == IF Cardinality(q.seen) >= DedupCapacity
                     THEN Cardinality(q.seen) + 1 - DedupCapacity ELSE 0
           d == Without(q, excess)
           x == Entered(q, e)
<1>1. /\ q.order \in Seq(Events) /\ Len(q.order) \in Nat /\ Len(q.order) <= DedupCapacity
      /\ DedupCapacity \in Nat \ {0}
  BY PoolAssumption, SMTT(20) DEF Window, Pools
<1>2. Cardinality(q.seen) = Len(q.order)
  BY <1>1, DistinctCardinality DEF Window
<1>3. excess \in 0..Len(q.order) /\ Len(q.order) - excess < DedupCapacity
  <2> DEFINE n == Len(q.order)
  <2>1. excess = IF n >= DedupCapacity THEN n + 1 - DedupCapacity ELSE 0
    BY <1>2
  <2>2. n \in Nat /\ n <= DedupCapacity /\ DedupCapacity \in Nat \ {0}
    BY <1>1
  <2> HIDE DEF n, excess
  <2>3. excess \in 0..n /\ n - excess < DedupCapacity
    BY <2>1, <2>2
  <2> QED
    BY <2>3 DEF n
<1>4. x = [d EXCEPT !.seen = @ \cup {e}, !.order = Append(@, e)]
  BY DEF Entered
<1> HIDE DEF excess, x
<1>5. Window(d) /\ SamePool(q, d) /\ Len(d.order) = Len(q.order) - excess
  BY <1>3, WithoutWindow
<1>6. e \notin d.seen
  <2>1. d.seen = q.seen \ {q.order[i] : i \in 1..excess}
    BY DEF Without, Window, Pools
  <2> QED
    BY <2>1
<1> HIDE DEF d
<1>7. d \in Pools /\ d.order \in Seq(Events) /\ d.seen \subseteq Events /\ Distinct(d.order) /\ d.seen = Range(d.order)
  BY <1>5 DEF Window, Pools
<1>8. /\ Append(d.order, e) \in Seq(Events) /\ Len(Append(d.order, e)) = Len(d.order) + 1
      /\ DOMAIN Append(d.order, e) = 1..(Len(d.order) + 1)
      /\ DOMAIN d.order = 1..Len(d.order)
      /\ \A i \in DOMAIN d.order : Append(d.order, e)[i] = d.order[i]
      /\ Append(d.order, e)[Len(d.order) + 1] = e /\ Len(d.order) \in Nat
  BY <1>7
<1>9. \A i \in DOMAIN d.order : d.order[i] # e
  BY <1>6, <1>7 DEF Range
<1>10. Distinct(Append(d.order, e))
  <2> SUFFICES ASSUME NEW i \in 1..(Len(d.order) + 1), NEW j \in 1..(Len(d.order) + 1),
                      Append(d.order, e)[i] = Append(d.order, e)[j]
               PROVE  i = j
    BY <1>8 DEF Distinct
  <2>1. i \in DOMAIN d.order \/ i = Len(d.order) + 1
    BY <1>8, SMTT(20)
  <2>2. j \in DOMAIN d.order \/ j = Len(d.order) + 1
    BY <1>8, SMTT(20)
  <2> QED
    BY <1>7, <1>8, <1>9, <2>1, <2>2 DEF Distinct
<1>11. Range(Append(d.order, e)) = d.seen \cup {e}
  <2>1. \A i \in 1..(Len(d.order) + 1) : i \in DOMAIN d.order \/ i = Len(d.order) + 1
    BY <1>8, SMTT(20)
  <2> QED
    BY <1>7, <1>8, <2>1, SMTT(20) DEF Range
<1>12. x \in Pools
  BY <1>4, <1>7, <1>8 DEF Pools
<1>13. /\ x.order = Append(d.order, e) /\ x.seen = d.seen \cup {e}
       /\ x.relays = d.relays /\ x.subs = d.subs /\ x.sync = d.sync /\ x.closed = d.closed
  BY <1>4, <1>7 DEF Pools
<1>14. x.there = d.there
  BY <1>4, <1>7 DEF Pools
<1>15. Len(d.order) + 1 <= DedupCapacity
  BY <1>1, <1>3, <1>5, <1>8, SMTT(20)
<1>16. Window(x)
  BY <1>8, <1>10, <1>11, <1>12, <1>13, <1>15 DEF Window
<1>17. SamePool(q, x)
  BY <1>5, <1>13, <1>14 DEF SamePool
<1> QED
  BY <1>16, <1>17 DEF x

\* remember_event keeps the window exact.
LEMMA RememberWindow ==
    ASSUME NEW p, Window(p), NEW e \in Events, NEW m \in RememberEvent(p, e)
    PROVE  Window(m.pool) /\ SamePool(p, m.pool)
<1>1. PICK k \in 0..Len(p.order) :
          m = (LET q == Without(p, k)
               IN IF e \in q.seen THEN [fresh |-> FALSE, pool |-> q]
                  ELSE [fresh |-> TRUE, pool |-> Entered(q, e)])
  BY DEF RememberEvent
<1> DEFINE q == Without(p, k)
<1>2. Window(q) /\ SamePool(p, q)
  BY WithoutWindow
<1>3. (e \in q.seen /\ m.pool = q) \/ (e \notin q.seen /\ m.pool = Entered(q, e))
  BY <1>1
<1> HIDE DEF q
<1>4. e \notin q.seen => Window(Entered(q, e)) /\ SamePool(q, Entered(q, e))
  BY <1>2, EnteredWindow
<1> QED
  BY <1>2, <1>3, <1>4 DEF SamePool

(***************************************************************************)
(* The inductive invariant of the pool: a connection nobody awaits has no  *)
(* call in flight, one that is not of the pool has ended, and what the     *)
(* pool takes to be subscribed is kept by the connection.                  *)
(***************************************************************************)
Fine(c, p, w, r) ==
    /\ Good(c)
    /\ r \notin w => Quiet(c) /\ c.call = "none"
    /\ r \notin p.relays => c.phase = "ended"
    /\ p.sync[r] \subseteq c.subs
    /\ \A s \in p.subs : Kept(c, s)

PoolInv ==
    /\ conn \in [Relays -> Connection]
    /\ Window(pool)
    /\ awaiting \subseteq Relays
    /\ \A r \in Relays : Fine(conn[r], pool, awaiting, r)

\* Nothing is sent on a session that is not open.
FenceStep == \A r \in Relays : Fenced(conn[r], conn'[r])

\* A publish, or a subscription, that is in progress stays one.
StaysServing == \A r \in Relays, e \in Events : Serving(conn[r], e) => Serving(conn'[r], e)
StaysAsking == \A r \in Relays, s \in Subscriptions : Asking(conn[r], s) => Asking(conn'[r], s)

\* Every relay's state is replaced by one that is fine.
LEMMA PoolStep ==
    ASSUME DOMAIN conn' = Relays, Window(pool'), awaiting' \subseteq Relays, conn' = [r \in Relays |-> conn'[r]],
           \A r \in Relays : Fine(conn'[r], pool', awaiting', r) /\ Fenced(conn[r], conn'[r])
    PROVE  PoolInv' /\ FenceStep
<1>1. \A r \in Relays : conn'[r] \in Connection
  BY DEF Fine, Good
<1>2. conn' \in [Relays -> Connection]
  BY <1>1
<1> QED
  BY <1>2 DEF PoolInv, FenceStep

\* One connection changes.
LEMMA ConnectionStep ==
    ASSUME PoolInv, NEW r \in Relays, NEW c, conn' = [conn EXCEPT ![r] = c],
           UNCHANGED <<pool, awaiting>>,
           Fine(c, pool, awaiting, r), Fenced(conn[r], c),
           \A e \in Events : Serving(conn[r], e) => Serving(c, e),
           \A s \in Subscriptions : Asking(conn[r], s) => Asking(c, s)
    PROVE  PoolInv' /\ FenceStep /\ StaysServing /\ StaysAsking
<1>1. conn \in [Relays -> Connection] /\ Window(pool) /\ awaiting \subseteq Relays
  BY DEF PoolInv
<1>2. \A q \in Relays : conn'[q] = IF q = r THEN c ELSE conn[q]
  BY <1>1
<1>3. DOMAIN conn' = Relays /\ conn' = [q \in Relays |-> conn'[q]]
  BY <1>1
<1>4. \A q \in Relays : Fine(conn[q], pool, awaiting, q)
  BY DEF PoolInv
<1>5. \A q \in Relays : Fenced(conn[q], conn[q])
  BY DEF Fenced
<1>6. \A q \in Relays : Fine(conn'[q], pool', awaiting', q) /\ Fenced(conn[q], conn'[q])
  BY <1>2, <1>4, <1>5
<1>7. Window(pool') /\ awaiting' \subseteq Relays
  BY <1>1
<1>8. PoolInv' /\ FenceStep
  BY <1>3, <1>6, <1>7, PoolStep
<1>9. StaysServing /\ StaysAsking
  BY <1>2 DEF StaysServing, StaysAsking
<1> QED
  BY <1>8, <1>9

\* A step of the actor of one connection.
LEMMA ActorStep ==
    ASSUME PoolInv, NEW r \in Relays, NEW c, Preserves(conn[r], c), conn[r].phase # "ended",
           conn' = [conn EXCEPT ![r] = c], UNCHANGED <<pool, awaiting>>
    PROVE  PoolInv' /\ FenceStep /\ StaysServing /\ StaysAsking
<1>1. Fine(conn[r], pool, awaiting, r)
  BY DEF PoolInv
<1>2. pool.subs \subseteq Subscriptions
  BY DEF PoolInv, Window, Pools
<1>3. Fine(c, pool, awaiting, r)
  BY <1>1, <1>2 DEF Fine, Preserves, Keeps
<1> QED
  BY <1>3, ConnectionStep DEF Preserves, Keeps

\* Every step of a connection, and the timers.
LEMMA ActorSteps ==
    ASSUME PoolInv, NEW r \in Relays, NEW mail \in SUBSET Events, UNCHANGED <<pool, awaiting>>,
           \/ ActorConnect(r) \/ ActorCommand(r) \/ ActorFrame(r, mail) \/ ActorLost(r) \/ ActorWait(r)
           \/ CallTimeout(r) \/ AbortConnection(r)
    PROVE  PoolInv' /\ FenceStep /\ StaysServing /\ StaysAsking
<1>1. Good(conn[r]) /\ Fine(conn[r], pool, awaiting, r)
  BY DEF PoolInv, Fine
<1>2. CASE ActorConnect(r)
  <2>1. PICK c \in Connect(conn[r]) : conn' = [conn EXCEPT ![r] = c]
    BY <1>2 DEF ActorConnect, Become
  <2>2. Preserves(conn[r], c) /\ conn[r].phase # "ended"
    BY <1>1, <1>2, ConnectPreserves DEF ActorConnect
  <2> QED
    BY <2>1, <2>2, ActorStep
<1>3. CASE ActorCommand(r)
  <2>1. PICK c \in HandleCommand(conn[r]) : conn' = [conn EXCEPT ![r] = c]
    BY <1>3 DEF ActorCommand, Become
  <2>2. Preserves(conn[r], c) /\ conn[r].phase # "ended"
    BY <1>1, <1>3, HandleCommandPreserves DEF ActorCommand, Up
  <2> QED
    BY <2>1, <2>2, ActorStep
<1>4. CASE ActorFrame(r, mail)
  <2>1. PICK c \in HandleFrame(conn[r], mail) : conn' = [conn EXCEPT ![r] = c]
    BY <1>4 DEF ActorFrame, Become
  <2>2. Preserves(conn[r], c) /\ conn[r].phase # "ended"
    BY <1>1, <1>4, HandleFramePreserves DEF ActorFrame, Up
  <2> QED
    BY <2>1, <2>2, ActorStep
<1>5. CASE ActorLost(r)
  <2>1. conn' = [conn EXCEPT ![r] = Disconnected(conn[r])]
    BY <1>5 DEF ActorLost, Become
  <2>2. Preserves(conn[r], Disconnected(conn[r])) /\ conn[r].phase # "ended"
    BY <1>1, <1>5, DisconnectedPreserves DEF ActorLost, Up, Keeps
  <2> QED
    BY <2>1, <2>2, ActorStep
<1>6. CASE ActorWait(r)
  <2>1. PICK c \in WaitToReconnect(conn[r]) : conn' = [conn EXCEPT ![r] = c]
    BY <1>6 DEF ActorWait, Become
  <2>2. Preserves(conn[r], c) /\ conn[r].phase # "ended"
    BY <1>1, <1>6, WaitPreserves DEF ActorWait
  <2> QED
    BY <2>1, <2>2, ActorStep
<1>7. CASE AbortConnection(r)
  <2>1. conn' = [conn EXCEPT ![r] = Ended(conn[r])]
    BY <1>7 DEF AbortConnection, Become
  <2>2. Preserves(conn[r], Ended(conn[r])) /\ conn[r].phase # "ended"
    BY <1>1, <1>7, DisconnectedPreserves DEF AbortConnection, Keeps
  <2> QED
    BY <2>1, <2>2, ActorStep
<1>8. CASE CallTimeout(r)
  <2> DEFINE c == Abandon(conn[r], "err")
  <2>1. conn' = [conn EXCEPT ![r] = c] /\ r \in awaiting
    BY <1>8 DEF CallTimeout, Become
  <2>2. /\ Good(c) /\ Fenced(conn[r], c) /\ c.phase = conn[r].phase /\ c.subs = conn[r].subs
        /\ \A e \in Events : Serving(conn[r], e) => Serving(c, e)
        /\ \A s \in Subscriptions : Asking(conn[r], s) => Asking(c, s)
        /\ \A s \in Subscriptions : Kept(conn[r], s) => Kept(c, s)
    BY <1>1, AbandonGood
  <2> HIDE DEF c
  <2>3. pool.subs \subseteq Subscriptions
    BY DEF PoolInv, Window, Pools
  <2>4. Fine(c, pool, awaiting, r)
    BY <1>1, <2>1, <2>2, <2>3 DEF Fine
  <2> QED
    BY <2>1, <2>2, <2>4, ConnectionStep
<1> QED
  BY <1>2, <1>3, <1>4, <1>5, <1>6, <1>7, <1>8

(***************************************************************************)
(* The operations of the owner.                                            *)
(***************************************************************************)
\* What PoolInv says, in the form the steps use it.
LEMMA PoolFacts ==
    ASSUME PoolInv
    PROVE  /\ DOMAIN conn = Relays /\ awaiting \subseteq Relays
           /\ pool \in Pools /\ Window(pool)
           /\ pool.relays \subseteq Relays /\ pool.subs \subseteq Subscriptions
           /\ pool.sync \in [Relays -> SUBSET Subscriptions]
           /\ \A r \in Relays : Fine(conn[r], pool, awaiting, r) /\ Good(conn[r]) /\ Fenced(conn[r], conn[r])
<1>1. /\ conn \in [Relays -> Connection] /\ Window(pool) /\ awaiting \subseteq Relays
      /\ \A r \in Relays : Fine(conn[r], pool, awaiting, r)
  BY DEF PoolInv
<1>2. pool \in Pools
  BY <1>1 DEF Window
<1>3. pool.relays \subseteq Relays /\ pool.subs \subseteq Subscriptions /\ pool.sync \in [Relays -> SUBSET Subscriptions]
  BY <1>2 DEF Pools
<1>4. \A r \in Relays : Good(conn[r]) /\ Fenced(conn[r], conn[r])
  BY <1>1 DEF Fine, Fenced
<1> QED
  BY <1>1, <1>2, <1>3, <1>4

\* No pool at all.
LEMMA NoPoolWindow == Window(NoPool) /\ NoPool.relays = {} /\ NoPool.subs = {} /\ NoPool.sync = [r \in Relays |-> {}]
<1>1. <<>> \in Seq(Events) /\ [r \in Relays |-> {}] \in [Relays -> SUBSET Subscriptions]
  OBVIOUS
<1>2. NoPool \in Pools
  BY <1>1 DEF NoPool, Pools
<1>3. NoPool.seen = {} /\ NoPool.order = <<>>
  BY DEF NoPool
<1>4. Range(<<>>) = {} /\ Distinct(<<>>) /\ Len(<<>>) <= DedupCapacity
  BY PoolAssumption DEF Range, Distinct
<1> QED
  BY <1>2, <1>3, <1>4 DEF Window, NoPool

\* shutdown begins: every relay of the pool is awaited.
LEMMA StartShutdownStep ==
    ASSUME PoolInv, awaiting = {}, StartShutdown
    PROVE  PoolInv' /\ FenceStep /\ awaiting' = pool.relays /\ pool' = pool
<1> USE PoolFacts
<1>1. /\ conn' = [r \in Relays |-> IF r \in pool.relays THEN AskShutdown(conn[r]) ELSE conn[r]]
      /\ awaiting' = pool.relays /\ pool' = pool
  BY DEF StartShutdown
<1>2. ASSUME NEW r \in Relays
      PROVE  Fine(conn'[r], pool', awaiting', r) /\ Fenced(conn[r], conn'[r])
  <2>1. CASE r \in pool.relays
    <3>1. Preserves(conn[r], conn'[r])
      BY <1>1, <2>1, AskShutdownPreserves
    <3> QED
      BY <1>1, <2>1, <3>1 DEF Fine, Preserves, Keeps
  <2>2. CASE r \notin pool.relays
    <3>1. conn'[r] = conn[r]
      BY <1>1, <2>2
    <3> QED
      BY <1>1, <2>2, <3>1 DEF Fine
  <2> QED
    BY <2>1, <2>2
<1> QED
  BY <1>1, <1>2, PoolStep

\* publish begins: the relays that are awaited serve this event.
LEMMA StartPublishStep ==
    ASSUME PoolInv, awaiting = {}, NEW e \in Events, StartPublish(e, Relays)
    PROVE  PoolInv' /\ FenceStep /\ (\A r \in awaiting' : Serving(conn'[r], e)) /\ pool' = pool
<1> USE PoolFacts
<1> DEFINE to == {r \in pool.relays \cap Relays : Up(r)}
           m == Publish(e)
<1>1. /\ conn' = [r \in Relays |-> IF r \in to THEN Issue(conn[r], m) ELSE conn[r]]
      /\ awaiting' = to /\ pool' = pool
  BY DEF StartPublish
<1>2. m \in Command /\ Fit(m) /\ m.live /\ m.op = "publish" /\ m.ev = e
  BY DEF Publish, Command, Fit
<1>3. to \subseteq pool.relays
  OBVIOUS
<1> HIDE DEF m, to
<1>4. ASSUME NEW r \in Relays
      PROVE  Fine(conn'[r], pool', awaiting', r) /\ Fenced(conn[r], conn'[r]) /\ (r \in awaiting' => Serving(conn'[r], e))
  <2>1. CASE r \in to
    <3>1. conn'[r] = Issue(conn[r], m) /\ Quiet(conn[r])
      BY <1>1, <2>1 DEF Fine
    <3>2. /\ Good(conn'[r]) /\ Fenced(conn[r], conn'[r])
          /\ conn'[r].subs = conn[r].subs /\ conn'[r].phase = conn[r].phase
          /\ conn'[r].pend = {} /\ conn'[r].call \in {"waiting", "err"}
          /\ \A i \in Live(conn'[r]) : conn'[r].cmds[i] = m
          /\ \A s \in Subscriptions : Kept(conn[r], s) => Kept(conn'[r], s)
      BY <1>2, <3>1, IssueGood, SMTT(20)
    <3>3. Fine(conn'[r], pool', awaiting', r)
      BY <1>1, <2>1, <3>2 DEF Fine
    <3>4. Serving(conn'[r], e)
      BY <1>2, <3>2 DEF Serving
    <3> QED
      BY <3>2, <3>3, <3>4
  <2>2. CASE r \notin to
    <3>1. conn'[r] = conn[r] /\ r \notin awaiting'
      BY <1>1, <2>2
    <3> QED
      BY <1>1, <2>2, <3>1 DEF Fine
  <2> QED
    BY <2>1, <2>2
<1> QED
  BY <1>1, <1>3, <1>4, PoolStep

\* The results of publish are collected.
LEMMA EndPublishStep ==
    ASSUME PoolInv, EndPublish
    PROVE  PoolInv' /\ FenceStep /\ awaiting' = {} /\ pool' = pool
<1> USE PoolFacts
<1> DEFINE d(r) == [conn[r] EXCEPT !.call = "none", !.took = {}]
<1>1. /\ conn' = [r \in Relays |-> IF r \in awaiting THEN d(r) ELSE conn[r]]
      /\ awaiting' = {} /\ pool' = pool /\ \A r \in awaiting : conn[r].call # "waiting"
  BY DEF EndPublish, Collected, Settled
<1>2. \A r \in awaiting : /\ Good(d(r)) /\ Fenced(conn[r], d(r)) /\ Quiet(d(r)) /\ d(r).call = "none"
                          /\ d(r).subs = conn[r].subs /\ d(r).phase = conn[r].phase
                          /\ \A s \in Subscriptions : Kept(conn[r], s) => Kept(d(r), s)
  BY <1>1, CollectGood
<1> HIDE DEF d
<1>3. ASSUME NEW r \in Relays
      PROVE  Fine(conn'[r], pool', awaiting', r) /\ Fenced(conn[r], conn'[r])
  <2>1. CASE r \in awaiting
    <3>1. conn'[r] = d(r)
      BY <1>1, <2>1
    <3> QED
      BY <1>1, <1>2, <2>1, <3>1 DEF Fine
  <2>2. CASE r \notin awaiting
    <3>1. conn'[r] = conn[r]
      BY <1>1, <2>2
    <3> QED
      BY <1>1, <2>2, <3>1 DEF Fine
  <2> QED
    BY <2>1, <2>2
<1> QED
  BY <1>1, <1>3, PoolStep

\* The subscriptions and what is confirmed change.
Resynced(p, S, f) == [p EXCEPT !.subs = S, !.sync = f]

\* That leaves the window alone.
LEMMA SyncWindow ==
    ASSUME NEW p, Window(p), NEW S \in SUBSET Subscriptions, NEW f \in [Relays -> SUBSET Subscriptions]
    PROVE  /\ Window(Resynced(p, S, f)) /\ Resynced(p, S, f).relays = p.relays
           /\ Resynced(p, S, f).subs = S /\ Resynced(p, S, f).sync = f
<1> DEFINE q == Resynced(p, S, f)
<1>1. p \in Pools
  BY DEF Window
<1>2. q \in Pools
  BY <1>1 DEF Pools, Resynced
<1>3. q.relays = p.relays /\ q.subs = S /\ q.sync = f /\ q.seen = p.seen /\ q.order = p.order
  BY <1>1 DEF Pools, Resynced
<1> HIDE DEF q
<1>4. Window(q)
  BY <1>2, <1>3 DEF Window
<1> QED
  BY <1>3, <1>4 DEF q

\* subscribe begins: the relays that are awaited are asked for this one.
LEMMA StartSubscribeStep ==
    ASSUME PoolInv, awaiting = {}, NEW s \in Subscriptions, NEW same, StartSubscribe(s, same)
    PROVE  /\ PoolInv' /\ FenceStep /\ pool'.subs \subseteq pool.subs \cup {s}
           /\ \A r \in awaiting' : Asking(conn'[r], s)
<1> USE PoolFacts
<1> DEFINE m == Subscribe(s)
           f == [r \in Relays |-> pool.sync[r] \ {s}]
           q == Resynced(pool, pool.subs \cup {s}, f)
<1>0. CASE UNCHANGED poolVars
  <2>1. conn' = conn /\ pool' = pool /\ awaiting' = awaiting
    BY <1>0 DEF poolVars
  <2>2. PoolInv'
    BY <2>1 DEF PoolInv
  <2>3. FenceStep
    BY <2>1 DEF FenceStep
  <2> QED
    BY <2>1, <2>2, <2>3
<1>1. CASE /\ pool' = q /\ awaiting' = pool.relays
           /\ conn' = [r \in Relays |-> IF r \in pool.relays THEN Issue(conn[r], m) ELSE conn[r]]
  <2>1. m \in Command /\ Fit(m) /\ m.live /\ m.op = "subscribe" /\ m.sub = s
    BY DEF Subscribe, Command, Fit
  <2>2. pool.subs \cup {s} \in SUBSET Subscriptions /\ f \in [Relays -> SUBSET Subscriptions]
    OBVIOUS
  <2>3. \A r \in Relays : f[r] \subseteq pool.sync[r]
    OBVIOUS
  <2> HIDE DEF m, f
  <2>4. Window(q) /\ q.relays = pool.relays /\ q.subs = pool.subs \cup {s} /\ q.sync = f
    BY <2>2, SyncWindow, SMTT(20)
  <2> HIDE DEF q
  <2>5. ASSUME NEW r \in Relays
        PROVE  Fine(conn'[r], q, pool.relays, r) /\ Fenced(conn[r], conn'[r]) /\ (r \in pool.relays => Asking(conn'[r], s))
    <3>1. CASE r \in pool.relays
      <4>1. conn'[r] = Issue(conn[r], m) /\ Quiet(conn[r])
        BY <1>1, <3>1 DEF Fine
      <4>2. /\ Good(conn'[r]) /\ Fenced(conn[r], conn'[r])
            /\ conn'[r].subs = conn[r].subs /\ conn'[r].phase = conn[r].phase
            /\ conn'[r].pend = {} /\ conn'[r].call \in {"waiting", "err"}
            /\ \A i \in Live(conn'[r]) : conn'[r].cmds[i] = m
            /\ \A t \in Subscriptions : Kept(conn[r], t) => Kept(conn'[r], t)
            /\ Kept(conn'[r], s)
        BY <2>1, <4>1, IssueGood, SMTT(20)
      <4>3. \A t \in q.subs : Kept(conn'[r], t)
        BY <2>4, <4>2 DEF Fine
      <4>4. Fine(conn'[r], q, pool.relays, r)
        BY <2>3, <2>4, <3>1, <4>2, <4>3 DEF Fine
      <4>5. Asking(conn'[r], s)
        BY <2>1, <4>2 DEF Asking
      <4> QED
        BY <4>2, <4>4, <4>5
    <3>2. CASE r \notin pool.relays
      <4>1. conn'[r] = conn[r]
        BY <1>1, <3>2
      <4>2. \A t \in q.subs : Kept(conn[r], t)
        BY <3>2 DEF Fine, Kept
      <4> QED
        BY <2>3, <2>4, <3>2, <4>1, <4>2 DEF Fine
    <3> QED
      BY <3>1, <3>2
  <2> QED
    BY <1>1, <2>4, <2>5, PoolStep
<1> QED
  BY <1>0, <1>1 DEF StartSubscribe, Resynced

\* The results of subscribe are collected: what counts as confirmed is kept.
LEMMA EndSubscribeStep ==
    ASSUME PoolInv, NEW s \in Subscriptions, \A r \in awaiting : Asking(conn[r], s), EndSubscribe(s)
    PROVE  PoolInv' /\ FenceStep /\ awaiting' = {} /\ pool'.subs = pool.subs
<1> USE PoolFacts
<1> DEFINE d(r) == [conn[r] EXCEPT !.call = "none", !.took = {}]
           f == [r \in Relays |-> IF r \in Accepting THEN pool.sync[r] \cup {s} ELSE pool.sync[r]]
           q == Resynced(pool, pool.subs, f)
<1>1. /\ conn' = [r \in Relays |-> IF r \in awaiting THEN d(r) ELSE conn[r]]
      /\ awaiting' = {} /\ \A r \in awaiting : conn[r].call # "waiting"
  BY DEF EndSubscribe, Collected, Settled
<1>2. pool' = q
  BY DEF EndSubscribe, Pools, Resynced
<1>3. \A r \in awaiting : /\ Good(d(r)) /\ Fenced(conn[r], d(r)) /\ Quiet(d(r)) /\ d(r).call = "none"
                          /\ d(r).subs = conn[r].subs /\ d(r).phase = conn[r].phase
                          /\ \A t \in Subscriptions : Kept(conn[r], t) => Kept(d(r), t)
  BY <1>1, CollectGood
<1>4. f \in [Relays -> SUBSET Subscriptions]
  OBVIOUS
<1>6. \A r \in Relays : f[r] \subseteq conn[r].subs
  BY DEF Accepting, Asking, Fine
<1>7. \A r \in Relays : r \notin awaiting => f[r] = pool.sync[r]
  BY DEF Accepting
<1> HIDE DEF d, f
<1>5. Window(q) /\ q.relays = pool.relays /\ q.subs = pool.subs /\ q.sync = f
  BY <1>4, SyncWindow, SMTT(20)
<1> HIDE DEF q
<1>8. ASSUME NEW r \in Relays
      PROVE  Fine(conn'[r], q, awaiting', r) /\ Fenced(conn[r], conn'[r])
  <2>1. CASE r \in awaiting
    <3>1. conn'[r] = d(r)
      BY <1>1, <2>1
    <3> QED
      BY <1>1, <1>3, <1>5, <1>6, <2>1, <3>1 DEF Fine
  <2>2. CASE r \notin awaiting
    <3>1. conn'[r] = conn[r]
      BY <1>1, <2>2
    <3> QED
      BY <1>1, <1>5, <1>6, <2>2, <3>1 DEF Fine
  <2> QED
    BY <2>1, <2>2
<1> QED
  BY <1>1, <1>2, <1>5, <1>8, PoolStep

\* spawn, in the place of no pool.
LEMMA SpawnPoolStep ==
    ASSUME PoolInv, awaiting = {}, awaiting' = {}, pool = NoPool,
           NEW rs \in SUBSET Relays, NEW signer \in BOOLEAN, SpawnPool(rs, signer)
    PROVE  PoolInv' /\ FenceStep /\ pool'.subs = {}
<1> USE PoolFacts
<1> DEFINE q == [NoPool EXCEPT !.there = TRUE, !.relays = rs]
<1>1. conn' = [r \in Relays |-> IF r \in rs THEN Spawn(signer) ELSE conn[r]] /\ pool' = q
  BY DEF SpawnPool
<1>2. NoPool \in Pools /\ Window(NoPool)
  BY NoPoolWindow DEF Window
<1>3. q \in Pools
  BY <1>2 DEF Pools
<1>4. q.relays = rs /\ q.subs = {} /\ q.sync = [r \in Relays |-> {}] /\ q.seen = NoPool.seen /\ q.order = NoPool.order
  BY DEF NoPool
<1>5. pool.relays = {} /\ \A r \in Relays : q.sync[r] = {}
  BY <1>4 DEF NoPool
<1> HIDE DEF q
<1>6. Window(q)
  BY <1>2, <1>3, <1>4 DEF Window
<1>7. ASSUME NEW r \in Relays
      PROVE  Fine(conn'[r], q, awaiting', r) /\ Fenced(conn[r], conn'[r])
  <2>1. CASE r \in rs
    <3>1. conn'[r] = Spawn(signer)
      BY <1>1, <2>1
    <3>2. Good(conn'[r]) /\ Quiet(conn'[r]) /\ conn'[r].call = "none" /\ conn'[r].wire = {} /\ conn'[r].pend = {}
      BY <3>1, SpawnGood
    <3> QED
      BY <1>4, <1>5, <2>1, <3>2 DEF Fine, Fenced
  <2>2. CASE r \notin rs
    <3>1. conn'[r] = conn[r]
      BY <1>1, <2>2
    <3> QED
      BY <1>4, <1>5, <2>2, <3>1 DEF Fine
  <2> QED
    BY <2>1, <2>2
<1> QED
  BY <1>1, <1>4, <1>6, <1>7, PoolStep

\* shutdown ends: every relay of the pool has ended, and nothing is left.
LEMMA EndShutdownStep ==
    ASSUME PoolInv, awaiting = pool.relays, EndShutdown
    PROVE  PoolInv' /\ FenceStep /\ awaiting' = {} /\ pool' = NoPool
<1> USE PoolFacts, NoPoolWindow
<1> DEFINE d(r) == [conn[r] EXCEPT !.notes = <<>>, !.subs = {}, !.took = {}, !.call = "none"]
<1>1. /\ conn' = [r \in Relays |-> d(r)] /\ awaiting' = {} /\ pool' = NoPool
      /\ \A r \in awaiting : conn[r].phase = "ended"
  BY DEF EndShutdown
<1>2. \A r \in Relays : conn[r].phase = "ended"
  BY <1>1 DEF Fine
<1>3. \A r \in Relays : Good(d(r)) /\ Quiet(d(r)) /\ Fenced(conn[r], d(r)) /\ d(r).call = "none" /\ d(r).phase = "ended"
  BY <1>2, ResetGood
<1>4. \A r \in Relays : conn'[r] = d(r)
  BY <1>1
<1> HIDE DEF d
<1>5. \A r \in Relays : Fine(conn'[r], pool', awaiting', r) /\ Fenced(conn[r], conn'[r])
  BY <1>1, <1>3, <1>4 DEF Fine
<1> QED
  BY <1>1, <1>5, PoolStep

\* The process starts from no pool, and ends in none.
LEMMA NoPoolStep ==
    ASSUME conn' = [r \in Relays |-> [Spawn(FALSE) EXCEPT !.phase = "ended"]],
           pool' = NoPool, awaiting' = {}
    PROVE  PoolInv' /\ FenceStep
<1> USE NoPoolWindow
<1> DEFINE d == [Spawn(FALSE) EXCEPT !.phase = "ended"]
<1>1. Good(d) /\ Quiet(d) /\ d.call = "none" /\ d.phase = "ended" /\ d.wire = {} /\ d.pend = {}
  BY SpawnGood
<1>2. \A r \in Relays : conn'[r] = d
  OBVIOUS
<1> HIDE DEF d
<1>3. \A r \in Relays : Fine(conn'[r], pool', awaiting', r) /\ Fenced(conn[r], conn'[r])
  BY <1>1, <1>2 DEF Fine, Fenced
<1> QED
  BY <1>3, PoolStep

\* A pool starts in order, with every connection ended.
LEMMA PoolInitInv ==
    ASSUME PoolInit
    PROVE  PoolInv
<1> USE NoPoolWindow
<1> DEFINE d == [Spawn(FALSE) EXCEPT !.phase = "ended"]
<1>1. Good(d) /\ Quiet(d) /\ d.call = "none" /\ d.phase = "ended"
  BY SpawnGood
<1>2. conn = [r \in Relays |-> d] /\ pool = NoPool /\ awaiting = {}
  BY DEF PoolInit
<1>3. d \in Connection
  BY <1>1 DEF Good
<1> HIDE DEF d
<1>4. \A r \in Relays : Fine(conn[r], pool, awaiting, r)
  BY <1>1, <1>2 DEF Fine
<1> QED
  BY <1>2, <1>3, <1>4 DEF PoolInv

\* next_notification is dropped while it waits.
LEMMA CancelNextStep ==
    ASSUME PoolInv, CancelNext
    PROVE  PoolInv' /\ FenceStep /\ awaiting' = {} /\ pool' = pool
<1> USE PoolFacts
<1> DEFINE d(r) == Abandon(conn[r], "none")
<1>1. /\ conn' = [r \in Relays |-> IF r \in awaiting THEN d(r) ELSE conn[r]]
      /\ awaiting' = {} /\ pool' = pool
  BY DEF CancelNext
<1>2. \A r \in awaiting : /\ Good(d(r)) /\ Fenced(conn[r], d(r)) /\ Quiet(d(r)) /\ d(r).call = "none"
                          /\ d(r).subs = conn[r].subs /\ d(r).phase = conn[r].phase
                          /\ \A s \in Subscriptions : Kept(conn[r], s) => Kept(d(r), s)
  BY AbandonGood
<1> HIDE DEF d
<1>3. ASSUME NEW r \in Relays
      PROVE  Fine(conn'[r], pool', awaiting', r) /\ Fenced(conn[r], conn'[r])
  <2>1. CASE r \in awaiting
    <3>1. conn'[r] = d(r)
      BY <1>1, <2>1
    <3> QED
      BY <1>1, <1>2, <2>1, <3>1 DEF Fine
  <2>2. CASE r \notin awaiting
    <3>1. conn'[r] = conn[r]
      BY <1>1, <2>2
    <3> QED
      BY <1>1, <2>2, <3>1 DEF Fine
  <2> QED
    BY <2>1, <2>2
<1> QED
  BY <1>1, <1>3, PoolStep

\* A notification is taken.  A Connected whose subscriptions are all confirmed
\* is not needed: what is confirmed is kept.
LEMMA TakeNoteStep ==
    ASSUME PoolInv, awaiting = {}, awaiting' = awaiting, NEW r \in Relays, conn' = TakeNote(r), conn[r].notes # <<>>,
           Window(pool'), SamePool(pool, pool'),
           Head(conn[r].notes).kind # "connected" \/ pool.subs \subseteq pool.sync[r]
    PROVE  PoolInv' /\ FenceStep
<1> USE PoolFacts
<1> DEFINE d == [conn[r] EXCEPT !.notes = Tail(@)]
<1>1. conn' = [conn EXCEPT ![r] = d]
  BY DEF TakeNote
<1>2. \A q \in Relays : conn'[q] = IF q = r THEN d ELSE conn[q]
  BY <1>1
<1>3. DOMAIN conn' = Relays /\ conn' = [q \in Relays |-> conn'[q]]
  BY <1>1 DEF PoolInv
<1>4. /\ Keeps(conn[r], d) /\ Fenced(conn[r], d) /\ d.phase = conn[r].phase /\ d.subs = conn[r].subs
      /\ \A s \in Subscriptions :
            Kept(conn[r], s) /\ (Head(conn[r].notes).kind # "connected" \/ s \in conn[r].subs) => Kept(d, s)
  BY TakeNoteGood
<1> HIDE DEF d
<1>5. \A s \in pool.subs : Kept(d, s)
  BY <1>4 DEF Fine
<1>6. Fine(d, pool, awaiting, r)
  BY <1>4, <1>5 DEF Fine, Keeps
<1>7. \A q \in Relays : Fine(conn'[q], pool, awaiting, q) /\ Fenced(conn[q], conn'[q])
  BY <1>2, <1>4, <1>6
<1>8. \A q \in Relays : Fine(conn'[q], pool', awaiting', q) /\ Fenced(conn[q], conn'[q])
  BY <1>7 DEF Fine, SamePool
<1> QED
  BY <1>3, <1>8, PoolStep

\* An event seen before only lets entries expire.
LEMMA SeenWindow ==
    ASSUME NEW p, Window(p), NEW e, NEW m \in RememberEvent(p, e), ~m.fresh
    PROVE  Window(m.pool) /\ SamePool(p, m.pool)
<1>1. PICK k \in 0..Len(p.order) :
          m = (LET q == Without(p, k)
               IN IF e \in q.seen THEN [fresh |-> FALSE, pool |-> q]
                  ELSE [fresh |-> TRUE, pool |-> Entered(q, e)])
  BY DEF RememberEvent
<1> DEFINE q == Without(p, k)
<1>2. Window(q) /\ SamePool(p, q)
  BY WithoutWindow
<1> HIDE DEF q
<1>3. m = IF e \in q.seen THEN [fresh |-> FALSE, pool |-> q] ELSE [fresh |-> TRUE, pool |-> Entered(q, e)]
  BY <1>1 DEF q
<1>4. m.pool = q
  BY <1>3
<1> QED
  BY <1>2, <1>4

\* A note the owner has no use for is passed over.
LEMMA SkipNoteStep ==
    ASSUME PoolInv, awaiting = {}, NEW r \in Relays, SkipNote(r)
    PROVE  PoolInv' /\ FenceStep /\ awaiting' = awaiting /\ pool'.subs = pool.subs
<1> USE PoolFacts
<1> DEFINE n == Head(conn[r].notes)
<1>1. conn[r].notes # <<>> /\ conn' = TakeNote(r) /\ awaiting' = awaiting
  BY DEF SkipNote, HasNote
<1>2. \/ n.kind = "connected" /\ pool.subs \subseteq pool.sync[r] /\ pool' = pool
      \/ n.kind = "other" /\ pool' = pool
      \/ n.kind = "event" /\ \E m \in RememberEvent(pool, n.ev) : ~m.fresh /\ pool' = m.pool
  BY DEF SkipNote
<1>3. Window(pool') /\ SamePool(pool, pool')
  BY <1>2, SeenWindow, SMTT(20) DEF SamePool
<1>4. n.kind # "connected" \/ pool.subs \subseteq pool.sync[r]
  BY <1>2
<1> QED
  BY <1>1, <1>3, <1>4, TakeNoteStep DEF SamePool

\* An event is handed to the owner.
LEMMA NextEventStep ==
    ASSUME PoolInv, awaiting = {}, NEW r \in Relays, NEW e \in Events, NextEvent(r, e)
    PROVE  PoolInv' /\ FenceStep /\ awaiting' = awaiting /\ pool'.subs = pool.subs
<1> USE PoolFacts
<1>1. /\ conn[r].notes # <<>> /\ conn' = TakeNote(r) /\ awaiting' = awaiting
      /\ Head(conn[r].notes).kind # "connected"
  BY DEF NextEvent, HasNote
<1>2. Window(pool') /\ SamePool(pool, pool')
  BY RememberWindow DEF NextEvent
<1> QED
  BY <1>1, <1>2, TakeNoteStep DEF SamePool

\* A connection that ended, and whose notes are read, is closed.
LEMMA NextClosedStep ==
    ASSUME PoolInv, NEW r \in Relays, NextClosed(r)
    PROVE  PoolInv' /\ FenceStep /\ awaiting' = awaiting /\ pool'.subs = pool.subs
<1> USE PoolFacts
<1> DEFINE q == [pool EXCEPT !.closed = @ \cup {r}]
<1>1. pool' = q /\ conn' = conn /\ awaiting' = awaiting
  BY DEF NextClosed
<1>2. q \in Pools
  BY DEF Pools
<1>3. q.relays = pool.relays /\ q.subs = pool.subs /\ q.sync = pool.sync /\ q.seen = pool.seen /\ q.order = pool.order
  BY DEF Pools
<1> HIDE DEF q
<1>4. Window(q)
  BY <1>2, <1>3 DEF Window
<1>5. \A s \in Relays : Fine(conn[s], q, awaiting, s)
  BY <1>3 DEF Fine
<1> QED
  BY <1>1, <1>3, <1>4, <1>5 DEF PoolInv, FenceStep

\* On Connected the pool asks again, before the notification is forgotten.
LEMMA StartResubscribeStep ==
    ASSUME PoolInv, awaiting = {}, NEW r \in Relays, NEW s \in Subscriptions, pool.subs \subseteq {s}, StartResubscribe(r, s)
    PROVE  PoolInv' /\ FenceStep /\ awaiting' = {r} /\ pool' = pool /\ Asking(conn'[r], s)
<1> USE PoolFacts
<1> DEFINE b == [conn[r] EXCEPT !.notes = Tail(@)]
           m == Subscribe(s)
           d == Issue(b, m)
<1>1. /\ conn[r].notes # <<>> /\ awaiting' = {r} /\ pool' = pool /\ conn' = [conn EXCEPT ![r] = d]
  BY DEF StartResubscribe, HasNote
<1>2. m \in Command /\ Fit(m) /\ m.live /\ m.op = "subscribe" /\ m.sub = s
  BY DEF Subscribe, Command, Fit
<1>3. \A q \in Relays : conn'[q] = IF q = r THEN d ELSE conn[q]
  BY <1>1
<1>4. DOMAIN conn' = Relays /\ conn' = [q \in Relays |-> conn'[q]]
  BY <1>1 DEF PoolInv
<1>5. Keeps(conn[r], b) /\ Fenced(conn[r], b) /\ b.phase = conn[r].phase /\ b.subs = conn[r].subs
  BY <1>1, TakeNoteGood
<1>5a. b.wire = conn[r].wire /\ b.pend = conn[r].pend
  BY DEF Good, Connection
<1> HIDE DEF b, m
<1>6. Quiet(b) /\ Good(b)
  BY <1>5 DEF Keeps, Fine
<1>7. /\ Good(d) /\ Fenced(b, d) /\ d.subs = b.subs /\ d.phase = b.phase
      /\ d.pend = {} /\ d.call \in {"waiting", "err"} /\ Kept(d, s)
      /\ \A i \in Live(d) : d.cmds[i] = m
  BY <1>2, <1>6, IssueGood
<1> HIDE DEF d
<1>8. Fenced(conn[r], d)
  BY <1>5a, <1>7 DEF Fenced
<1>9. Fine(d, pool, {r}, r)
  BY <1>5, <1>7 DEF Fine
<1>10. \A q \in Relays : q # r => Fine(conn[q], pool, {r}, q)
  BY DEF Fine
<1>11. \A q \in Relays : Fine(conn'[q], pool', awaiting', q) /\ Fenced(conn[q], conn'[q])
  BY <1>1, <1>3, <1>8, <1>9, <1>10
<1>12. Asking(conn'[r], s)
  BY <1>2, <1>3, <1>7 DEF Asking
<1> QED
  BY <1>1, <1>4, <1>11, <1>12, PoolStep

(***************************************************************************)
(* The chat actor.                                                         *)
(***************************************************************************)
Rumors == Sends \cup {Opened[e] : e \in Events}

\* Where the actor awaits no relay, and where it is in the middle of send().
Resting == {"down", "idle", "resolve", "selfwait", "store", "spawn", "subscribe", "listwait"}
Sending == {"resolve", "sending", "selfwait", "self", "store"}
Places == Resting \cup Sending \cup {"closing", "subscribing", "listing", "next"}

Chats ==
    [pc: Places, req: {"none", "other", "send"}, rumor: Sends \cup {NoRumor},
     messages: Seq(Rumors), relays: SUBSET Relays, poolRelays: SUBSET Relays,
     poolKey: BOOLEAN, subscribedFor: BOOLEAN]

Disks == [identity: BOOLEAN, relays: SUBSET Relays, messages: Seq(Rumors)]

\* What the place of the actor says about its request and its pool.
Placed ==
    /\ chat.pc \in Resting => awaiting = {}
    /\ chat.pc = "closing" => awaiting = pool.relays
    /\ chat.pc \in {"down", "spawn"} => pool = NoPool
    /\ chat.pc \in Sending => chat.req = "send"
    /\ chat.req = "send" => chat.rumor \in Sends
    /\ pool.subs \subseteq {Dm}

\* The calls the actor awaits are the ones its place stands for.
Called ==
    /\ chat.pc = "sending" => \A r \in awaiting : Serving(conn[r], WrapFor[chat.rumor])
    /\ chat.pc \in {"subscribing", "next"} => \A r \in awaiting : Asking(conn[r], Dm)

\* What was announced is in the list too, which the next save writes.
Saved ==
    /\ owed \subseteq Range(disk.messages)
    /\ chat.pc # "down" => owed \subseteq Range(chat.messages)

IInv ==
    /\ PoolInv
    /\ chat \in Chats /\ disk \in Disks
    /\ Placed /\ Called /\ Saved

(***************************************************************************)
(* The continuations.                                                      *)
(***************************************************************************)
\* The actor is idle, or goes on with send() after its pool is ready.
LEMMA AnswerFields ==
    ASSUME NEW c \in Chats, Answer(c)
    PROVE  chat' \in Chats /\ chat'.pc = "idle" /\ chat'.req = "none" /\ chat'.messages = c.messages
BY DEF Answer, Chats, Places, Resting

\* What the client does once its pool is ready.
LEMMA PoolReadyFields ==
    ASSUME NEW c \in Chats, PoolReady(c)
    PROVE  /\ chat' \in Chats /\ chat'.messages = c.messages
           /\ \/ chat'.pc = "resolve" /\ chat'.req = "send" /\ c.req = "send" /\ chat'.rumor = c.rumor
              \/ chat'.pc = "idle" /\ chat'.req = "none"
<1>1. CASE c.req = "send"
  BY <1>1, ZenonT(30) DEF PoolReady, Chats, Places, Resting
<1>2. CASE c.req # "send"
  BY <1>2, AnswerFields DEF PoolReady
<1> QED
  BY <1>1, <1>2

\* The actor goes to another place.
LEMMA MoveFields ==
    ASSUME NEW c \in Chats, NEW p \in Places, chat' = [c EXCEPT !.pc = p]
    PROVE  /\ chat' \in Chats /\ chat'.pc = p /\ chat'.req = c.req /\ chat'.rumor = c.rumor
           /\ chat'.messages = c.messages
BY DEF Chats

\* A request on its way.
Requested(c) ==
    /\ c \in Chats /\ c.messages = chat.messages
    /\ c.req = "send" => c.rumor \in Sends

\* Nothing but the list and the record decides what is saved.
LEMMA StaysSaved ==
    ASSUME Saved, chat.pc # "down", owed' = owed,
           disk'.messages = disk.messages, chat'.messages = chat.messages
    PROVE  Saved'
BY DEF Saved

\* The pool does not move.
LEMMA PoolUnchanged ==
    ASSUME PoolInv, UNCHANGED poolVars
    PROVE  PoolInv' /\ FenceStep /\ pool' = pool /\ awaiting' = awaiting
<1>1. conn' = conn /\ pool' = pool /\ awaiting' = awaiting
  BY DEF poolVars
<1>2. PoolInv'
  BY <1>1 DEF PoolInv
<1>3. FenceStep
  BY <1>1 DEF FenceStep, Fenced
<1> QED
  BY <1>1, <1>2, <1>3

\* restart_pool begins.
LEMMA RestartPoolStep ==
    ASSUME IInv, awaiting = {}, NEW c, Requested(c), RestartPool(c)
    PROVE  /\ PoolInv' /\ FenceStep /\ Placed' /\ Called' /\ chat' \in Chats
           /\ chat'.messages = chat.messages /\ chat'.pc # "down"
<1>1. PoolInv' /\ FenceStep /\ awaiting' = pool.relays /\ pool' = pool
  BY StartShutdownStep DEF RestartPool, IInv
<1>2. /\ chat' \in Chats /\ chat'.pc = "closing" /\ chat'.req = c.req /\ chat'.rumor = c.rumor
      /\ chat'.messages = c.messages
  BY MoveFields DEF RestartPool, Requested, Places
<1>3. Placed'
  BY <1>1, <1>2 DEF Requested, IInv, Placed, Resting, Sending
<1>4. Called'
  BY <1>2 DEF Called
<1> QED
  BY <1>1, <1>2, <1>3, <1>4 DEF Requested

\* ensure_pool keeps the pool or restarts it.
LEMMA EnsurePoolStep ==
    ASSUME IInv, awaiting = {}, chat.pc = "idle", NEW c, Requested(c), EnsurePool(c)
    PROVE  /\ PoolInv' /\ FenceStep /\ Placed' /\ Called' /\ chat' \in Chats
           /\ chat'.messages = chat.messages /\ chat'.pc # "down"
<1>1. CASE chat' = [c EXCEPT !.pc = "subscribe"] /\ UNCHANGED poolVars
  <2>1. PoolInv' /\ FenceStep /\ pool' = pool /\ awaiting' = awaiting
    BY <1>1, PoolUnchanged DEF IInv
  <2>2. /\ chat' \in Chats /\ chat'.pc = "subscribe" /\ chat'.req = c.req /\ chat'.rumor = c.rumor
        /\ chat'.messages = c.messages
    BY <1>1, MoveFields DEF Requested, Places, Resting
  <2>3. Placed'
    BY <2>1, <2>2 DEF Requested, IInv, Placed, Resting, Sending
  <2>4. Called'
    BY <2>2 DEF Called
  <2> QED
    BY <2>1, <2>2, <2>3, <2>4 DEF Requested
<1>2. CASE RestartPool(c)
  BY <1>2, RestartPoolStep
<1> QED
  BY <1>1, <1>2 DEF EnsurePool

\* publish_to_relays begins.
LEMMA PublishStep ==
    ASSUME IInv, awaiting = {}, NEW e \in Events, NEW next \in Places, PublishToRelays(e, next)
    PROVE  /\ PoolInv' /\ FenceStep /\ pool' = pool
           /\ \A r \in awaiting' : Serving(conn'[r], e)
           /\ chat' \in Chats /\ chat'.pc = next /\ chat'.req = chat.req /\ chat'.rumor = chat.rumor
           /\ chat'.messages = chat.messages
<1>1. PoolInv' /\ FenceStep /\ (\A r \in awaiting' : Serving(conn'[r], e)) /\ pool' = pool
  BY StartPublishStep DEF PublishToRelays, IInv
<1>2. /\ chat' \in Chats /\ chat'.pc = next /\ chat'.req = chat.req /\ chat'.rumor = chat.rumor
      /\ chat'.messages = chat.messages
  BY MoveFields DEF PublishToRelays, IInv
<1> QED
  BY <1>1, <1>2

\* store_message: what is announced is in the list, and in the record when it
\* was saved.
LEMMA StoreMessageStep ==
    ASSUME IInv, chat.pc # "down", NEW c \in Chats, c.messages = chat.messages, c.pc # "down",
           NEW m \in Rumors, NEW ok \in BOOLEAN, StoreMessage(c, m, ok)
    PROVE  /\ chat' \in Chats /\ disk' \in Disks /\ Saved'
           /\ chat'.pc = c.pc /\ chat'.req = c.req /\ chat'.rumor = c.rumor
<1> DEFINE q == c.messages
           full == Len(q) = MaxMessages
           base == IF full THEN Tail(q) ELSE q
           list == Append(base, m)
           evicted == IF full THEN {Head(q)} ELSE {}
<1>1. /\ chat' = [c EXCEPT !.messages = list]
      /\ disk' = IF ok THEN [disk EXCEPT !.messages = list] ELSE disk
      /\ owed' = IF ok THEN (owed \ evicted) \cup {m} ELSE owed \ evicted
  BY DEF StoreMessage
<1>2. q \in Seq(Rumors)
  BY DEF Chats
<1>3. base \in Seq(Rumors) /\ Range(q) \ evicted \subseteq Range(base)
  <2>1. CASE full
    <3>1. q # <<>>
      BY <1>2, <2>1, ChatAssumption
    <3>2. Tail(q) \in Seq(Rumors) /\ \A i \in 1..Len(q) : i # 1 => i - 1 \in 1..Len(Tail(q)) /\ Tail(q)[i - 1] = q[i]
      BY <1>2, <3>1
    <3>3. \A x \in Range(q) : x # Head(q) => x \in Range(Tail(q))
      <4> SUFFICES ASSUME NEW x \in Range(q), x # Head(q)
                   PROVE  x \in Range(Tail(q))
        OBVIOUS
      <4>1. PICK i \in 1..Len(q) : x = q[i]
        BY <1>2 DEF Range
      <4>2. i # 1
        BY <1>2, <3>1, <4>1
      <4>3. i - 1 \in DOMAIN Tail(q) /\ Tail(q)[i - 1] = x
        BY <1>2, <3>2, <4>1, <4>2
      <4> HIDE DEF q
      <4> QED
        BY <4>3 DEF Range
    <3> QED
      BY <2>1, <3>2, <3>3
  <2>2. CASE ~full
    BY <1>2, <2>2
  <2> QED
    BY <2>1, <2>2
<1>4. list \in Seq(Rumors) /\ Range(base) \cup {m} \subseteq Range(list)
  <2> HIDE DEF base
  <2>1. list \in Seq(Rumors) /\ Len(list) = Len(base) + 1 /\ list[Len(base) + 1] = m
        /\ \A i \in 1..Len(base) : list[i] = base[i]
    BY <1>3
  <2> QED
    BY <1>3, <2>1, SMTT(20) DEF Range
<1> HIDE DEF base, list, evicted, full
<1>5. owed \subseteq Range(q) /\ owed \subseteq Range(disk.messages) /\ disk \in Disks
  BY DEF IInv, Saved
<1>6. owed' \subseteq Range(list)
  BY <1>1, <1>3, <1>4, <1>5
<1>7. /\ chat' \in Chats /\ chat'.pc = c.pc /\ chat'.req = c.req /\ chat'.rumor = c.rumor
      /\ chat'.messages = list
  BY <1>1, <1>4 DEF Chats
<1>8. CASE ok
  <2>1. disk' \in Disks /\ disk'.messages = list
    BY <1>1, <1>4, <1>5, <1>8 DEF Disks
  <2> QED
    BY <1>6, <1>7, <2>1 DEF Saved
<1>9. CASE ~ok
  <2>1. disk' = disk /\ owed' \subseteq owed
    BY <1>1, <1>9
  <2> QED
    BY <1>5, <1>6, <1>7, <2>1 DEF Saved
<1> QED
  BY <1>8, <1>9

(***************************************************************************)
(* Every action preserves the invariant.                                   *)
(***************************************************************************)
\* ensure_identity leaves the messages.
LEMMA EnsureIdentityFields ==
    ASSUME disk \in Disks, EnsureIdentity
    PROVE  disk' \in Disks /\ disk'.messages = disk.messages
BY DEF EnsureIdentity, Disks

\* The requests.
LEMMA RequestSteps ==
    ASSUME IInv, Request
    PROVE  IInv' /\ FenceStep
<1>1. /\ chat \in Chats /\ disk \in Disks /\ Saved /\ PoolInv /\ Placed
      /\ chat.pc = "idle" /\ awaiting = {} /\ chat.pc # "down"
  BY DEF IInv, Request, Prepare, AddContact, SetRelays, Reload, Send, CanTake
<1> DEFINE Done == /\ PoolInv' /\ FenceStep /\ Placed' /\ Called' /\ chat' \in Chats
                   /\ chat'.messages = chat.messages
<1>2. ASSUME Done, disk' \in Disks, disk'.messages = disk.messages, owed' = owed
      PROVE  IInv' /\ FenceStep
  BY <1>1, <1>2, StaysSaved DEF IInv
<1>3. CASE Prepare
  <2> DEFINE c == [Begin("other") EXCEPT !.subscribedFor = FALSE]
  <2>1. Requested(c)
    BY <1>1 DEF Requested, Begin, Chats
  <2>2. Done
    BY <1>1, <1>3, <2>1, RestartPoolStep DEF Prepare
  <2> QED
    BY <1>1, <1>2, <1>3, <2>2, EnsureIdentityFields DEF Prepare
<1>4. CASE AddContact
  <2>1. CASE Answer(chat) /\ UNCHANGED poolVars
    <3>1. PoolInv' /\ FenceStep /\ pool' = pool /\ awaiting' = awaiting
      BY <1>1, <2>1, PoolUnchanged
    <3>2. chat' \in Chats /\ chat'.pc = "idle" /\ chat'.req = "none" /\ chat'.messages = chat.messages
      BY <1>1, <2>1, AnswerFields
    <3>3. Placed' /\ Called'
      BY <1>1, <3>1, <3>2 DEF Placed, Called, Resting, Sending
    <3> QED
      BY <1>1, <1>2, <1>4, <3>1, <3>2, <3>3, EnsureIdentityFields DEF AddContact
  <2>2. CASE EnsurePool(Begin("other"))
    <3>1. Requested(Begin("other"))
      BY <1>1 DEF Requested, Begin, Chats
    <3>2. Done
      BY <1>1, <2>2, <3>1, EnsurePoolStep
    <3> QED
      BY <1>1, <1>2, <1>4, <3>2, EnsureIdentityFields DEF AddContact
  <2> QED
    BY <1>4, <2>1, <2>2 DEF AddContact
<1>5. CASE SetRelays
  <2>1. PICK rs \in SUBSET Relays :
            /\ disk' = [disk EXCEPT !.relays = rs]
            /\ RestartPool([Begin("other") EXCEPT !.relays = rs, !.subscribedFor = FALSE])
    BY <1>5 DEF SetRelays
  <2> DEFINE c == [Begin("other") EXCEPT !.relays = rs, !.subscribedFor = FALSE]
  <2>2. Requested(c)
    BY <1>1 DEF Requested, Begin, Chats
  <2>3. Done
    BY <1>1, <2>1, <2>2, RestartPoolStep
  <2>4. disk' \in Disks /\ disk'.messages = disk.messages
    BY <1>1, <2>1 DEF Disks
  <2> QED
    BY <1>2, <1>5, <2>3, <2>4 DEF SetRelays
<1>6. CASE Reload
  <2> DEFINE c == [Begin("other") EXCEPT !.subscribedFor = FALSE]
  <2>1. Requested(c)
    BY <1>1 DEF Requested, Begin, Chats
  <2>2. Done
    BY <1>1, <1>6, <2>1, RestartPoolStep DEF Reload
  <2> QED
    BY <1>1, <1>2, <1>6, <2>2 DEF Reload
<1>7. CASE Send
  <2>1. PICK m \in Sends : EnsurePool([Begin("send") EXCEPT !.rumor = m])
    BY <1>7 DEF Send
  <2> DEFINE c == [Begin("send") EXCEPT !.rumor = m]
  <2>2. Requested(c)
    BY <1>1 DEF Requested, Begin, Chats
  <2>3. Done
    BY <1>1, <2>1, <2>2, EnsurePoolStep
  <2> QED
    BY <1>1, <1>2, <1>7, <2>3, EnsureIdentityFields DEF Send
<1> QED
  BY <1>3, <1>4, <1>5, <1>6, <1>7 DEF Request

\* A step of the actor that leaves the records alone.
LEMMA QuietStep ==
    ASSUME IInv, chat.pc # "down", UNCHANGED <<disk, owed>>,
           PoolInv', chat' \in Chats, chat'.messages = chat.messages, Placed', Called'
    PROVE  IInv'
BY StaysSaved DEF IInv

\* send() after ensure_pool.
LEMMA SendSteps ==
    ASSUME IInv, ResolveFails \/ SendPublish \/ SendPublished \/ SelfPublish \/ SelfPublished \/ SendStore
    PROVE  IInv' /\ FenceStep
<1>1. chat \in Chats /\ disk \in Disks /\ PoolInv /\ Placed
  BY DEF IInv
<1>2. chat.pc \in Sending /\ chat.pc # "down" /\ chat.req = "send" /\ chat.rumor \in Sends /\ pool.subs \subseteq {Dm}
  BY <1>1 DEF ResolveFails, SendPublish, SendPublished, SelfPublish, SelfPublished, SendStore, Placed, Sending
<1>3. CASE ResolveFails
  <2>1. awaiting = {}
    BY <1>1, <1>3 DEF ResolveFails, Placed, Resting
  <2>2. PoolInv' /\ FenceStep /\ pool' = pool /\ awaiting' = awaiting
    BY <1>1, <1>3, PoolUnchanged DEF ResolveFails, poolVars
  <2>3. chat' \in Chats /\ chat'.pc = "idle" /\ chat'.req = "none" /\ chat'.messages = chat.messages
    BY <1>1, <1>3, AnswerFields DEF ResolveFails
  <2>4. Placed' /\ Called'
    BY <1>2, <2>1, <2>2, <2>3 DEF Placed, Called, Resting, Sending
  <2> QED
    BY <1>2, <1>3, <2>2, <2>3, <2>4, QuietStep DEF ResolveFails
<1>4. CASE SendPublish
  <2>1. awaiting = {} /\ WrapFor[chat.rumor] \in Events
    BY <1>1, <1>2, <1>4, ChatAssumption DEF SendPublish, Placed, Resting
  <2>2. CASE PublishToRelays(WrapFor[chat.rumor], "sending")
    <3>1. /\ PoolInv' /\ FenceStep /\ pool' = pool
          /\ \A r \in awaiting' : Serving(conn'[r], WrapFor[chat.rumor])
          /\ chat' \in Chats /\ chat'.pc = "sending" /\ chat'.req = chat.req /\ chat'.rumor = chat.rumor
          /\ chat'.messages = chat.messages
      BY <2>1, <2>2, PublishStep DEF Places, Sending
    <3>2. Placed' /\ Called'
      BY <1>2, <3>1 DEF Placed, Called, Resting, Sending
    <3> QED
      BY <1>2, <1>4, <3>1, <3>2, QuietStep DEF SendPublish
  <2>3. CASE Answer(chat) /\ UNCHANGED poolVars
    <3>1. PoolInv' /\ FenceStep /\ pool' = pool /\ awaiting' = awaiting
      BY <1>1, <2>3, PoolUnchanged
    <3>2. chat' \in Chats /\ chat'.pc = "idle" /\ chat'.req = "none" /\ chat'.messages = chat.messages
      BY <1>1, <2>3, AnswerFields
    <3>3. Placed' /\ Called'
      BY <1>2, <2>1, <3>1, <3>2 DEF Placed, Called, Resting, Sending
    <3> QED
      BY <1>2, <1>4, <3>1, <3>2, <3>3, QuietStep DEF SendPublish
  <2> QED
    BY <1>4, <2>2, <2>3 DEF SendPublish
<1>5. CASE SendPublished
  <2>1. PoolInv' /\ FenceStep /\ awaiting' = {} /\ pool' = pool
    BY <1>1, <1>5, EndPublishStep DEF SendPublished
  <2>2. /\ chat' \in Chats /\ chat'.messages = chat.messages
        /\ \/ chat'.pc = "selfwait" /\ chat'.req = chat.req /\ chat'.rumor = chat.rumor
           \/ chat'.pc = "idle" /\ chat'.req = "none"
    BY <1>1, <1>5, AnswerFields, MoveFields DEF SendPublished, Places, Sending
  <2>3. Placed' /\ Called'
    BY <1>2, <2>1, <2>2 DEF Placed, Called, Resting, Sending
  <2> QED
    BY <1>2, <1>5, <2>1, <2>2, <2>3, QuietStep DEF SendPublished
<1>6. CASE SelfPublish
  <2>1. awaiting = {} /\ SelfCopy[chat.rumor] \in Events
    BY <1>1, <1>2, <1>6, ChatAssumption DEF SelfPublish, Placed, Resting
  <2>2. CASE PublishToRelays(SelfCopy[chat.rumor], "self")
    <3>1. /\ PoolInv' /\ FenceStep /\ pool' = pool
          /\ chat' \in Chats /\ chat'.pc = "self" /\ chat'.req = chat.req /\ chat'.rumor = chat.rumor
          /\ chat'.messages = chat.messages
      BY <2>1, <2>2, PublishStep DEF Places, Sending
    <3>2. Placed' /\ Called'
      BY <1>2, <3>1 DEF Placed, Called, Resting, Sending
    <3> QED
      BY <1>2, <1>6, <3>1, <3>2, QuietStep DEF SelfPublish
  <2>3. CASE chat' = [chat EXCEPT !.pc = "store"] /\ UNCHANGED poolVars
    <3>1. PoolInv' /\ FenceStep /\ pool' = pool /\ awaiting' = awaiting
      BY <1>1, <2>3, PoolUnchanged
    <3>2. /\ chat' \in Chats /\ chat'.pc = "store" /\ chat'.req = chat.req /\ chat'.rumor = chat.rumor
          /\ chat'.messages = chat.messages
      BY <1>1, <2>3, MoveFields DEF Places, Sending
    <3>3. Placed' /\ Called'
      BY <1>2, <2>1, <3>1, <3>2 DEF Placed, Called, Resting, Sending
    <3> QED
      BY <1>2, <1>6, <3>1, <3>2, <3>3, QuietStep DEF SelfPublish
  <2> QED
    BY <1>6, <2>2, <2>3 DEF SelfPublish
<1>7. CASE SelfPublished
  <2>1. PoolInv' /\ FenceStep /\ awaiting' = {} /\ pool' = pool
    BY <1>1, <1>7, EndPublishStep DEF SelfPublished
  <2>2. /\ chat' \in Chats /\ chat'.pc = "store" /\ chat'.req = chat.req /\ chat'.rumor = chat.rumor
        /\ chat'.messages = chat.messages
    BY <1>1, <1>7, MoveFields DEF SelfPublished, Places, Sending
  <2>3. Placed' /\ Called'
    BY <1>2, <2>1, <2>2 DEF Placed, Called, Resting, Sending
  <2> QED
    BY <1>2, <1>7, <2>1, <2>2, <2>3, QuietStep DEF SelfPublished
<1>8. CASE SendStore
  <2> DEFINE c == [chat EXCEPT !.pc = "idle", !.req = "none", !.rumor = NoRumor]
  <2>1. PICK ok \in BOOLEAN : StoreMessage(c, chat.rumor, ok)
    BY <1>8 DEF SendStore
  <2>2. c \in Chats /\ c.messages = chat.messages /\ c.pc = "idle" /\ c.req = "none"
    BY <1>1 DEF Chats, Places, Resting
  <2> HIDE DEF c
  <2>3. chat.rumor \in Rumors /\ awaiting = {}
    BY <1>1, <1>2, <1>8 DEF Rumors, SendStore, Placed, Resting
  <2>4. /\ chat' \in Chats /\ disk' \in Disks /\ Saved'
        /\ chat'.pc = "idle" /\ chat'.req = "none"
    BY <1>2, <2>1, <2>2, <2>3, StoreMessageStep
  <2>5. PoolInv' /\ FenceStep /\ pool' = pool /\ awaiting' = awaiting
    BY <1>1, <1>8, PoolUnchanged DEF SendStore
  <2>6. Placed' /\ Called'
    BY <1>2, <2>3, <2>4, <2>5 DEF Placed, Called, Resting, Sending
  <2> QED
    BY <2>4, <2>5, <2>6 DEF IInv
<1> QED
  BY <1>3, <1>4, <1>5, <1>6, <1>7, <1>8

\* The actor's pool is closed, spawned and subscribed.
LEMMA PoolSteps ==
    ASSUME IInv,
           \/ PoolClosed \/ PoolSpawn \/ PoolSubscribe \/ PoolSubscribed
           \/ PublishInboxList \/ InboxListPublished
    PROVE  IInv' /\ FenceStep
<1>1. /\ chat \in Chats /\ disk \in Disks /\ PoolInv /\ Placed /\ Called
      /\ pool.subs \subseteq {Dm} /\ (chat.req = "send" => chat.rumor \in Sends)
  BY DEF IInv, Placed
<1>2. chat.pc # "down" /\ UNCHANGED <<disk, owed>>
  BY DEF PoolClosed, PoolSpawn, PoolSubscribe, PoolSubscribed, PublishInboxList, InboxListPublished
\* Where every one of these steps but the ones that wait ends.
<1>3. ASSUME PoolInv', FenceStep, awaiting' = {}, pool'.subs \subseteq {Dm},
             NEW c \in Chats, c.messages = chat.messages, c.req = chat.req, c.rumor = chat.rumor,
             PoolReady(c)
      PROVE  IInv' /\ FenceStep
  <2>1. /\ chat' \in Chats /\ chat'.messages = chat.messages
        /\ \/ chat'.pc = "resolve" /\ chat'.req = "send" /\ chat.req = "send" /\ chat'.rumor = chat.rumor
           \/ chat'.pc = "idle" /\ chat'.req = "none"
    BY <1>3, PoolReadyFields
  <2>2. Placed' /\ Called'
    BY <1>1, <1>3, <2>1 DEF Placed, Called, Resting, Sending
  <2> QED
    BY <1>2, <1>3, <2>1, <2>2, QuietStep
<1>4. CASE PoolClosed
  <2>1. PoolInv' /\ FenceStep /\ awaiting' = {} /\ pool' = NoPool
    BY <1>1, <1>4, EndShutdownStep DEF PoolClosed, Placed
  <2>2. /\ chat' \in Chats /\ chat'.pc = "spawn" /\ chat'.req = chat.req /\ chat'.rumor = chat.rumor
        /\ chat'.messages = chat.messages
    BY <1>1, <1>4, MoveFields DEF PoolClosed, Places, Resting
  <2>3. Placed' /\ Called'
    BY <1>1, <2>1, <2>2, NoPoolWindow DEF Placed, Called, Resting, Sending
  <2> QED
    BY <1>2, <2>1, <2>2, <2>3, QuietStep
<1>5. CASE PoolSpawn
  <2> DEFINE c == [chat EXCEPT !.subscribedFor = FALSE, !.poolRelays = chat.relays, !.poolKey = disk.identity]
  <2>1. /\ c \in Chats /\ c.messages = chat.messages /\ c.req = chat.req /\ c.rumor = chat.rumor
        /\ chat.relays \in SUBSET Relays /\ disk.identity \in BOOLEAN
    BY <1>1 DEF Chats, Disks
  <2>2. awaiting = {} /\ pool = NoPool
    BY <1>1, <1>5 DEF PoolSpawn, Placed, Resting
  <2>3. \/ PoolReady(c) /\ UNCHANGED poolVars
        \/ SpawnPool(chat.relays, disk.identity) /\ awaiting' = {} /\ chat' = [c EXCEPT !.pc = "subscribe"]
    BY <1>5 DEF PoolSpawn
  <2> HIDE DEF c
  <2>4. CASE PoolReady(c) /\ UNCHANGED poolVars
    BY <1>1, <1>3, <2>1, <2>2, <2>4, PoolUnchanged
  <2>5. CASE SpawnPool(chat.relays, disk.identity) /\ awaiting' = {} /\ chat' = [c EXCEPT !.pc = "subscribe"]
    <3>1. PoolInv' /\ FenceStep /\ pool'.subs = {}
      BY <1>1, <2>1, <2>2, <2>5, SpawnPoolStep
    <3>2. /\ chat' \in Chats /\ chat'.pc = "subscribe" /\ chat'.req = chat.req /\ chat'.rumor = chat.rumor
          /\ chat'.messages = chat.messages
      BY <2>1, <2>5, MoveFields DEF Places, Resting
    <3>3. Placed' /\ Called'
      BY <1>1, <2>5, <3>1, <3>2 DEF Placed, Called, Resting, Sending
    <3> QED
      BY <1>2, <3>1, <3>2, <3>3, QuietStep
  <2> QED
    BY <2>3, <2>4, <2>5
<1>6. CASE PoolSubscribe
  <2>1. awaiting = {}
    BY <1>1, <1>6 DEF PoolSubscribe, Placed, Resting
  <2>2. CASE PoolReady(chat) /\ UNCHANGED poolVars
    BY <1>1, <1>3, <2>1, <2>2, PoolUnchanged
  <2>3. CASE (\E same \in BOOLEAN : StartSubscribe(Dm, same)) /\ chat' = [chat EXCEPT !.pc = "subscribing"]
    <3>1. PoolInv' /\ FenceStep /\ pool'.subs \subseteq pool.subs \cup {Dm} /\ \A r \in awaiting' : Asking(conn'[r], Dm)
      BY <1>1, <2>1, <2>3, StartSubscribeStep, ChatAssumption
    <3>2. /\ chat' \in Chats /\ chat'.pc = "subscribing" /\ chat'.req = chat.req /\ chat'.rumor = chat.rumor
          /\ chat'.messages = chat.messages
      BY <1>1, <2>3, MoveFields DEF Places
    <3>3. Placed' /\ Called'
      BY <1>1, <3>1, <3>2 DEF Placed, Called, Resting, Sending
    <3> QED
      BY <1>2, <3>1, <3>2, <3>3, QuietStep
  <2> QED
    BY <1>6, <2>2, <2>3 DEF PoolSubscribe, EnsureSubscription
<1>7. CASE PoolSubscribed
  <2> DEFINE c == [chat EXCEPT !.subscribedFor = TRUE]
  <2>1. c \in Chats /\ c.messages = chat.messages /\ c.req = chat.req /\ c.rumor = chat.rumor
    BY <1>1 DEF Chats
  <2>2. \A r \in awaiting : Asking(conn[r], Dm)
    BY <1>1, <1>7 DEF PoolSubscribed, Called
  <2>3. PoolInv' /\ FenceStep /\ awaiting' = {} /\ pool'.subs = pool.subs
    BY <1>1, <1>7, <2>2, EndSubscribeStep, ChatAssumption DEF PoolSubscribed
  <2>4. PoolReady(c) \/ chat' = [c EXCEPT !.pc = "listwait"]
    BY <1>7 DEF PoolSubscribed
  <2> HIDE DEF c
  <2>5. CASE PoolReady(c)
    BY <1>1, <1>3, <2>1, <2>3, <2>5
  <2>6. CASE chat' = [c EXCEPT !.pc = "listwait"]
    <3>1. /\ chat' \in Chats /\ chat'.pc = "listwait" /\ chat'.req = chat.req /\ chat'.rumor = chat.rumor
          /\ chat'.messages = chat.messages
      BY <2>1, <2>6, MoveFields DEF Places, Resting
    <3>2. Placed' /\ Called'
      BY <1>1, <2>3, <3>1 DEF Placed, Called, Resting, Sending
    <3> QED
      BY <1>2, <2>3, <3>1, <3>2, QuietStep
  <2> QED
    BY <2>4, <2>5, <2>6
<1>8. CASE PublishInboxList
  <2>1. awaiting = {} /\ DmList \in Events
    BY <1>1, <1>8, ChatAssumption DEF PublishInboxList, Placed, Resting
  <2>2. CASE PublishToRelays(DmList, "listing")
    <3>1. /\ PoolInv' /\ FenceStep /\ pool' = pool
          /\ chat' \in Chats /\ chat'.pc = "listing" /\ chat'.req = chat.req /\ chat'.rumor = chat.rumor
          /\ chat'.messages = chat.messages
      BY <2>1, <2>2, PublishStep DEF Places
    <3>2. Placed' /\ Called'
      BY <1>1, <3>1 DEF Placed, Called, Resting, Sending
    <3> QED
      BY <1>2, <3>1, <3>2, QuietStep
  <2>3. CASE PoolReady(chat) /\ UNCHANGED poolVars
    BY <1>1, <1>3, <2>1, <2>3, PoolUnchanged
  <2> QED
    BY <1>8, <2>2, <2>3 DEF PublishInboxList
<1>9. CASE InboxListPublished
  <2>1. PoolInv' /\ FenceStep /\ awaiting' = {} /\ pool' = pool
    BY <1>1, <1>9, EndPublishStep DEF InboxListPublished
  <2> QED
    BY <1>1, <1>3, <1>9, <2>1 DEF InboxListPublished
<1> QED
  BY <1>4, <1>5, <1>6, <1>7, <1>8, <1>9

\* Notifications.
LEMMA NoteSteps ==
    ASSUME IInv, NEW r \in Relays, NoteStep(r) \/ Resubscribed
    PROVE  IInv' /\ FenceStep
<1>1. /\ chat \in Chats /\ disk \in Disks /\ PoolInv /\ Placed /\ Called /\ Saved
      /\ pool.subs \subseteq {Dm} /\ (chat.req = "send" => chat.rumor \in Sends)
  BY DEF IInv, Placed
<1>2. CASE Receive(r)
  <2>0. chat.pc = "idle" /\ awaiting = {}
    BY <1>2 DEF Receive, CanTake
  <2>1. PICK e \in Events, ok \in BOOLEAN : NextEvent(r, e) /\ OnNotification(e, ok)
    BY <1>2 DEF Receive
  <2>2. PoolInv' /\ FenceStep /\ awaiting' = awaiting /\ pool'.subs = pool.subs
    BY <1>1, <2>0, <2>1, NextEventStep
  <2>3. CASE UNCHANGED <<chat, disk, owed>>
    <3>1. Placed' /\ Called' /\ Saved'
      BY <1>1, <2>0, <2>2, <2>3 DEF Placed, Called, Saved, Resting, Sending
    <3> QED
      BY <1>1, <2>2, <2>3, <3>1 DEF IInv
  <2>4. CASE StoreMessage(chat, Opened[e], ok)
    <3>1. Opened[e] \in Rumors
      BY DEF Rumors
    <3>2. /\ chat' \in Chats /\ disk' \in Disks /\ Saved'
          /\ chat'.pc = chat.pc /\ chat'.req = chat.req /\ chat'.rumor = chat.rumor
      BY <1>1, <2>0, <2>4, <3>1, StoreMessageStep
    <3>3. Placed' /\ Called'
      BY <1>1, <2>0, <2>2, <3>2 DEF Placed, Called, Resting, Sending
    <3> QED
      BY <2>2, <3>2, <3>3 DEF IInv
  <2> QED
    BY <2>1, <2>3, <2>4 DEF OnNotification
<1>3. CASE Ignore(r)
  <2>0. chat.pc = "idle" /\ awaiting = {} /\ UNCHANGED <<chat, disk, owed>>
    BY <1>3 DEF Ignore, CanTake
  <2>1. PoolInv' /\ FenceStep /\ awaiting' = awaiting /\ pool'.subs = pool.subs
    BY <1>1, <1>3, <2>0, SkipNoteStep, NextClosedStep DEF Ignore
  <2>2. Placed' /\ Called' /\ Saved'
    BY <1>1, <2>0, <2>1 DEF Placed, Called, Saved, Resting, Sending
  <2> QED
    BY <1>1, <2>0, <2>1, <2>2 DEF IInv
<1>4. CASE Resubscribe(r)
  <2>0. chat.pc = "idle" /\ awaiting = {} /\ UNCHANGED <<disk, owed>>
    BY <1>4 DEF Resubscribe, CanTake
  <2>1. PoolInv' /\ FenceStep /\ awaiting' = {r} /\ pool' = pool /\ Asking(conn'[r], Dm)
    BY <1>1, <1>4, <2>0, StartResubscribeStep, ChatAssumption DEF Resubscribe
  <2>2. /\ chat' \in Chats /\ chat'.pc = "next" /\ chat'.req = chat.req /\ chat'.rumor = chat.rumor
        /\ chat'.messages = chat.messages
    BY <1>1, <1>4, MoveFields DEF Resubscribe, Places
  <2>3. Placed' /\ Called'
    BY <1>1, <2>1, <2>2 DEF Placed, Called, Resting, Sending
  <2> QED
    BY <2>0, <2>1, <2>2, <2>3, QuietStep
<1>5. CASE Resubscribed
  <2>0. chat.pc = "next" /\ UNCHANGED <<disk, owed>> /\ \A q \in awaiting : Asking(conn[q], Dm)
    BY <1>1, <1>5 DEF Resubscribed, Called
  <2>1. PoolInv' /\ FenceStep /\ awaiting' = {} /\ pool'.subs = pool.subs
    BY <1>1, <1>5, <2>0, EndSubscribeStep, CancelNextStep, ChatAssumption DEF Resubscribed
  <2>2. /\ chat' \in Chats /\ chat'.pc = "idle" /\ chat'.req = chat.req /\ chat'.rumor = chat.rumor
        /\ chat'.messages = chat.messages
    BY <1>1, <1>5, MoveFields DEF Resubscribed, Places, Resting
  <2>3. Placed' /\ Called'
    BY <1>1, <2>1, <2>2 DEF Placed, Called, Resting, Sending
  <2> QED
    BY <2>0, <2>1, <2>2, <2>3, QuietStep
<1> QED
  BY <1>2, <1>3, <1>4, <1>5 DEF NoteStep

\* The process starts, and is killed.
LEMMA ProcessSteps ==
    ASSUME IInv, Start \/ Kill
    PROVE  IInv' /\ FenceStep
<1>1. chat \in Chats /\ disk \in Disks /\ PoolInv /\ Placed /\ Saved
  BY DEF IInv
<1>2. <<>> \in Seq(Rumors) /\ Down \in Chats /\ Down.pc = "down" /\ Down.req = "none" /\ Down.messages = <<>>
  BY DEF Down, Chats, Places, Resting
<1>3. CASE Start
  <2>1. awaiting = {} /\ pool.subs \subseteq {Dm} /\ disk' = disk
    BY <1>1, <1>3 DEF Start, Placed, Resting
  <2>2. PICK readable \in BOOLEAN :
            /\ RestartPool([Down EXCEPT !.req = "other", !.relays = disk.relays,
                                        !.messages = IF readable THEN disk.messages ELSE <<>>])
            /\ owed' = IF readable THEN owed ELSE {}
    BY <1>3 DEF Start
  <2> DEFINE list == IF readable THEN disk.messages ELSE <<>>
             c == [Down EXCEPT !.req = "other", !.relays = disk.relays, !.messages = list]
  <2>3. list \in Seq(Rumors) /\ disk.relays \in SUBSET Relays
    BY <1>1, <1>2 DEF Disks
  <2>4. owed' \subseteq Range(list) /\ owed' \subseteq Range(disk.messages)
    BY <1>1, <2>2 DEF Saved
  <2> HIDE DEF list
  <2>5. c \in Chats /\ c.messages = list /\ c.req = "other"
    BY <1>2, <2>3 DEF Chats
  <2>6. PoolInv' /\ FenceStep /\ awaiting' = pool.relays /\ pool' = pool
    BY <1>1, <2>1, <2>2, StartShutdownStep DEF RestartPool
  <2>7. chat' = [c EXCEPT !.pc = "closing"]
    BY <2>2 DEF RestartPool, list
  <2> HIDE DEF c
  <2>8. chat' \in Chats /\ chat'.pc = "closing" /\ chat'.req = "other" /\ chat'.messages = list
    BY <2>5, <2>7, MoveFields DEF Places
  <2>9. Placed' /\ Called' /\ Saved'
    BY <2>1, <2>4, <2>6, <2>8 DEF Placed, Called, Saved, Resting, Sending
  <2> QED
    BY <1>1, <2>1, <2>6, <2>8, <2>9 DEF IInv
<1>4. CASE Kill
  <2>1. chat' = Down /\ pool' = NoPool /\ awaiting' = {} /\ disk' = disk /\ owed' = owed
    BY <1>4 DEF Kill
  <2>2. PoolInv' /\ FenceStep
    BY <1>4, NoPoolStep DEF Kill
  <2>3. Placed' /\ Called' /\ Saved'
    BY <1>1, <1>2, <2>1, NoPoolWindow DEF Placed, Called, Saved, Resting, Sending
  <2> QED
    BY <1>1, <1>2, <2>1, <2>2, <2>3 DEF IInv
<1> QED
  BY <1>3, <1>4

\* The relay connections act while the actor waits.
LEMMA RelaySteps ==
    ASSUME IInv, NEW r \in Relays, RelayStep(r) \/ RelayCommand(r) \/ TimerStep(r)
    PROVE  IInv' /\ FenceStep
<1>1. chat \in Chats /\ disk \in Disks /\ PoolInv /\ Placed /\ Called /\ Saved /\ awaiting \subseteq Relays
  BY DEF IInv, PoolInv
<1>2. UNCHANGED <<pool, awaiting, chat, disk, owed>>
  BY DEF RelayStep, RelayCommand, TimerStep
<1>3. \/ ActorConnect(r) \/ ActorCommand(r) \/ ActorFrame(r, Inbound) \/ ActorLost(r) \/ ActorWait(r)
      \/ CallTimeout(r) \/ AbortConnection(r)
  BY DEF RelayStep, RelayCommand, TimerStep
<1>4. PoolInv' /\ FenceStep /\ StaysServing /\ StaysAsking
  BY <1>1, <1>2, <1>3, ActorSteps, ChatAssumption
<1>5. Placed' /\ Saved'
  BY <1>1, <1>2 DEF Placed, Saved
<1>6. chat.pc = "sending" => WrapFor[chat.rumor] \in Events
  BY <1>1, ChatAssumption DEF Placed, Sending
<1>7. Called'
  BY <1>1, <1>2, <1>4, <1>6, ChatAssumption DEF Called, StaysServing, StaysAsking
<1> QED
  BY <1>1, <1>2, <1>4, <1>5, <1>7 DEF IInv

(***************************************************************************)
(* The theorems.                                                           *)
(***************************************************************************)
LEMMA InitInv ==
    ASSUME Init
    PROVE  IInv
<1>1. PoolInv /\ pool = NoPool /\ awaiting = {} /\ pool.subs = {}
  BY PoolInitInv, NoPoolWindow DEF Init, PoolInit
<1>2. <<>> \in Seq(Rumors)
  OBVIOUS
<1>3. chat \in Chats /\ chat.pc = "down" /\ chat.req = "none" /\ disk \in Disks /\ owed = {}
  BY <1>2 DEF Init, Down, Chats, Disks, Places, Resting
<1>4. Placed /\ Called /\ Saved
  BY <1>1, <1>3 DEF Placed, Called, Saved, Resting, Sending
<1> QED
  BY <1>1, <1>3, <1>4 DEF IInv

\* Every step keeps the inductive invariant and the fence.
LEMMA StepInv ==
    ASSUME IInv, [Next]_vars
    PROVE  IInv' /\ FenceStep
<1>1. CASE UNCHANGED vars
  <2>1. /\ conn' = conn /\ pool' = pool /\ awaiting' = awaiting
        /\ chat' = chat /\ disk' = disk /\ owed' = owed
    BY <1>1 DEF vars
  <2>2. PoolInv' /\ FenceStep
    BY <2>1, PoolUnchanged DEF IInv, poolVars
  <2>3. Placed' /\ Called' /\ Saved'
    BY <2>1 DEF IInv, Placed, Called, Saved
  <2> QED
    BY <2>1, <2>2, <2>3 DEF IInv
<1>2. CASE Request
  BY <1>2, RequestSteps
<1>3. CASE ChatStep
  <2>1. PICK r \in Relays : TRUE
    BY PoolAssumption
  <2> QED
    BY <1>3, <2>1, SendSteps, PoolSteps, NoteSteps DEF ChatStep
<1>4. CASE Start \/ Kill
  BY <1>4, ProcessSteps
<1>5. CASE \E r \in Relays : RelayStep(r) \/ RelayCommand(r) \/ TimerStep(r) \/ NoteStep(r)
  BY <1>5, RelaySteps, NoteSteps
<1> QED
  BY <1>1, <1>2, <1>3, <1>4, <1>5 DEF Next

\* The invariant of the chat actor, its pool and their connections: calls in
\* flight, subscriptions kept, the window, and what is announced.
THEOREM Invariance == SafetySpec => []IInv
<1>1. Init => IInv
  BY InitInv
<1>2. IInv /\ [Next]_vars => IInv'
  BY StepInv
<1> QED
  BY <1>1, <1>2, PTL DEF SafetySpec

\* An authenticated session has asked for exactly the subscriptions that are
\* kept, whatever reconnects and challenges came before (relay.rs,
\* replay_subscriptions).
THEOREM ReplayExactHolds == SafetySpec => []ReplayExact
<1>1. IInv => ReplayExact
  BY DEF IInv, PoolInv, Fine, Good, ReplayExact, Up
<1> QED
  BY <1>1, Invariance, PTL

\* A subscription that was asked for is on the relay, on its way, or will be
\* asked for again (pool.rs, next_notification).
THEOREM SubscriptionNotLostHolds == SafetySpec => []SubscriptionNotLost
<1>1. ASSUME IInv PROVE SubscriptionNotLost
  <2>1. PoolInv /\ pool.relays \subseteq Relays
    BY <1>1, PoolFacts DEF IInv
  <2>2. \A r \in pool.relays : Dm \in pool.subs => Kept(conn[r], Dm)
    BY <2>1 DEF PoolInv, Fine
  <2> QED
    BY <2>2 DEF SubscriptionNotLost, Kept, Up
<1> QED
  BY <1>1, Invariance, PTL

\* The deduplication window and its order agree and stay within capacity,
\* through expiry and eviction (pool.rs, remember_event).
THEOREM WindowExactHolds == SafetySpec => []WindowExact
<1>1. ASSUME IInv PROVE WindowExact
  <2>1. Window(pool) /\ pool \in Pools
    BY <1>1, PoolFacts DEF IInv
  <2>2. pool.order \in Seq(Events)
    BY <2>1 DEF Pools
  <2>3. pool.seen = Range(pool.order) /\ Distinct(pool.order) /\ Len(pool.order) <= DedupCapacity
    BY <2>1 DEF Window
  <2>4. Cardinality(Range(pool.order)) = Len(pool.order)
    BY <2>2, <2>3, DistinctCardinality
  <2> QED
    BY <2>3, <2>4 DEF WindowExact
<1> QED
  BY <1>1, Invariance, PTL

\* A message that was announced is in the record on disk, across failed saves,
\* kills and restarts, until the list gives it up (nostr_chat.rs,
\* store_message).
THEOREM AnnouncedIsSavedHolds == SafetySpec => []AnnouncedIsSaved
<1>1. IInv => AnnouncedIsSaved
  BY DEF IInv, Saved, AnnouncedIsSaved
<1> QED
  BY <1>1, Invariance, PTL

\* send() goes past the publish only when a relay has accepted the wrap of this
\* message in this call (nostr_chat.rs, send; pool.rs, publish).
THEOREM SendIsTrueHolds == SafetySpec => SendIsTrue
<1> DEFINE A == chat.pc = "sending" /\ chat'.pc = "selfwait" =>
                    \E r \in awaiting : WrapFor[chat.rumor] \in conn[r].took
<1>1. ASSUME IInv, [Next]_vars PROVE A
  <2> SUFFICES ASSUME chat.pc = "sending", chat'.pc = "selfwait"
               PROVE  \E r \in awaiting : WrapFor[chat.rumor] \in conn[r].took
    OBVIOUS
  <2>1. chat' # chat
    OBVIOUS
  <2>2. ~Request /\ ~Start
    BY DEF Request, Prepare, AddContact, SetRelays, Reload, Send, CanTake, Start
  <2>3. ~Kill
    <3>1. Down.pc = "down"
      BY DEF Down
    <3> QED
      BY <3>1 DEF Kill
  <2>4. \A r \in Relays : ~(RelayStep(r) \/ RelayCommand(r) \/ TimerStep(r))
    BY <2>1 DEF RelayStep, RelayCommand, TimerStep
  <2>5. \A r \in Relays : ~NoteStep(r)
    BY DEF NoteStep, Receive, Ignore, Resubscribe, CanTake
  <2>6. ChatStep
    BY <1>1, <2>1, <2>2, <2>3, <2>4, <2>5, ZenonT(30) DEF Next, vars
  <2>7. SendPublished
    BY <2>6 DEF ChatStep, ResolveFails, SendPublish, SelfPublish, SelfPublished, SendStore, PoolClosed,
                PoolSpawn, PoolSubscribe, PoolSubscribed, PublishInboxList, InboxListPublished, Resubscribed
  <2>8. PublishMet
    BY <1>1, <2>7, AnswerFields DEF SendPublished, IInv
  <2>9. Accepting # {}
    <3>1. Cardinality({}) = 0 /\ Threshold >= 1
      BY FS_EmptySet, FS_CardinalityType, PoolAssumption, SMTT(20)
    <3>2. Cardinality(Relays) \in Nat
      BY FS_CardinalityType, PoolAssumption
    <3> QED
      BY <2>8, <3>1, <3>2, PoolAssumption DEF PublishMet
  <2>10. PICK r \in awaiting : conn[r].call = "ok"
    BY <2>9 DEF Accepting
  <2> QED
    BY <1>1, <2>10 DEF IInv, Called, Serving
<1>2. SafetySpec => [][A]_vars
  BY <1>1, Invariance, PTL DEF SafetySpec
<1> QED
  BY <1>2 DEF SendIsTrue

\* While a challenge is unanswered nothing is sent: what waits for an OK and
\* what was asked grow only on an open session (relay.rs, handle_command).
THEOREM AuthFenceHolds == SafetySpec => AuthFence
<1> DEFINE A == \A r \in Relays :
                    \/ conn'[r].open
                    \/ /\ conn'[r].wire \subseteq conn[r].wire
                       /\ conn'[r].pend \subseteq conn[r].pend
<1>1. ASSUME IInv, [Next]_vars PROVE A
  BY <1>1, StepInv DEF FenceStep, Fenced
<1>2. SafetySpec => [][A]_vars
  BY <1>1, Invariance, PTL DEF SafetySpec
<1> QED
  BY <1>2 DEF AuthFence

=============================================================================
