-------------------------------- MODULE A2S ----------------------------------
(***************************************************************************)
(* The query client (internal/a2s/a2s.go): a status query's Info, or an    *)
(* Info and a Players on one socket, against a game server that challenges *)
(* or not, answers in one datagram or in fragments, over a network that    *)
(* loses, delays, reorders and duplicates.                                 *)
(*                                                                         *)
(* A reply is a sequence of fields, each tagged with the reply it belongs  *)
(* to, so that a value put together from two replies shows.  Both the      *)
(* socket's timeout and the context's deadline are queryA2S's budget: they *)
(* pass together, and from then on every read fails.  A call gets what is  *)
(* left of the budget by the calls before it.  A datagram that is lost is   *)
(* one that nobody reads any more.                                         *)
(***************************************************************************)
EXTENDS Integers, Sequences, FiniteSets

CONSTANTS
    Calls,      \* the queries made on one socket: a sequence of "info", "players"
    Splits,     \* how a reply may be split: <<fragments, mark of the id>>
    Losses,     \* fields that a middleman may cut off a reply in one datagram
    MaxRows,    \* players of a reply, at most
    MaxReplies, \* replies and challenges of the server, at most
    MaxCopies,  \* datagrams that the network duplicates, at most
    MaxFragments \* the client's own cap on the fragments of a reply

\* A reply is split into a fragment or more.
A2SAssumption ==
    /\ \A s \in Splits : s[1] \in Nat \ {0}
    /\ Losses \subseteq Nat /\ MaxRows \in Nat

VARIABLES
    \* the client
    pc, call, tries,
    id, total,  \* of the split reply being put together
    got,        \* its fragments: the reply each number was taken from
    res,        \* what each call returned
    expired,    \* the budget is used up
    \* server and network
    replies,    \* every reply written so far
    asked,      \* the query of a request on its way, or "none"
    net,        \* datagrams on their way to the client
    copies

client == <<pc, call, tries, id, total, got, res>>
vars == <<client, expired, replies, asked, net, copies>>

-----------------------------------------------------------------------------
(***************************************************************************)
(* Replies, and how they are read                                          *)
(***************************************************************************)
\* What a server writes: the Source form, the obsolete one, and the players.
WireSource == <<"protocol", "name", "map", "folder", "game", "appid", "players", "max",
                "bots", "type", "environment", "visibility", "vac", "version">>
WireGoldsrc == <<"address", "name", "map", "folder", "game", "players", "max",
                 "protocol", "type", "environment", "visibility", "mod">>
WireRow == <<"index", "player", "score", "duration">>

Fields(r) ==
    CASE r.form = "source" -> WireSource
      [] r.form = "goldsrc" -> WireGoldsrc
      [] r.form = "rows" -> <<"count">> \o [i \in 1 .. 4 * r.rows |-> WireRow[((i - 1) % 4) + 1]]

\* The reply on the wire: its four-byte header, the byte that names its form,
\* and as many of its fields as a middleman lets through, tagged with number n.
Payload(r, n) ==
    LET fields == Fields(r)
    IN  <<"whole", r.form>> \o [i \in 1 .. Len(fields) - r.lost |-> <<n, i, fields[i]>>]

\* The part of reply n that its fragment k carries.
Cut(n, k) == (k * Len(Payload(replies[n], n))) \div replies[n].split
Body(n, k) == SubSeq(Payload(replies[n], n), Cut(n, k) + 1, Cut(n, k + 1))

Failed(why) == [ok |-> FALSE, why |-> why]

\* decodeInfo and decodeGoldsrcInfo: a field of the answer is what stands at its
\* place, and a reply that ends before the last place is an error.
SourceLayout == <<"protocol", "name", "map", "folder", "game", "appid", "players", "max",
                  "bots", "type", "environment", "visibility">>
GoldsrcLayout == <<"address", "name", "map", "folder", "game", "players", "max",
                   "protocol", "type", "environment", "visibility">>

Info == {"protocol", "name", "map", "game", "players", "max", "bots"}
GoldsrcInfo == Info \ {"game", "bots"}

DecodeInfo(b, layout, wanted) ==
    IF Len(b) < Len(layout) THEN Failed("truncated")
    ELSE [ok |-> TRUE, info |-> [f \in wanted |-> b[CHOOSE i \in DOMAIN layout : layout[i] = f]]]

\* decodePlayers: the count, then four fields a row, without a SteamID.
DecodePlayers(b, rows) ==
    IF Len(b) < 1 + 4 * rows THEN Failed("truncated")
    ELSE [ok |-> TRUE, players |-> [i \in 1 .. rows |-> SubSeq(b, 4 * i - 2, 4 * i + 1)]]

\* Info and Players: what is made of a payload without its first header.
Decoded(query, p, rows) ==
    CASE p = <<>> -> Failed("empty")
      [] query = "info" /\ Head(p) = "source" -> DecodeInfo(Tail(p), SourceLayout, Info)
      [] query = "info" /\ Head(p) = "goldsrc" ->
           DecodeInfo(Tail(p), GoldsrcLayout, GoldsrcInfo)
      [] query = "players" /\ Head(p) = "rows" -> DecodePlayers(Tail(p), rows)
      [] OTHER -> Failed("header")

Stripped(p) == IF p # <<>> /\ Head(p) = "whole" THEN Tail(p) ELSE p

-----------------------------------------------------------------------------
(***************************************************************************)
(* Datagrams.  A fragment's id is four bytes where a challenge has 'A' and *)
(* its value: an id may begin with that byte ("A"), or carry the bit that  *)
(* says "compressed", or be "plain".  No id is used twice in one query.    *)
(***************************************************************************)
Challenge == [type |-> "challenge"]
Single(n) == [type |-> "single", reply |-> n]
Fragment(n, k) == [type |-> "split", reply |-> n, number |-> k]

Total(d) == replies[d.reply].split
Mark(d) == replies[d.reply].mark

\* roundTrip looks at the fifth byte before it looks at the header.
LooksLikeChallenge(d) == d.type = "challenge" \/ (d.type = "split" /\ Mark(d) = "A")

\* A read: one datagram leaves the network, or a copy of it stays.
Read(d) ==
    /\ d \in net /\ ~expired
    /\ \/ net' = net \ {d} /\ UNCHANGED copies
       \/ copies < MaxCopies /\ copies' = copies + 1 /\ UNCHANGED net

Return(r) ==
    /\ res' = Append(res, r)
    /\ pc' = IF call = Len(Calls) THEN "end" ELSE "send"
    /\ call' = call + 1
    /\ tries' = 0
    /\ got' = <<>>
    /\ UNCHANGED <<id, total>>

-----------------------------------------------------------------------------
(***************************************************************************)
(* roundTrip                                                               *)
(***************************************************************************)
Quiet == UNCHANGED <<expired, replies>>

Complete == Cardinality(DOMAIN got) >= total

\* The request goes out, with the challenge of the last answer if there was one.
Send ==
    /\ pc = "send" /\ ~expired
    /\ asked' = Calls[call]
    /\ pc' = "read"
    /\ UNCHANGED <<call, tries, id, total, got, res, net, copies>> /\ Quiet

\* Mutant: the reads for the other fragments have no deadline.
TooLateAtFirst ==
    /\ expired /\ pc \in {"send", "read"}
    /\ Return(Failed("timeout"))
    /\ UNCHANGED <<asked, net, copies>> /\ Quiet

\* The deadline: before the request, in a read, between two fragments.
TooLate ==
    /\ expired
    /\ pc \in {"send", "read"} \/ (pc = "more" /\ ~Complete)
    /\ Return(Failed(IF pc = "more" THEN "incomplete" ELSE "timeout"))
    /\ UNCHANGED <<asked, net, copies>> /\ Quiet

ReadChallenge ==
    /\ pc = "read"
    /\ \E d \in net :
         /\ LooksLikeChallenge(d)
         /\ Read(d)
         /\ IF tries = 2
              THEN Return(Failed("challenged"))
              ELSE /\ tries' = tries + 1 /\ pc' = "send"
                   /\ UNCHANGED <<call, id, total, got, res>>
    /\ UNCHANGED asked /\ Quiet

ReadSingle ==
    /\ pc = "read"
    /\ \E d \in net :
         /\ d.type = "single"
         /\ Read(d)
         /\ Return(Decoded(Calls[call], Tail(Payload(replies[d.reply], d.reply)),
                           replies[d.reply].rows))
    /\ UNCHANGED asked /\ Quiet

\* The first fragment of a split reply to arrive (parseFragment).
ReadFragment ==
    /\ pc = "read"
    /\ \E d \in net :
         /\ d.type = "split" /\ ~LooksLikeChallenge(d)
         /\ Read(d)
         /\ IF Mark(d) = "compressed" \/ Total(d) > MaxFragments
              THEN Return(Failed("unsupported"))
              ELSE /\ id' = d.reply /\ total' = Total(d)
                   /\ got' = [k \in {d.number} |-> d.reply]
                   /\ pc' = "more"
                   /\ UNCHANGED <<call, tries, res>>
    /\ UNCHANGED asked /\ Quiet

-----------------------------------------------------------------------------
(***************************************************************************)
(* reassemble                                                              *)
(***************************************************************************)
\* Mutant: a fragment is taken by its number alone.
SameReplyByTotal(d) == Total(d) = total

\* Belongs to the reply that is being put together.
SameReply(d) == d.reply = id /\ Total(d) = total

Added(d) == [k \in DOMAIN got \union {d.number} |-> IF k = d.number THEN d.reply ELSE got[k]]

Collect ==
    /\ pc = "more" /\ ~Complete
    /\ \E d \in net :
         /\ Read(d)
         /\ CASE d.type # "split" -> UNCHANGED client
              [] d.type = "split" /\ Mark(d) = "compressed" -> Return(Failed("unsupported"))
              [] OTHER ->
                   /\ got' = IF SameReply(d) THEN Added(d) ELSE got
                   /\ UNCHANGED <<pc, call, tries, id, total, res>>
    /\ UNCHANGED asked /\ Quiet

\* In the order of their numbers, whatever the order they came in.
Joined ==
    LET first[k \in 0 .. total] ==
          IF k = 0 THEN <<>>
          ELSE first[k - 1] \o (IF k - 1 \in DOMAIN got THEN Body(got[k - 1], k - 1) ELSE <<>>)
    IN  first[total]

Reassemble ==
    /\ pc = "more" /\ Complete
    /\ Return(Decoded(Calls[call], Stripped(Joined), replies[id].rows))
    /\ UNCHANGED <<asked, net, copies>> /\ Quiet

-----------------------------------------------------------------------------
(***************************************************************************)
(* The server, the network and the clock                                   *)
(***************************************************************************)
Written == Len(replies)

Challenges ==
    /\ asked # "none" /\ Written < MaxReplies
    /\ replies' = Append(replies, [form |-> "challenge"])
    /\ net' = net \union {Challenge}
    /\ asked' = "none"
    /\ UNCHANGED <<client, expired, copies>>

\* A whole reply, some fields of which a middleman may cut.
AnswersWhole ==
    /\ asked # "none" /\ Written < MaxReplies
    /\ \E form \in (IF asked = "info" THEN {"source", "goldsrc"} ELSE {"rows"}),
          rows \in 0 .. MaxRows, lost \in Losses :
         /\ form # "rows" => rows = 0
         /\ form = "rows" => lost <= 4 * rows
         /\ replies' = Append(replies, [form |-> form, rows |-> rows, lost |-> lost,
                                        split |-> 0, mark |-> "plain"])
    /\ net' = net \union {Single(Written + 1)}
    /\ asked' = "none"
    /\ UNCHANGED <<client, expired, copies>>

AnswersSplit ==
    /\ asked # "none" /\ Written < MaxReplies
    /\ \E s \in Splits :
         /\ replies' = Append(replies, [form |-> IF asked = "info" THEN "source" ELSE "rows",
                                        rows |-> IF asked = "info" THEN 0 ELSE MaxRows,
                                        lost |-> 0, split |-> s[1], mark |-> s[2]])
         /\ net' = net \union {Fragment(Written + 1, k) : k \in 0 .. s[1] - 1}
    /\ asked' = "none"
    /\ UNCHANGED <<client, expired, copies>>

Expires ==
    /\ pc # "end" /\ ~expired
    /\ expired' = TRUE
    /\ UNCHANGED <<client, replies, asked, net, copies>>

-----------------------------------------------------------------------------
Init ==
    /\ pc = "send" /\ call = 1 /\ tries = 0
    /\ id = 0 /\ total = 0 /\ got = <<>> /\ res = <<>>
    /\ expired = FALSE
    /\ replies = <<>> /\ asked = "none" /\ net = {} /\ copies = 0

Client == Send \/ TooLate \/ ReadChallenge \/ ReadSingle \/ ReadFragment \/ Collect \/ Reassemble

Next ==
    \/ Client
    \/ pc # "end" /\ ~expired /\ (Challenges \/ AnswersWhole \/ AnswersSplit)
    \/ Expires

\* Time passes, and the client runs when no read holds it: after the deadline,
\* or with every fragment.  Nothing is asked of the server or the network.
Fairness == WF_vars(TooLate \/ Reassemble) /\ WF_vars(Expires)

Spec == Init /\ [][Next]_vars /\ Fairness

-----------------------------------------------------------------------------
TypeOK ==
    /\ pc \in {"send", "read", "more", "end"}
    /\ call \in 1 .. Len(Calls) + 1
    /\ tries \in 0 .. 2
    /\ id \in 0 .. MaxReplies /\ total \in {0} \union {s[1] : s \in Splits}
    /\ DOMAIN got \subseteq Nat
    /\ Len(res) = call - 1
    /\ expired \in BOOLEAN
    /\ Len(replies) <= MaxReplies
    /\ asked \in {"none", "info", "players"}
    /\ \A d \in net : d.type \in {"challenge", "single", "split"}
    /\ copies \in 0 .. MaxCopies

\* The fields of reply n, where the server put them.
Placed(n) == [i \in DOMAIN Fields(replies[n]) |-> <<n, i, Fields(replies[n])[i]>>]

IsInfoOf(info, n) ==
    /\ replies[n].form \in {"source", "goldsrc"}
    /\ \A f \in DOMAIN info : info[f][1] = n /\ info[f][3] = f

ArePlayersOf(players, n) ==
    /\ replies[n].form = "rows"
    /\ Len(players) = replies[n].rows
    /\ \A i \in DOMAIN players : players[i] = SubSeq(Placed(n), 4 * i - 2, 4 * i + 1)

\* What a query returns without an error is one reply of the server, whole:
\* each field of Info under its own name, every row of the player list, never
\* "a truncated map name or a player list missing its tail" (ErrIncomplete),
\* nor a mixture of two replies, whatever is lost, late, doubled or out of order
\* (roundTrip, reassemble, the decoders).
WholeReply ==
    \A q \in DOMAIN res : res[q].ok =>
        \E n \in DOMAIN replies :
            IF Calls[q] = "info" THEN IsInfoOf(res[q].info, n)
                                 ELSE ArePlayersOf(res[q].players, n)

\* Every query returns, though the server may stay silent, challenge for ever
\* or never send its last fragment: "the cap stops a hostile or looping server
\* from making the client wait forever" (maxFragments), "a cancelled context
\* must stop the query" (TestInfoRespectsTheContextDeadline).
QueriesReturn == <>(pc = "end")

=============================================================================
