------------------------------ MODULE RconProofs ------------------------------
(***************************************************************************)
(* Theorems about the RCON client, for any scripts of calls, sizes of      *)
(* answers, limits and noise: what a call returns is its own answer, and   *)
(* without an error all of it.                                             *)
(*                                                                         *)
(* Both are about packets that were read; the invariant is about those     *)
(* that are still to come: what is on the wire and what the server has     *)
(* planned to write, as one stream.                                        *)
(***************************************************************************)
EXTENDS MCRcon, SequenceTheorems, TLAPS

\* What is on its way to the client: what has been written, then what the server
\* has still to write.
Stream == wire \o plan

\* A packet of output of call k, an empty packet of its answer, and a frame that
\* comes after the whole answer.
Data(f, k) == f.id = "cmd" /\ f.call = k /\ f.size # "empty"
Blank(f, k) == f.id = "cmd" /\ f.call = k /\ f.size = "empty"
Marks(f, k) == f.id = "end" /\ f.call = k
Of(f, k) == f.id \in {"cmd", "end"} /\ f.call = k

------------------------------------------------------------------------------
(***************************************************************************)
(* An answer is one's own.                                                 *)
(***************************************************************************)

\* Packets of one answer are in the order they were written, and behind those
\* that were read (o).
Increasing(s) ==
    \A k \in Calls : \A i, j \in DOMAIN s :
        i < j /\ Data(s[i], k) /\ Data(s[j], k) => s[i].n < s[j].n
Behind(s, o) ==
    \A k \in Calls : \A i \in DOMAIN s : \A j \in DOMAIN o[k] :
        Data(s[i], k) => o[k][j][2] < s[i].n
Numbered(s) == \A k \in Calls : \A i \in DOMAIN s : Data(s[i], k) => s[i].n # 0

\* The output of a call is its own and in order.
OwnOutput(o) ==
    \A k \in Calls :
        /\ \A i \in DOMAIN o[k] : o[k][i][1] = k
        /\ \A i, j \in DOMAIN o[k] : i < j => o[k][i][2] < o[k][j][2]

\* Of a command that the server has not read (w) there is neither frame nor
\* output.
Unanswered(s, o, w) ==
    \A k \in Calls : w[k] = -1 =>
        o[k] = <<>> /\ \A i \in DOMAIN s : ~Of(s[i], k)

\* The requests on their way to the server: a command once, before its marker.
CommandOnce(q, w, i) ==
    q[i].id = "cmd" =>
        /\ q[i].call \in Calls /\ w[q[i].call] = -1
        /\ \A j \in DOMAIN q : q[j].id = "cmd" /\ q[j].call = q[i].call => j = i
MarkerAfter(q, w, i) ==
    q[i].id = "end" =>
        /\ q[i].call \in Calls
        /\ w[q[i].call] # -1 \/ \E j \in DOMAIN q :
               j < i /\ q[j].id = "cmd" /\ q[j].call = q[i].call
Requested(q, w) == \A i \in DOMAIN q : CommandOnce(q, w, i) /\ MarkerAfter(q, w, i)

\* A call that has not been made, or not been written, is not on its way.
SentBy(k, c, p) == k < c \/ (k = c /\ p \in {"exec", "drain", "fire"})
UnsentIsNew ==
    \A k \in Calls : ~SentBy(k, call, pc) =>
        answer[k] = -1 /\ \A i \in DOMAIN inbox : inbox[i].call # k

Kinds ==
    /\ pc \in {"peeked", "fire"} => script[call] = "fire"
    /\ pc = "auth" => call = 1 /\ frames < AuthMax
    /\ pc # "end" => call <= Len(script)

InOrder(s, o, w) ==
    /\ Increasing(s) /\ Behind(s, o) /\ Numbered(s) /\ OwnOutput(o)
    /\ Unanswered(s, o, w)

OInv ==
    /\ TypeOK /\ Kinds /\ UnsentIsNew
    /\ InOrder(Stream, out, answer) /\ Requested(inbox, answer)

------------------------------------------------------------------------------
(***************************************************************************)
(* An answer without an error is whole.                                    *)
(***************************************************************************)

\* The client is out of step at the start of the stream only, and never during
\* a command that began in step.
AskewAtTheStart ==
    /\ \A i \in DOMAIN wire : i > 1 => wire[i] # Garbage
    /\ \A i \in DOMAIN plan : plan[i] # Garbage
InStep ==
    pc = "exec" /\ call \notin askew => \A i \in DOMAIN wire : wire[i] # Garbage

\* Packets lo to hi of call k come in s before place p.
AllBefore(s, k, p, lo, hi) ==
    \A n \in lo .. hi : \E i \in DOMAIN s : i < p /\ Data(s[i], k) /\ s[i].n = n

\* The frame at place p of the stream s is where it should be, when m packets of
\* call k have been read and there are a; b if the server acknowledges.
InPlace(s, k, p, m, a, b) ==
    /\ Data(s[p], k) =>
         /\ s[p].n \in m + 1 .. a
         /\ AllBefore(s, k, p, m + 1, s[p].n - 1)
         /\ s[p].size = "short" => s[p].n = a
    /\ Blank(s[p], k) =>
         \/ AllBefore(s, k, p, m + 1, a)
         \/ b /\ m = 0 /\ \A i \in DOMAIN s : i < p => ~Data(s[i], k)
    /\ Marks(s[p], k) => AllBefore(s, k, p, m + 1, a)

\* Whatever has not been read is still to come, unless the server has hung up (c).
ToCome(s, k, m, a, b, c) ==
    /\ \A p \in DOMAIN s : InPlace(s, k, p, m, a, b)
    /\ ~c /\ a # -1 => AllBefore(s, k, Len(s) + 1, m + 1, a)

\* What the client knows of the answer to call k, of a packets, when it has read
\* the output o and r packets in all; sp if the last one promises another.
Known(o, k, a, sp, r, b) ==
    /\ o = [i \in 1 .. Len(o) |-> <<k, i>>]
    /\ Len(o) > 0 => Len(o) <= a /\ (~sp => Len(o) = a)
    /\ r > 0 => a # -1 /\ (Len(o) > 0 \/ b \/ a = 0)
    /\ Len(o) = 0 => ~sp

InExec ==
    pc = "exec" /\ call \notin askew =>
        /\ Known(out[call], call, answer[call], splitPending, responses, acks)
        /\ ToCome(Stream, call, Len(out[call]), answer[call], acks, closed)

\* After the marker, and after a call that returned no error.
HasAll(k, o, a, b) ==
    /\ a # -1
    /\ \/ o = [i \in 1 .. a |-> <<k, i>>]
       \/ b /\ o = <<>>
Done ==
    /\ pc = "drain" /\ call \notin askew => HasAll(call, out[call], answer[call], acks)
    /\ \A k \in Calls \ askew :
         res[k] = "ok" /\ script[k] = "exec" => HasAll(k, out[k], answer[k], acks)
UnmadeHasNoResult == \A k \in Calls : k >= call => res[k] = "none"

WInv == InStep /\ InExec /\ Done /\ UnmadeHasNoResult

------------------------------------------------------------------------------
(***************************************************************************)
(* A fired command that found the server gone is reported.                 *)
(***************************************************************************)

IsAuth(f) == f.id \in {"authOk", "authNo"}
\* Without noise, the answer of the handshake is the last frame of it, and the
\* first call finds the wire empty.
Handshake ==
    noise = 0 =>
        /\ pc = "auth" =>
             /\ \A i \in DOMAIN Stream : IsAuth(Stream[i]) => i = Len(Stream)
             /\ Len(inbox) <= 1 /\ (inbox # <<>> => Stream = <<>>)
             /\ \A i \in DOMAIN inbox : inbox[i].id = "auth"
        /\ pc = "ready" /\ call = 1 => Stream = <<>> /\ inbox = <<>>
Reported ==
    noise = 0 => \A k \in hungUp : script[k] = "fire" => k < call /\ res[k] = "closed"

------------------------------------------------------------------------------
(***************************************************************************)
(* Constants.                                                              *)
(***************************************************************************)
LEMMA Limits == MaxFull \in Nat /\ Limit \in Nat /\ Noise \in Nat /\ AuthMax \in Nat \ {0}
BY LimitsAssumption

LEMMA ScriptsAre ==
    /\ Calls \subseteq Nat \ {0}
    /\ \A s \in Scripts :
         /\ s \in Seq({"exec", "fire"}) /\ Len(s) \in Nat \ {0}
         /\ \A k \in 1 .. Len(s) : k \in Calls /\ s[k] \in {"exec", "fire"}
<1>1. Longest \in Scripts /\ \A t \in Scripts : Len(t) <= Len(Longest)
  BY ScriptsAssumption DEF Longest
<1>2. \A s \in Scripts : s \in Seq({"exec", "fire"}) /\ s # <<>>
  BY ScriptsAssumption
<1>3. \A s \in Scripts : Len(s) \in Nat \ {0}
  BY <1>2, EmptySeq
<1>4. ASSUME NEW s \in Scripts, NEW k \in 1 .. Len(s) PROVE k \in Calls /\ s[k] \in {"exec", "fire"}
  BY <1>1, <1>2, <1>3 DEF Calls
<1> QED BY <1>1, <1>2, <1>3, <1>4 DEF Calls

\* The call that is made is one of the script's.
LEMMA CallIs ==
    ASSUME script \in Scripts, call \in 1 .. Len(script) + 1, call <= Len(script)
    PROVE  call \in Calls /\ call \in 1 .. Len(script) /\ call + 1 \in 1 .. Len(script) + 1
BY ScriptsAre

LEMMA FramesAre ==
    /\ Garbage \in Frames /\ Foreign \in Frames
    /\ \A k \in Calls : ~Of(Garbage, k) /\ ~Of(Foreign, k)
    /\ Garbage # Foreign /\ Garbage.id = "garbage" /\ Foreign.id = "other"
    /\ ~IsAuth(Garbage) /\ ~IsAuth(Foreign)
BY Limits, ScriptsAre DEF Garbage, Foreign, Frames, Frame, Of, Ids, Sizes, IsAuth

------------------------------------------------------------------------------
(***************************************************************************)
(* What the steps do with the stream.                                      *)
(***************************************************************************)

\* The client takes from the start of the stream, or loses its place there.
Thin(t, s) ==
    \E d \in Nat :
        /\ Len(t) + d <= Len(s)
        /\ \A i \in 1 .. Len(t) : t[i] = s[i + d] \/ t[i] = Garbage

LEMMA Joined ==
    ASSUME NEW w \in Seq(Frames), NEW p \in Seq(Frames)
    PROVE  /\ w \o p \in Seq(Frames) /\ Len(w \o p) = Len(w) + Len(p)
           /\ DOMAIN (w \o p) = 1 .. Len(w) + Len(p) /\ Len(w) \in Nat /\ Len(p) \in Nat
           /\ \A i \in 1 .. Len(w) + Len(p) :
                (w \o p)[i] = IF i <= Len(w) THEN w[i] ELSE p[i - Len(w)]
<1>1. /\ w \o p \in Seq(Frames) /\ Len(w \o p) = Len(w) + Len(p)
      /\ \A i \in 1 .. Len(w) + Len(p) :
           (w \o p)[i] = IF i <= Len(w) THEN w[i] ELSE p[i - Len(w)]
  BY ConcatProperties
<1> QED BY <1>1

\* Dropping the first frame.
LEMMA DropFirst ==
    ASSUME NEW w \in Seq(Frames), w # <<>>, NEW p \in Seq(Frames)
    PROVE  /\ Tail(w) \in Seq(Frames) /\ Tail(w) \o p \in Seq(Frames)
           /\ Len(w) \in Nat \ {0} /\ Head(w) = w[1] /\ Head(w) \in Frames
           /\ Len(Tail(w)) = Len(w) - 1 /\ \A i \in 1 .. Len(w) - 1 : Tail(w)[i] = w[i + 1]
           /\ Len(w \o p) \in Nat \ {0} /\ (w \o p)[1] = w[1]
           /\ Len(Tail(w) \o p) = Len(w \o p) - 1
           /\ \A i \in 1 .. Len(w \o p) - 1 : (Tail(w) \o p)[i] = (w \o p)[i + 1]
<1>1. /\ Tail(w) \in Seq(Frames) /\ Len(Tail(w)) = Len(w) - 1 /\ Len(w) \in Nat \ {0}
      /\ Head(w) = w[1] /\ Head(w) \in Frames
      /\ \A i \in 1 .. Len(w) - 1 : Tail(w)[i] = w[i + 1]
  BY EmptySeq, HeadTailProperties
<1>2. /\ Len(w \o p) = Len(w) + Len(p) /\ Len(p) \in Nat
      /\ \A i \in 1 .. Len(w) + Len(p) :
                (w \o p)[i] = IF i <= Len(w) THEN w[i] ELSE p[i - Len(w)]
  BY Joined
<1>3. /\ Len(Tail(w) \o p) = Len(Tail(w)) + Len(p) /\ Tail(w) \o p \in Seq(Frames)
      /\ \A i \in 1 .. Len(Tail(w)) + Len(p) :
                (Tail(w) \o p)[i] = IF i <= Len(Tail(w)) THEN Tail(w)[i] ELSE p[i - Len(Tail(w))]
  BY <1>1, Joined
<1>4. ASSUME NEW i \in 1 .. Len(w \o p) - 1 PROVE (Tail(w) \o p)[i] = (w \o p)[i + 1]
  <2>1. CASE i <= Len(w) - 1
    BY <1>1, <1>2, <1>3, <2>1
  <2>2. CASE i > Len(w) - 1
    <3>1. (Tail(w) \o p)[i] = p[i - (Len(w) - 1)]
      BY <1>1, <1>2, <1>3, <2>2
    <3>2. (w \o p)[i + 1] = p[(i + 1) - Len(w)]
      <4>1. i + 1 \in 1 .. Len(w) + Len(p) /\ ~(i + 1 <= Len(w))
        BY <1>1, <1>2, <2>2
      <4> QED BY <1>2, <4>1
    <3>3. i - (Len(w) - 1) = (i + 1) - Len(w)
      BY <1>1, <1>2
    <3> QED BY <3>1, <3>2, <3>3
  <2> QED BY <1>1, <1>2, <2>1, <2>2
<1> QED BY <1>1, <1>2, <1>3, <1>4

\* What was in order stays in order when it is thinned.
LEMMA ThinKeeps ==
    ASSUME NEW s \in Seq(Frames), NEW t \in Seq(Frames), Thin(t, s)
    PROVE  /\ Increasing(s) => Increasing(t)
           /\ Numbered(s) => Numbered(t)
           /\ \A o : Behind(s, o) => Behind(t, o)
           /\ \A o, w : Unanswered(s, o, w) => Unanswered(t, o, w)
           /\ \A o, w : InOrder(s, o, w) => InOrder(t, o, w)
<1>1. PICK d \in Nat :
        /\ Len(t) + d <= Len(s)
        /\ \A i \in 1 .. Len(t) : t[i] = s[i + d] \/ t[i] = Garbage
  BY DEF Thin
<1>2. DOMAIN t = 1 .. Len(t) /\ DOMAIN s = 1 .. Len(s) /\ Len(t) \in Nat /\ Len(s) \in Nat
  OBVIOUS
<1>3. \A k \in Calls : \A i \in DOMAIN t : Of(t[i], k) => t[i] = s[i + d] /\ i + d \in DOMAIN s
  <2> SUFFICES ASSUME NEW k \in Calls, NEW i \in DOMAIN t, Of(t[i], k)
               PROVE  t[i] = s[i + d] /\ i + d \in DOMAIN s
    OBVIOUS
  <2>1. i \in 1 .. Len(t) /\ i + d \in 1 .. Len(s)
    BY <1>1, <1>2
  <2>2. t[i] # Garbage
    BY FramesAre
  <2> QED BY <1>1, <1>2, <2>1, <2>2
<1>4. \A k \in Calls : \A i \in DOMAIN t : Data(t[i], k) => t[i] = s[i + d] /\ i + d \in DOMAIN s
  BY <1>3 DEF Data, Of
<1>5. Increasing(s) => Increasing(t)
  <2> SUFFICES ASSUME Increasing(s), NEW k \in Calls, NEW i \in DOMAIN t, NEW j \in DOMAIN t,
                      i < j, Data(t[i], k), Data(t[j], k)
               PROVE  t[i].n < t[j].n
    BY DEF Increasing
  <2>1. i + d < j + d
    BY <1>2
  <2> QED BY <1>4, <2>1 DEF Increasing
<1>6. Numbered(s) => Numbered(t)
  BY <1>4 DEF Numbered
<1>7. \A o : Behind(s, o) => Behind(t, o)
  BY <1>4 DEF Behind
<1>8. \A o, w : Unanswered(s, o, w) => Unanswered(t, o, w)
  BY <1>3 DEF Unanswered
<1>9. \A o, w : InOrder(s, o, w) => InOrder(t, o, w)
  BY <1>5, <1>6, <1>7, <1>8 DEF InOrder
<1> QED BY <1>5, <1>6, <1>7, <1>8, <1>9

------------------------------------------------------------------------------
(***************************************************************************)
(* Reading: the frames that are left are among those that were there.      *)
(***************************************************************************)
Reads == Whole /\ Consume /\ UNCHANGED broken
Loses == Late \/ HangUpSeen \/ BadSize \/ Misread

LEMMA DomainIs ==
    ASSUME NEW s \in Seq(Frames)
    PROVE  /\ DOMAIN s = 1 .. Len(s) /\ Len(s) \in Nat /\ (Len(s) = 0 <=> s = <<>>)
           /\ \A i \in 1 .. Len(s) : s[i] \in Frames
<1>1. Len(s) = 0 <=> s = <<>>
  BY EmptySeq
<1>2. DOMAIN s = 1 .. Len(s) /\ Len(s) \in Nat
  OBVIOUS
<1>3. \A i \in 1 .. Len(s) : s[i] \in Frames
  BY ElementOfSeq
<1> QED BY <1>1, <1>2, <1>3

\* To thin what has been written is to thin the stream.
LEMMA ThinJoined ==
    ASSUME NEW w \in Seq(Frames), NEW v \in Seq(Frames), NEW p \in Seq(Frames), NEW d \in Nat,
           Len(v) + d = Len(w), \A i \in 1 .. Len(v) : v[i] = w[i + d] \/ v[i] = Garbage
    PROVE  Thin(v \o p, w \o p)
<1> DEFINE s == w \o p
           t == v \o p
<1>1. /\ Len(s) = Len(w) + Len(p) /\ Len(w) \in Nat /\ Len(p) \in Nat
      /\ \A i \in 1 .. Len(w) + Len(p) : s[i] = IF i <= Len(w) THEN w[i] ELSE p[i - Len(w)]
  BY Joined
<1>2. /\ Len(t) = Len(v) + Len(p) /\ Len(v) \in Nat
      /\ \A i \in 1 .. Len(v) + Len(p) : t[i] = IF i <= Len(v) THEN v[i] ELSE p[i - Len(v)]
  BY Joined
<1> HIDE DEF s, t
<1>3. ASSUME NEW i \in 1 .. Len(t) PROVE t[i] = s[i + d] \/ t[i] = Garbage
  <2>1. i + d \in 1 .. Len(w) + Len(p) /\ i \in 1 .. Len(v) + Len(p)
    BY <1>1, <1>2
  <2>2. CASE i <= Len(v)
    BY <1>1, <1>2, <2>1, <2>2
  <2>3. CASE ~(i <= Len(v))
    <3>1. t[i] = p[i - Len(v)]
      BY <1>2, <2>1, <2>3
    <3>2. ~(i + d <= Len(w)) /\ (i + d) - Len(w) = i - Len(v)
      <4>1. i \in Nat /\ i > Len(v) /\ Len(w) = Len(v) + d
        BY <1>2, <2>1, <2>3
      <4> QED BY <1>1, <1>2, <4>1
    <3>3. s[i + d] = p[(i + d) - Len(w)]
      BY <1>1, <2>1, <3>2
    <3> QED BY <3>1, <3>2, <3>3
  <2> QED BY <2>2, <2>3
<1>4. Len(t) + d <= Len(s)
  BY <1>1, <1>2
<1>5. Thin(t, s)
  BY <1>3, <1>4 DEF Thin
<1> QED BY <1>5 DEF s, t

\* What a read leaves of what has been written: v of w, of which the last
\* frame may still be arriving.
Left(v, w, p, a) ==
    /\ v \in Seq(Frames) /\ (a => v # <<>>)
    /\ Thin(v \o p, w \o p)
    /\ \A i \in DOMAIN v : i > 1 => v[i] # Garbage

LEMMA OneLost ==
    ASSUME NEW w \in Seq(Frames), NEW p \in Seq(Frames), Len(w) = 1, NEW a
    PROVE  Left(<<Garbage>>, w, p, a)
<1> DEFINE v == <<Garbage>>
<1>1. v \in Seq(Frames) /\ Len(v) = 1 /\ v # <<>> /\ v[1] = Garbage
  BY FramesAre
<1> HIDE DEF v
<1>2. Thin(v \o p, w \o p)
  <2>1. Len(v) + 0 = Len(w) /\ \A i \in 1 .. Len(v) : v[i] = w[i + 0] \/ v[i] = Garbage
    BY <1>1
  <2> QED BY <1>1, <2>1, ThinJoined
<1>3. \A i \in DOMAIN v : ~(i > 1)
  BY <1>1, DomainIs
<1>4. Left(v, w, p, a)
  BY <1>1, <1>2, <1>3 DEF Left
<1> QED BY <1>4 DEF v

LEMMA NothingLost ==
    ASSUME NEW w \in Seq(Frames), NEW p \in Seq(Frames), NEW a, a => w # <<>>,
           \A i \in DOMAIN w : i > 1 => w[i] # Garbage
    PROVE  Left(w, w, p, a)
<1>1. Len(w) + 0 = Len(w) /\ \A i \in 1 .. Len(w) : w[i] = w[i + 0]
  BY DomainIs
<1>2. Thin(w \o p, w \o p)
  BY <1>1, ThinJoined
<1> QED BY <1>2 DEF Left

LEMMA AllLost ==
    ASSUME NEW w \in Seq(Frames), NEW p \in Seq(Frames)
    PROVE  Left(<<>>, w, p, FALSE)
<1> DEFINE v == <<>>
<1>1. v \in Seq(Frames) /\ Len(v) = 0 /\ DOMAIN v = {}
  BY EmptySeq
<1> HIDE DEF v
<1>2. Len(v) + Len(w) = Len(w) /\ Len(w) \in Nat /\ 1 .. Len(v) = {}
  BY <1>1, DomainIs
<1>3. Thin(v \o p, w \o p)
  BY <1>1, <1>2, ThinJoined
<1>4. Left(v, w, p, FALSE)
  BY <1>1, <1>3 DEF Left
<1> QED BY <1>4 DEF v

LEMMA FirstTaken ==
    ASSUME NEW w \in Seq(Frames), w # <<>>, NEW p \in Seq(Frames), NEW a, a => Len(w) > 1,
           \A i \in DOMAIN w : i > 1 => w[i] # Garbage
    PROVE  Left(Tail(w), w, p, a) /\ \A i \in DOMAIN Tail(w) : Tail(w)[i] # Garbage
<1> DEFINE v == Tail(w)
<1>1. /\ v \in Seq(Frames) /\ Len(w) \in Nat \ {0} /\ Len(v) = Len(w) - 1
      /\ \A i \in 1 .. Len(w) - 1 : v[i] = w[i + 1]
  BY DropFirst
<1> HIDE DEF v
<1>2. Len(v) + 1 = Len(w) /\ \A i \in 1 .. Len(v) : v[i] = w[i + 1]
  BY <1>1
<1>3. Thin(v \o p, w \o p)
  BY <1>1, <1>2, ThinJoined
<1>4. a => v # <<>>
  <2> SUFFICES ASSUME a PROVE Len(v) # 0
    BY <1>1, DomainIs
  <2> QED BY <1>1
<1>5. \A i \in DOMAIN v : v[i] # Garbage
  <2> SUFFICES ASSUME NEW i \in 1 .. Len(v) PROVE w[i + 1] # Garbage
    BY <1>1, <1>2, DomainIs
  <2>1. i + 1 \in DOMAIN w /\ i + 1 > 1
    BY <1>1, DomainIs
  <2> QED BY <2>1
<1>6. Left(v, w, p, a)
  BY <1>1, <1>3, <1>4, <1>5 DEF Left
<1> QED BY <1>5, <1>6 DEF v

\* Two frames are taken for one, or one and a part of the next.
LEMMA TwoTaken ==
    ASSUME NEW w \in Seq(Frames), Len(w) > 1, NEW p \in Seq(Frames), NEW a,
           \A i \in DOMAIN w : i > 1 => w[i] # Garbage
    PROVE  LET r == SubSeq(w, 3, Len(w)) IN
           /\ Left(<<Garbage>> \o r, w, p, a)
           /\ Len(w) > 2 \/ ~a => Left(r, w, p, a)
<1> DEFINE r == SubSeq(w, 3, Len(w))
           g == <<Garbage>> \o r
<1>0. Len(w) \in Nat /\ (Len(w) = 2 \/ Len(w) >= 3)
  <2>1. ASSUME NEW n \in Nat, n > 1 PROVE n = 2 \/ n >= 3
    BY <2>1
  <2> QED BY <2>1, DomainIs
<1>1. r \in Seq(Frames) /\ Len(r) = Len(w) - 2 /\ \A i \in 1 .. Len(w) - 2 : r[i] = w[i + 2]
  <2>1. \A i \in 3 .. Len(w) : w[i] \in Frames
    BY <1>0, ElementOfSeq
  <2>2. /\ r \in Seq(Frames) /\ Len(r) = IF 3 <= Len(w) THEN Len(w) - 3 + 1 ELSE 0
        /\ \A i \in 1 .. Len(w) - 3 + 1 : r[i] = w[3 + i - 1]
    BY <1>0, <2>1, SubSeqProperties
  <2> HIDE DEF r
  <2>3. Len(r) = Len(w) - 2
    <3>1. CASE 3 <= Len(w)
      BY <1>0, <2>2, <3>1
    <3>2. CASE Len(w) = 2
      BY <2>2, <3>2
    <3> QED BY <1>0, <3>1, <3>2
  <2>4. ASSUME NEW i \in 1 .. Len(w) - 2 PROVE r[i] = w[i + 2]
    <3>1. i \in 1 .. Len(w) - 3 + 1 /\ 3 + i - 1 = i + 2
      BY <1>0
    <3> QED BY <2>2, <3>1
  <2> QED BY <2>2, <2>3, <2>4
<1>2. /\ g \in Seq(Frames) /\ Len(g) = Len(w) - 1
      /\ \A i \in 1 .. Len(w) - 1 : g[i] = Garbage \/ g[i] = w[i + 1]
      /\ \A i \in 2 .. Len(w) - 1 : g[i] = w[i + 1]
  <2>1. <<Garbage>> \in Seq(Frames) /\ Len(<<Garbage>>) = 1 /\ <<Garbage>>[1] = Garbage
    BY FramesAre
  <2> HIDE DEF r
  <2>2. /\ g \in Seq(Frames) /\ Len(g) = 1 + Len(r)
        /\ \A i \in 1 .. 1 + Len(r) : g[i] = IF i <= 1 THEN <<Garbage>>[i] ELSE r[i - 1]
    BY <1>1, <2>1, ConcatProperties
  <2> HIDE DEF g
  <2>3. Len(g) = Len(w) - 1
    BY <1>0, <1>1, <2>2
  <2>4. ASSUME NEW i \in 2 .. Len(w) - 1 PROVE g[i] = w[i + 1]
    <3>1. i \in 1 .. 1 + Len(r) /\ ~(i <= 1) /\ i - 1 \in 1 .. Len(w) - 2 /\ (i - 1) + 2 = i + 1
      BY <1>0, <1>1
    <3>2. g[i] = r[i - 1] /\ r[i - 1] = w[(i - 1) + 2]
      BY <1>1, <2>2, <3>1
    <3> QED BY <3>1, <3>2
  <2>5. g[1] = Garbage
    <3>1. 1 \in 1 .. 1 + Len(r)
      BY <1>0, <1>1
    <3> QED BY <2>1, <2>2, <3>1
  <2>6. \A i \in 1 .. Len(w) - 1 : i = 1 \/ i \in 2 .. Len(w) - 1
    BY <1>0
  <2> QED BY <2>2, <2>3, <2>4, <2>5, <2>6
<1> HIDE DEF r, g
<1>3. \A i \in DOMAIN g : i > 1 => g[i] # Garbage
  <2> SUFFICES ASSUME NEW i \in DOMAIN g, i > 1 PROVE g[i] # Garbage
    OBVIOUS
  <2>1. i \in 2 .. Len(w) - 1 /\ i + 1 \in DOMAIN w /\ i + 1 > 1
    BY <1>0, <1>2, DomainIs
  <2> QED BY <1>2, <2>1
<1>4. \A i \in DOMAIN r : r[i] # Garbage
  <2> SUFFICES ASSUME NEW i \in DOMAIN r PROVE r[i] # Garbage
    OBVIOUS
  <2>1. i \in 1 .. Len(w) - 2 /\ i + 2 \in DOMAIN w /\ i + 2 > 1
    BY <1>0, <1>1, DomainIs
  <2> QED BY <1>1, <2>1
<1>5. Thin(g \o p, w \o p)
  <2>1. Len(g) + 1 = Len(w) /\ \A i \in 1 .. Len(g) : g[i] = w[i + 1] \/ g[i] = Garbage
    BY <1>0, <1>2
  <2> QED BY <1>2, <2>1, ThinJoined
<1>6. Thin(r \o p, w \o p)
  <2>1. Len(r) + 2 = Len(w) /\ \A i \in 1 .. Len(r) : r[i] = w[i + 2]
    BY <1>0, <1>1
  <2> QED BY <1>1, <2>1, ThinJoined
<1>7. Left(g, w, p, a)
  <2>1. g # <<>>
    BY <1>0, <1>2, DomainIs
  <2> QED BY <1>2, <1>3, <1>5, <2>1 DEF Left
<1>8. Len(w) > 2 \/ ~a => Left(r, w, p, a)
  <2>1. Len(w) > 2 => r # <<>>
    BY <1>0, <1>1, DomainIs
  <2> QED BY <1>1, <1>4, <1>6, <2>1 DEF Left
<1> QED BY <1>7, <1>8 DEF r, g

\* A read of the client, whatever comes of it.
LEMMA ReadLeaves ==
    ASSUME TypeOK, AskewAtTheStart, Reads \/ Loses
    PROVE  Left(wire', wire, plan, arriving') /\ arriving' \in BOOLEAN /\ broken' \in BOOLEAN
<1>0. /\ wire \in Seq(Frames) /\ plan \in Seq(Frames) /\ arriving \in BOOLEAN
      /\ (arriving => wire # <<>>) /\ broken \in BOOLEAN
  BY DEF TypeOK
<1>1. \A i \in DOMAIN wire : i > 1 => wire[i] # Garbage
  BY DEF AskewAtTheStart
<1>2. CASE Readable /\ Consume /\ broken' \in BOOLEAN
  <2>1. /\ wire # <<>> /\ wire' = Tail(wire) /\ arriving' = arriving
        /\ (Len(wire) > 1 \/ ~arriving)
    BY <1>2 DEF Readable, Consume
  <2> QED BY <1>0, <1>1, <1>2, <2>1, FirstTaken
<1>3. CASE Late
  <2>1. arriving' = arriving /\ broken' = broken
    BY <1>3 DEF Late
  <2>2. CASE arriving
    <3>1. wire' = <<Garbage>> /\ ~(Len(wire) > 1)
      BY <1>0, <1>3, <2>2 DEF Late, Readable
    <3>2. Len(wire) = 1
      BY <1>0, <2>2, <3>1, DomainIs
    <3> QED BY <1>0, <2>1, <3>1, <3>2, OneLost
  <2>3. CASE ~arriving
    <3>1. wire' = wire
      BY <1>3, <2>3 DEF Late
    <3> QED BY <1>0, <1>1, <2>1, <3>1, NothingLost
  <2> QED BY <1>0, <2>2, <2>3
<1>4. CASE HangUpSeen
  <2>1. wire' = <<>> /\ arriving' = FALSE /\ broken' = TRUE
    BY <1>4 DEF HangUpSeen
  <2> QED BY <1>0, <2>1, AllLost
<1>5. CASE Misread
  <2>1. /\ Len(wire) > 1 /\ arriving' = arriving /\ broken' = broken
        /\ \/ wire' = <<Garbage>> \o SubSeq(wire, 3, Len(wire))
           \/ (Len(wire) > 2 \/ ~arriving) /\ wire' = SubSeq(wire, 3, Len(wire))
    BY <1>5 DEF Misread
  <2> QED BY <1>0, <1>1, <2>1, TwoTaken
<1>6. Reads \/ BadSize => Readable /\ Consume /\ broken' \in BOOLEAN
  BY <1>0 DEF Reads, BadSize, Whole, Consume
<1> QED BY <1>2, <1>3, <1>4, <1>5, <1>6 DEF Loses

------------------------------------------------------------------------------
(***************************************************************************)
(* Steps of the client that change no output and ask for nothing.          *)
(***************************************************************************)
Places == {"auth", "ready", "exec", "drain", "peeked", "fire", "end"}
SentGrows == \A k \in Calls : SentBy(k, call, pc) => SentBy(k, call', pc')

LEMMA StreamIs ==
    ASSUME TypeOK
    PROVE  /\ wire \in Seq(Frames) /\ plan \in Seq(Frames) /\ Stream \in Seq(Frames)
           /\ DOMAIN Stream = 1 .. Len(Stream) /\ Len(Stream) \in Nat
BY Joined DEF TypeOK, Stream

LEMMA ThinStep ==
    ASSUME OInv, TypeOK', Kinds', Thin(wire' \o plan', wire \o plan),
           UNCHANGED <<out, answer, inbox>>, SentGrows
    PROVE  OInv'
<1>1. UnsentIsNew'
  BY DEF OInv, UnsentIsNew, SentGrows
<1>2. Thin(Stream', Stream) /\ Stream' \in Seq(Frames) /\ Stream \in Seq(Frames)
  BY StreamIs, Joined DEF Stream, OInv, TypeOK
<1>3. InOrder(Stream', out, answer)
  BY <1>2, ThinKeeps DEF OInv
<1> QED BY <1>1, <1>3 DEF OInv

\* What a client's step leaves of its own.
ClientTypes(p, c, r, sp, f, s) ==
    /\ p \in Places /\ c \in 1 .. Len(script) + 1 /\ r \in Nat /\ sp \in BOOLEAN
    /\ f \in 0 .. AuthMax + 2 /\ s \in [{0} \union Calls -> Results]

LEMMA ClientTypesAre == TypeOK => ClientTypes(pc, call, responses, splitPending, frames, res)
BY DEF TypeOK, ClientTypes, Places

LEMMA ReadStep ==
    ASSUME OInv, AskewAtTheStart, Reads \/ Loses, Kinds', SentGrows,
           UNCHANGED <<script, closed, inbox, server, history, out>>,
           ClientTypes(pc', call', responses', splitPending', frames', res')
    PROVE  OInv' /\ AskewAtTheStart'
<1>1. TypeOK /\ plan' = plan /\ answer' = answer /\ inbox' = inbox /\ out' = out
  BY DEF OInv, server
<1>2. Left(wire', wire, plan, arriving') /\ arriving' \in BOOLEAN /\ broken' \in BOOLEAN
  BY <1>1, ReadLeaves
<1>3. TypeOK'
  BY <1>1, <1>2 DEF TypeOK, ClientTypes, Places, Left, server, history
<1>4. OInv'
  BY <1>1, <1>2, <1>3, ThinStep DEF Left
<1>5. AskewAtTheStart'
  BY <1>1, <1>2 DEF AskewAtTheStart, Left
<1> QED BY <1>4, <1>5

LEMMA QuietStep ==
    ASSUME OInv, AskewAtTheStart, Kinds', SentGrows,
           UNCHANGED <<script, broken, out, wire, arriving, closed, inbox, server>>,
           {hungUp', askew'} \subseteq SUBSET Calls,
           ClientTypes(pc', call', responses', splitPending', frames', res')
    PROVE  OInv' /\ AskewAtTheStart'
<1>1. TypeOK /\ plan' = plan /\ wire' = wire /\ answer' = answer /\ inbox' = inbox /\ out' = out
  BY DEF OInv, server
<1>2. TypeOK'
  BY <1>1 DEF TypeOK, ClientTypes, Places, server
<1>3. Thin(wire \o plan, wire \o plan)
  <2>1. Len(wire) + 0 = Len(wire) /\ \A i \in 1 .. Len(wire) : wire[i] = wire[i + 0]
    BY <1>1, StreamIs, DomainIs
  <2> QED BY <1>1, <2>1, StreamIs, ThinJoined
<1>4. OInv'
  BY <1>1, <1>2, <1>3, ThinStep
<1> QED BY <1>1, <1>4 DEF AskewAtTheStart

\* A call returns.
LEMMA ReturnIs ==
    ASSUME TypeOK, call <= Len(script), NEW r \in Results, Return(r)
    PROVE  /\ pc' \in {"ready", "end"} /\ call' = call + 1 /\ call' \in 1 .. Len(script) + 1
           /\ pc' # "end" => call' <= Len(script)
           /\ call \in Calls /\ res' \in [{0} \union Calls -> Results] /\ res'[call] = r
           /\ \A k \in Calls : k # call => res'[k] = res[k]
           /\ SentGrows
<1>1. call \in Calls /\ call \in 1 .. Len(script) /\ call + 1 \in 1 .. Len(script) + 1
      /\ Len(script) \in Nat
  BY CallIs, ScriptsAre DEF TypeOK
<1>2. pc' = (IF call = Len(script) THEN "end" ELSE "ready") /\ call' = call + 1
      /\ res' = [res EXCEPT ![call] = r] /\ res \in [{0} \union Calls -> Results]
  BY DEF Return, TypeOK
<1>3. res' \in [{0} \union Calls -> Results] /\ res'[call] = r
      /\ \A k \in Calls : k # call => res'[k] = res[k]
  BY <1>1, <1>2
<1>4. \A k \in Calls : SentBy(k, call, pc) => k < call + 1
  BY <1>1, ScriptsAre DEF SentBy
<1> QED BY <1>1, <1>2, <1>3, <1>4 DEF SentGrows, SentBy

LEMMA ResultsAre == {"ok", "truncated", "timeout", "closed", "malformed", "cancelled", "refused"}
                      \subseteq Results
BY DEF Results

------------------------------------------------------------------------------
(***************************************************************************)
(* Each step of the client but those that take output or ask.              *)
(***************************************************************************)
LEMMA AuthKeeps == OInv /\ AskewAtTheStart /\ Auth => OInv' /\ AskewAtTheStart'
<1> SUFFICES ASSUME OInv, AskewAtTheStart, Auth PROVE OInv' /\ AskewAtTheStart'
  OBVIOUS
<1>1. /\ pc = "auth" /\ TypeOK /\ Kinds /\ frames \in Nat /\ frames < AuthMax
      /\ frames \in 0 .. AuthMax + 2
      /\ UNCHANGED <<script, call, responses, splitPending, out, closed, inbox, server, history>>
  BY DEF Auth, OInv, TypeOK, Kinds
<1>2. Reads \/ Loses
  BY DEF Auth, AuthAnswered, AuthSkip, AuthLate, AuthHangUp, Reads, Loses
<1>3. ASSUME NEW r \in Results, Dialled(r)
      PROVE  pc' \in {"ready", "end"} /\ res' \in [{0} \union Calls -> Results]
  BY <1>1, <1>3 DEF Dialled, TypeOK
<1>4. /\ pc' \in {"ready", "end"} \/ (pc' = "auth" /\ frames' < AuthMax)
      /\ frames' \in 0 .. AuthMax + 2 /\ res' \in [{0} \union Calls -> Results]
  <2>1. CASE AuthAnswered
    <3>1. frames' = frames /\ \E r \in Results : Dialled(r)
      BY <2>1, ResultsAre DEF AuthAnswered
    <3> QED BY <1>1, <1>3, <3>1
  <2>2. CASE AuthSkip
    <3>1. frames' = frames + 1 /\ frames' \in 0 .. AuthMax + 2
      BY <1>1, <2>2, Limits DEF AuthSkip
    <3>2. CASE frames' = AuthMax
      <4>1. Dialled("malformed")
        BY <2>2, <3>2 DEF AuthSkip
      <4> QED BY <1>1, <1>3, <3>1, <4>1, Limits, ResultsAre
    <3>3. CASE frames' # AuthMax
      <4>1. pc' = pc /\ res' = res
        BY <2>2, <3>3 DEF AuthSkip
      <4>2. frames' < AuthMax
        BY <1>1, <3>1, <3>3, Limits
      <4>3. res' \in [{0} \union Calls -> Results]
        BY <1>1, <4>1 DEF TypeOK
      <4> QED BY <1>1, <3>1, <4>1, <4>2, <4>3
    <3> QED BY <3>2, <3>3
  <2>3. CASE AuthLate
    <3>1. frames' = frames /\ Dialled("timeout")
      BY <2>3 DEF AuthLate
    <3> QED BY <1>1, <1>3, <3>1, ResultsAre
  <2>4. CASE AuthHangUp
    <3>1. frames' = frames /\ Dialled("refused")
      BY <2>4 DEF AuthHangUp
    <3> QED BY <1>1, <1>3, <3>1, ResultsAre
  <2> QED BY <2>1, <2>2, <2>3, <2>4 DEF Auth
<1>5. Kinds'
  BY <1>1, <1>4 DEF Kinds
<1>6. SentGrows
  BY <1>1 DEF SentGrows, SentBy
<1>7. ClientTypes(pc', call', responses', splitPending', frames', res')
  BY <1>1, <1>4 DEF ClientTypes, Places, TypeOK
<1> QED BY <1>1, <1>2, <1>5, <1>6, <1>7, ReadStep

\* A read after which the call returns.
LEMMA ReturningRead ==
    ASSUME OInv, AskewAtTheStart, pc # "end", Reads \/ Loses, NEW r \in Results, Return(r),
           UNCHANGED <<script, responses, splitPending, frames, out, closed, inbox, server, history>>
    PROVE  OInv' /\ AskewAtTheStart'
<1>1. TypeOK /\ Kinds /\ call <= Len(script) /\ script' = script
  BY DEF OInv, Kinds
<1>2. /\ pc' \in {"ready", "end"} /\ call' \in 1 .. Len(script) + 1
      /\ (pc' # "end" => call' <= Len(script)) /\ SentGrows
      /\ res' \in [{0} \union Calls -> Results]
  BY <1>1, ReturnIs
<1>3. Kinds'
  BY <1>1, <1>2 DEF Kinds
<1>4. ClientTypes(pc', call', responses', splitPending', frames', res')
  BY <1>1, <1>2 DEF ClientTypes, Places, TypeOK
<1> QED BY <1>2, <1>3, <1>4, ReadStep

\* A call returns without having read.
LEMMA ReturningQuietly ==
    ASSUME OInv, AskewAtTheStart, pc # "end", NEW r \in Results, Return(r),
           {hungUp', askew'} \subseteq SUBSET Calls,
           UNCHANGED <<script, responses, splitPending, frames, broken, out, wire, arriving, closed,
                       inbox, server>>
    PROVE  OInv' /\ AskewAtTheStart'
<1>1. TypeOK /\ Kinds /\ call <= Len(script) /\ script' = script
  BY DEF OInv, Kinds
<1>2. /\ pc' \in {"ready", "end"} /\ call' \in 1 .. Len(script) + 1
      /\ (pc' # "end" => call' <= Len(script)) /\ SentGrows
      /\ res' \in [{0} \union Calls -> Results]
  BY <1>1, ReturnIs
<1>3. Kinds'
  BY <1>1, <1>2 DEF Kinds
<1>4. ClientTypes(pc', call', responses', splitPending', frames', res')
  BY <1>1, <1>2 DEF ClientTypes, Places, TypeOK
<1> QED BY <1>2, <1>3, <1>4, QuietStep

LEMMA CallingIs ==
    ASSUME OInv, NEW op, Calling(op)
    PROVE  /\ pc = "ready" /\ script[call] = op /\ script' = script
           /\ call \in Calls /\ call \in 1 .. Len(script) /\ call <= Len(script)
           /\ {hungUp', askew'} \subseteq SUBSET Calls
<1>1. TypeOK /\ call <= Len(script) /\ pc = "ready"
  BY DEF OInv, Kinds, Calling
<1>2. call \in Calls /\ call \in 1 .. Len(script)
  BY <1>1, CallIs DEF TypeOK
<1> QED BY <1>1, <1>2 DEF Calling, TypeOK

LEMMA CallFailsKeeps ==
    ASSUME OInv, AskewAtTheStart, NEW op, CallFails(op)
    PROVE  OInv' /\ AskewAtTheStart'
<1>1. /\ pc # "end" /\ script' = script /\ {hungUp', askew'} \subseteq SUBSET Calls
  BY CallingIs DEF CallFails
<1>2. /\ Return("closed")
      /\ UNCHANGED <<responses, splitPending, frames, broken, out, wire, arriving, closed, inbox, server>>
  BY DEF CallFails
<1> QED BY <1>1, <1>2, ReturningQuietly, ResultsAre

LEMMA FirePeekKeeps == OInv /\ AskewAtTheStart /\ FirePeek => OInv' /\ AskewAtTheStart'
<1> SUFFICES ASSUME OInv, AskewAtTheStart, FirePeek PROVE OInv' /\ AskewAtTheStart'
  OBVIOUS
<1>1. /\ pc = "ready" /\ script' = script /\ {hungUp', askew'} \subseteq SUBSET Calls
      /\ script[call] = "fire" /\ TypeOK /\ Kinds
  BY CallingIs DEF FirePeek, OInv
<1>2. UNCHANGED <<responses, splitPending, frames, broken, out, wire, arriving, closed, inbox, server>>
  BY DEF FirePeek
<1>3. CASE PeerGone
  <2>1. Return("closed")
    BY <1>3 DEF FirePeek
  <2> QED BY <1>1, <1>2, <2>1, ReturningQuietly, ResultsAre
<1>4. CASE ~PeerGone
  <2>1. pc' = "peeked" /\ call' = call /\ res' = res
    BY <1>4 DEF FirePeek
  <2>2. Kinds' /\ SentGrows
    BY <1>1, <1>2, <2>1 DEF Kinds, SentGrows, SentBy
  <2>3. ClientTypes(pc', call', responses', splitPending', frames', res')
    BY <1>1, <1>2, <2>1, ClientTypesAre DEF ClientTypes, Places
  <2> QED BY <1>1, <1>2, <2>2, <2>3, QuietStep
<1> QED BY <1>3, <1>4

LEMMA FireReadKeeps == OInv /\ AskewAtTheStart /\ FireRead => OInv' /\ AskewAtTheStart'
<1> SUFFICES ASSUME OInv, AskewAtTheStart, FireRead PROVE OInv' /\ AskewAtTheStart'
  OBVIOUS
<1>1. /\ pc # "end" /\ (Reads \/ Loses) /\ Return("ok")
      /\ UNCHANGED <<script, responses, splitPending, frames, out, closed, inbox, server, history>>
  BY DEF FireRead, Reads, Loses
<1> QED BY <1>1, ReturningRead, ResultsAre

LEMMA DrainKeeps == OInv /\ AskewAtTheStart /\ Drain => OInv' /\ AskewAtTheStart'
<1> SUFFICES ASSUME OInv, AskewAtTheStart, Drain PROVE OInv' /\ AskewAtTheStart'
  OBVIOUS
<1>1. /\ pc = "drain" /\ TypeOK /\ Kinds
      /\ UNCHANGED <<script, responses, splitPending, out, closed, inbox, server, history>>
  BY DEF Drain, OInv
<1>2. CASE Reads /\ frames' = 1 /\ UNCHANGED <<pc, call, res>>
  <2>1. Kinds' /\ SentGrows
    BY <1>1, <1>2 DEF Kinds, SentGrows, SentBy
  <2>2. ClientTypes(pc', call', responses', splitPending', frames', res')
    <3>1. 1 \in 0 .. AuthMax + 2
      BY Limits
    <3> QED BY <1>1, <1>2, <3>1, ClientTypesAre DEF ClientTypes
  <2> QED BY <1>1, <1>2, <2>1, <2>2, ReadStep
<1>3. CASE (Reads \/ Loses) /\ Return("ok") /\ UNCHANGED frames
  BY <1>1, <1>3, ReturningRead, ResultsAre
<1> QED BY <1>2, <1>3 DEF Drain, Reads, Loses

------------------------------------------------------------------------------
(***************************************************************************)
(* A packet is taken as output.                                            *)
(***************************************************************************)
Output == Seq(Calls \X (1 .. MaxFull + 1))

LEMMA Appended ==
    ASSUME NEW q \in Output, NEW e \in Calls \X (1 .. MaxFull + 1)
    PROVE  /\ Append(q, e) \in Output /\ Len(Append(q, e)) = Len(q) + 1 /\ Len(q) \in Nat
           /\ DOMAIN q = 1 .. Len(q) /\ DOMAIN Append(q, e) = 1 .. Len(q) + 1
           /\ \A i \in 1 .. Len(q) : Append(q, e)[i] = q[i]
           /\ Append(q, e)[Len(q) + 1] = e
BY DEF Output

Taken(o, k, f) == [o EXCEPT ![k] = Append(@, <<f.call, f.n>>)]

\* t is s without its first frame.
Rest(t, s) ==
    Len(s) # 0 /\ Len(t) = Len(s) - 1 /\ \A i \in 1 .. Len(s) - 1 : t[i] = s[i + 1]

\* o2 is o with packet n of call k.
With(o2, o, k, n) ==
    /\ o2[k] = Append(o[k], <<k, n>>) /\ Len(o2[k]) = Len(o[k]) + 1 /\ Len(o[k]) \in Nat
    /\ \A c \in Calls : c # k => o2[c] = o[c]

LEMMA TakeOutput ==
    ASSUME NEW s \in Seq(Frames), NEW t \in Seq(Frames), Rest(t, s),
           NEW o \in [Calls -> Output], NEW k \in Calls, Data(s[1], k),
           NEW w, InOrder(s, o, w)
    PROVE  /\ Taken(o, k, s[1]) \in [Calls -> Output] /\ InOrder(t, Taken(o, k, s[1]), w)
           /\ With(Taken(o, k, s[1]), o, k, s[1].n)
<1> DEFINE o2 == Taken(o, k, s[1])
           e == <<s[1].call, s[1].n>>
           m == Len(o[k])
<1>0. /\ Increasing(s) /\ Behind(s, o) /\ Numbered(s) /\ OwnOutput(o) /\ Unanswered(s, o, w)
      /\ Len(s) \in Nat \ {0} /\ Len(t) = Len(s) - 1 /\ \A i \in 1 .. Len(s) - 1 : t[i] = s[i + 1]
  BY DomainIs DEF InOrder, Rest
<1>1. 1 \in DOMAIN s /\ s[1] \in Frames /\ s[1].call = k /\ s[1].n # 0
  BY <1>0, DomainIs DEF Numbered, Data
<1>2. e \in Calls \X (1 .. MaxFull + 1) /\ e[1] = k /\ e[2] = s[1].n /\ s[1].n \in Nat
      /\ e = <<k, s[1].n>>
  BY <1>1, Limits DEF Frames
<1>3. /\ o2[k] = Append(o[k], e) /\ (\A c \in Calls : c # k => o2[c] = o[c])
      /\ o[k] \in Output /\ o2 \in [Calls -> {o2[c] : c \in Calls}]
  BY DEF Taken
<1> HIDE DEF e, o2
<1>4. /\ o2[k] \in Output /\ Len(o2[k]) = m + 1 /\ m \in Nat
      /\ DOMAIN o[k] = 1 .. m /\ DOMAIN o2[k] = 1 .. m + 1
      /\ (\A i \in 1 .. m : o2[k][i] = o[k][i]) /\ o2[k][m + 1] = e
  <2> DEFINE q == o[k]
  <2>1. q \in Output /\ e \in Calls \X (1 .. MaxFull + 1)
    BY <1>2, <1>3
  <2> HIDE DEF q
  <2>2. /\ Append(q, e) \in Output /\ Len(Append(q, e)) = Len(q) + 1 /\ Len(q) \in Nat
        /\ DOMAIN q = 1 .. Len(q) /\ DOMAIN Append(q, e) = 1 .. Len(q) + 1
        /\ (\A i \in 1 .. Len(q) : Append(q, e)[i] = q[i])
        /\ Append(q, e)[Len(q) + 1] = e
    BY <2>1, Appended
  <2>3. o2[k] = Append(q, e)
    BY <1>3 DEF q
  <2>4. m = Len(q) /\ o[k] = q
    BY DEF q
  <2> HIDE DEF m
  <2> QED BY <2>2, <2>3, <2>4
<1>5. o2 \in [Calls -> Output]
  <2>1. \A c \in Calls : o2[c] \in Output
    BY <1>3, <1>4
  <2> QED BY <1>3, <2>1
<1>6. Thin(t, s)
  <2>1. Len(t) + 1 <= Len(s) /\ \A i \in 1 .. Len(t) : t[i] = s[i + 1]
    BY <1>0
  <2> QED BY <2>1 DEF Thin
<1>7. Behind(t, o) /\ Unanswered(t, o, w) /\ Increasing(t) /\ Numbered(t)
  BY <1>0, <1>6, ThinKeeps
<1>8. \A i \in DOMAIN t : Data(t[i], k) => s[1].n < t[i].n
  <2> SUFFICES ASSUME NEW i \in DOMAIN t, Data(t[i], k) PROVE s[1].n < t[i].n
    OBVIOUS
  <2>1. i + 1 \in DOMAIN s /\ 1 < i + 1 /\ t[i] = s[i + 1]
    BY <1>0, DomainIs
  <2> QED BY <1>0, <1>1, <2>1 DEF Increasing
<1> HIDE DEF m
<1>9. Behind(t, o2)
  <2> SUFFICES ASSUME NEW c \in Calls, NEW i \in DOMAIN t, NEW j \in DOMAIN o2[c], Data(t[i], c)
               PROVE  o2[c][j][2] < t[i].n
    BY DEF Behind
  <2>1. CASE c # k
    BY <1>3, <1>7, <2>1 DEF Behind
  <2>2. CASE c = k /\ j \in 1 .. m
    BY <1>4, <1>7, <2>2 DEF Behind
  <2>3. CASE c = k /\ j = m + 1
    BY <1>2, <1>4, <1>8, <2>3
  <2>4. c = k => j \in 1 .. m \/ j = m + 1
    BY <1>4
  <2> QED BY <2>1, <2>2, <2>3, <2>4
<1>10. OwnOutput(o2)
  <2> SUFFICES ASSUME NEW c \in Calls
               PROVE  /\ \A i \in DOMAIN o2[c] : o2[c][i][1] = c
                      /\ \A i, j \in DOMAIN o2[c] : i < j => o2[c][i][2] < o2[c][j][2]
    BY DEF OwnOutput
  <2>1. CASE c # k
    BY <1>0, <1>3, <2>1 DEF OwnOutput
  <2>2. CASE c = k
    <3>1. ASSUME NEW i \in 1 .. m PROVE o2[k][i][1] = k /\ o2[k][i][2] < s[1].n
      <4>1. o2[k][i] = o[k][i] /\ i \in DOMAIN o[k]
        BY <1>4
      <4>2. o[k][i][1] = k
        BY <1>0, <4>1 DEF OwnOutput
      <4>3. o[k][i][2] < s[1].n
        BY <1>0, <1>1, <4>1 DEF Behind
      <4> QED BY <4>1, <4>2, <4>3
    <3>2. \A i, j \in 1 .. m : i < j => o2[k][i][2] < o2[k][j][2]
      BY <1>0, <1>4 DEF OwnOutput
    <3>3. \A i \in 1 .. m + 1 : i \in 1 .. m \/ i = m + 1
      BY <1>4
    <3>4. \A i \in 1 .. m + 1 : o2[k][i][1] = k
      BY <1>2, <1>4, <3>1, <3>3
    <3>5. ASSUME NEW i \in 1 .. m + 1, NEW j \in 1 .. m + 1, i < j PROVE o2[k][i][2] < o2[k][j][2]
      <4>1. i \in 1 .. m
        BY <1>4, <3>5
      <4> QED BY <1>2, <1>4, <3>1, <3>2, <3>3, <3>5, <4>1
    <3> QED BY <1>4, <2>2, <3>4, <3>5
  <2> QED BY <2>1, <2>2
<1>11. Unanswered(t, o2, w)
  <2>1. w[k] # -1
    BY <1>0, <1>1 DEF Unanswered, Data, Of
  <2> QED BY <1>3, <1>7, <2>1 DEF Unanswered
<1>12. InOrder(t, o2, w)
  BY <1>7, <1>9, <1>10, <1>11 DEF InOrder
<1>13. With(o2, o, k, s[1].n)
  BY <1>2, <1>3, <1>4 DEF With, m
<1> QED BY <1>5, <1>12, <1>13 DEF o2

LEMMA ExecDataKeeps ==
    ASSUME OInv, AskewAtTheStart, pc = "exec", ExecData,
           UNCHANGED <<script, closed, inbox, server, history>>
    PROVE  /\ OInv' /\ AskewAtTheStart' /\ responses' = responses + 1
           /\ wire # <<>> /\ wire' = Tail(wire) /\ Head(wire) = wire[1]
           /\ wire[1].id = "cmd" /\ wire[1].call = call /\ call \in Calls /\ script' = script
           /\ \/ /\ Data(wire[1], call) /\ UNCHANGED <<pc, call, res>>
                 /\ splitPending' = (wire[1].size = "full")
                 /\ With(out', out, call, wire[1].n)
              \/ /\ Blank(wire[1], call) /\ UNCHANGED <<out, splitPending>>
                 /\ \/ out[call] # <<>> /\ Return("ok")
                    \/ out[call] = <<>> /\ UNCHANGED <<pc, call, res>>
<1>0. /\ TypeOK /\ Kinds /\ wire \in Seq(Frames) /\ plan \in Seq(Frames)
      /\ plan' = plan /\ answer' = answer /\ inbox' = inbox
      /\ script' = script
  BY DEF OInv, TypeOK, server
<1>1. wire # <<>> /\ wire' = Tail(wire) /\ arriving' = arriving /\ Reads /\ broken' = broken
  BY DEF ExecData, Whole, Readable, Consume, Reads
<1>2. Head(wire) = wire[1] /\ wire[1] \in Frames
  BY <1>0, <1>1, DropFirst
<1>3. wire[1].id = "cmd" /\ wire[1].call = call /\ responses' = responses + 1 /\ frames' = frames
  BY <1>2 DEF ExecData, OurData
<1>4. call \in Calls /\ call <= Len(script) /\ responses' \in Nat
  BY <1>0, <1>3, CallIs DEF TypeOK, Kinds
<1>5. CASE wire[1].size # "empty"
  <2>1. /\ out' = [out EXCEPT ![call] = Append(@, <<wire[1].call, wire[1].n>>)]
        /\ splitPending' = (wire[1].size = "full") /\ UNCHANGED <<pc, call, res>>
    BY <1>2, <1>5 DEF ExecData
  <2>2. Data(wire[1], call)
    BY <1>3, <1>5 DEF Data
  <2> DEFINE s == wire \o plan
             t == Tail(wire) \o plan
  <2>3. /\ s \in Seq(Frames) /\ t \in Seq(Frames) /\ Rest(t, s) /\ s[1] = wire[1]
        /\ s = Stream /\ t = Stream'
    BY <1>0, <1>1, DropFirst, Joined DEF Stream, Rest
  <2>4. InOrder(s, out, answer) /\ out \in [Calls -> Output]
    BY <2>3 DEF OInv, TypeOK, Output
  <2> HIDE DEF s, t
  <2>6. Data(s[1], call) /\ out' = Taken(out, call, s[1])
    BY <2>1, <2>2, <2>3 DEF Taken
  <2>7. out' \in [Calls -> Output] /\ InOrder(t, out', answer) /\ With(out', out, call, s[1].n)
    BY <1>4, <2>3, <2>4, <2>6, TakeOutput
  <2>10. Left(wire', wire, plan, arriving') /\ arriving' \in BOOLEAN /\ broken' \in BOOLEAN
    BY <1>0, <1>1, ReadLeaves
  <2>11. splitPending' \in BOOLEAN
    BY <2>1
  <2>12. TypeOK'
    BY <1>0, <1>3, <1>4, <2>1, <2>7, <2>10, <2>11 DEF TypeOK, Left, server, history, Output
  <2>13. Kinds' /\ UnsentIsNew'
    BY <1>0, <1>3, <2>1 DEF OInv, Kinds, UnsentIsNew
  <2>14. AskewAtTheStart'
    BY <1>0, <2>10 DEF AskewAtTheStart, Left
  <2>15. Requested(inbox, answer)
    BY DEF OInv
  <2>16. OInv'
    BY <1>0, <2>3, <2>7, <2>12, <2>13, <2>15 DEF OInv
  <2> QED BY <1>1, <1>2, <1>3, <1>4, <1>0, <2>1, <2>2, <2>3, <2>7, <2>14, <2>16
<1>6. CASE wire[1].size = "empty"
  <2>1. /\ UNCHANGED <<out, splitPending>>
        /\ IF out[call] # <<>> THEN Return("ok") ELSE UNCHANGED <<pc, call, res>>
    BY <1>2, <1>6 DEF ExecData
  <2>2. Blank(wire[1], call)
    BY <1>3, <1>6 DEF Blank
  <2>3. ASSUME NEW r \in Results, Return(r)
        PROVE  /\ pc' \in {"ready", "end"} /\ call' \in 1 .. Len(script) + 1
               /\ (pc' # "end" => call' <= Len(script)) /\ SentGrows
               /\ res' \in [{0} \union Calls -> Results]
    BY <1>0, <1>4, <2>3, ReturnIs
  <2>4. ASSUME Return("ok") PROVE OInv' /\ AskewAtTheStart'
    <3>1. Kinds'
      BY <1>0, <2>3, <2>4, ResultsAre DEF Kinds
    <3>2. ClientTypes(pc', call', responses', splitPending', frames', res')
      BY <1>0, <1>3, <1>4, <2>1, <2>3, <2>4, ResultsAre DEF ClientTypes, Places, TypeOK
    <3> QED BY <1>1, <2>1, <2>3, <2>4, <3>1, <3>2, ReadStep, ResultsAre
  <2>5. ASSUME UNCHANGED <<pc, call, res>> PROVE OInv' /\ AskewAtTheStart'
    <3>1. Kinds' /\ SentGrows
      BY <1>0, <1>3, <2>5 DEF Kinds, SentGrows
    <3>2. ClientTypes(pc', call', responses', splitPending', frames', res')
      BY <1>0, <1>3, <1>4, <2>1, <2>5, ClientTypesAre DEF ClientTypes
    <3> QED BY <1>1, <2>1, <3>1, <3>2, ReadStep
  <2>6. OInv' /\ AskewAtTheStart'
    BY <2>1, <2>4, <2>5
  <2> QED BY <1>0, <1>1, <1>2, <1>3, <1>4, <2>1, <2>2, <2>6
<1> QED BY <1>5, <1>6

LEMMA ExecMarkerKeeps ==
    ASSUME OInv, AskewAtTheStart, pc = "exec", ExecMarker,
           UNCHANGED <<script, closed, inbox, server, history>>
    PROVE  OInv' /\ AskewAtTheStart'
<1>1. /\ TypeOK /\ Kinds /\ Reads /\ pc' = "drain" /\ frames' = 0
      /\ UNCHANGED <<call, res, out, responses, splitPending, broken>>
  BY DEF OInv, ExecMarker, Reads
<1>2. Kinds' /\ SentGrows
  BY <1>1 DEF Kinds, SentGrows, SentBy
<1>3. ClientTypes(pc', call', responses', splitPending', frames', res')
  <2>1. 0 \in 0 .. AuthMax + 2
    BY Limits
  <2> QED BY <1>1, <2>1, ClientTypesAre DEF ClientTypes, Places
<1> QED BY <1>1, <1>2, <1>3, ReadStep

LEMMA ExecSkipKeeps ==
    ASSUME OInv, AskewAtTheStart, pc = "exec", ExecSkip,
           UNCHANGED <<script, closed, inbox, server, history>>
    PROVE  OInv' /\ AskewAtTheStart'
<1>1. /\ TypeOK /\ Kinds /\ (Reads \/ Loses)
      /\ UNCHANGED <<pc, call, res, out, responses, splitPending, frames>>
  BY DEF OInv, ExecSkip, Reads, Loses
<1>2. Kinds' /\ SentGrows
  BY <1>1 DEF Kinds, SentGrows, SentBy
<1>3. ClientTypes(pc', call', responses', splitPending', frames', res')
  BY <1>1, ClientTypesAre DEF ClientTypes
<1> QED BY <1>1, <1>2, <1>3, ReadStep

LEMMA ExecKeeps == OInv /\ AskewAtTheStart /\ Exec => OInv' /\ AskewAtTheStart'
<1> SUFFICES ASSUME OInv, AskewAtTheStart, Exec PROVE OInv' /\ AskewAtTheStart'
  OBVIOUS
<1>1. pc = "exec" /\ UNCHANGED <<script, closed, inbox, server, history>> /\ TypeOK
  BY DEF Exec, OInv
<1>2. CASE ExecStops
  <2>1. /\ UNCHANGED <<responses, splitPending, frames, out, wire, arriving, broken>>
        /\ \E r \in Results : Return(r)
    BY <1>2, ResultsAre DEF ExecStops
  <2>2. {hungUp', askew'} \subseteq SUBSET Calls
    BY <1>1 DEF TypeOK, history
  <2> QED BY <1>1, <2>1, <2>2, ReturningQuietly
<1>3. CASE ExecData
  BY <1>1, <1>3, ExecDataKeeps
<1>4. CASE ExecMarker
  BY <1>1, <1>4, ExecMarkerKeeps
<1>5. CASE ExecSkip
  BY <1>1, <1>5, ExecSkipKeeps
<1>6. CASE ExecLate \/ ExecHangUp \/ ExecBadSize
  <2>1. Loses /\ UNCHANGED <<out, responses, splitPending, frames>>
    BY <1>6 DEF ExecLate, ExecHangUp, ExecBadSize, Loses
  <2>2. \E r \in Results : Return(r)
    BY <1>6, ResultsAre DEF ExecLate, ExecHangUp, ExecBadSize
  <2> QED BY <1>1, <2>1, <2>2, ReturningRead
<1> QED BY <1>2, <1>3, <1>4, <1>5, <1>6 DEF Exec

------------------------------------------------------------------------------
(***************************************************************************)
(* Asking, and what the server takes.                                      *)
(***************************************************************************)

\* q2 is q with a command of call k and, it may be, its marker.
AsksFor(q2, q, k) ==
    /\ Len(q2) \in Len(q) + 1 .. Len(q) + 2
    /\ \A i \in 1 .. Len(q) : q2[i] = q[i]
    /\ q2[Len(q) + 1] = [call |-> k, id |-> "cmd"]
    /\ Len(q2) = Len(q) + 2 => q2[Len(q) + 2] = [call |-> k, id |-> "end"]

NotAsked(q, k) == \A i \in DOMAIN q : q[i].call # k

LEMMA RequestsAre ==
    ASSUME NEW k \in Calls
    PROVE  {[call |-> k, id |-> "cmd"], [call |-> k, id |-> "end"]} \subseteq Requests
BY DEF Requests

LEMMA QueueIs ==
    ASSUME NEW q \in Seq(Requests)
    PROVE  /\ DOMAIN q = 1 .. Len(q) /\ Len(q) \in Nat /\ (Len(q) = 0 <=> q = <<>>)
           /\ \A i \in 1 .. Len(q) : q[i] \in Requests
<1>1. Len(q) = 0 <=> q = <<>>
  BY EmptySeq
<1>2. DOMAIN q = 1 .. Len(q) /\ Len(q) \in Nat
  OBVIOUS
<1>3. \A i \in 1 .. Len(q) : q[i] \in Requests
  BY ElementOfSeq
<1> QED BY <1>1, <1>2, <1>3

LEMMA AskedBoth ==
    ASSUME NEW q \in Seq(Requests), NEW k \in Calls
    PROVE  LET both == <<[call |-> k, id |-> "cmd"], [call |-> k, id |-> "end"]>> IN
           q \o both \in Seq(Requests) /\ AsksFor(q \o both, q, k)
<1> DEFINE c == [call |-> k, id |-> "cmd"]
           e == [call |-> k, id |-> "end"]
<1>1. c \in Requests /\ e \in Requests
  BY RequestsAre
<1> HIDE DEF c, e
<1> DEFINE b == <<c, e>>
           q2 == q \o b
<1>2. b \in Seq(Requests) /\ Len(b) = 2 /\ b[1] = c /\ b[2] = e
  BY <1>1
<1> HIDE DEF b
<1>3. /\ q2 \in Seq(Requests) /\ Len(q2) = Len(q) + 2 /\ Len(q) \in Nat
      /\ \A i \in 1 .. Len(q) + 2 : q2[i] = IF i <= Len(q) THEN q[i] ELSE b[i - Len(q)]
  <2>1. /\ q2 \in Seq(Requests) /\ Len(q2) = Len(q) + Len(b)
        /\ \A i \in 1 .. Len(q) + Len(b) : q2[i] = IF i <= Len(q) THEN q[i] ELSE b[i - Len(q)]
    BY <1>2, ConcatProperties
  <2> HIDE DEF q2
  <2>2. Len(q) \in Nat
    BY QueueIs
  <2> QED BY <1>2, <2>1, <2>2
<1> HIDE DEF q2
<1>4. \A i \in 1 .. Len(q) : q2[i] = q[i]
  BY <1>3
<1>5. q2[Len(q) + 1] = c
  <2>1. Len(q) + 1 \in 1 .. Len(q) + 2 /\ ~(Len(q) + 1 <= Len(q)) /\ (Len(q) + 1) - Len(q) = 1
    BY <1>3
  <2> QED BY <1>2, <1>3, <2>1
<1>6. q2[Len(q) + 2] = e
  <2>1. Len(q) + 2 \in 1 .. Len(q) + 2 /\ ~(Len(q) + 2 <= Len(q)) /\ (Len(q) + 2) - Len(q) = 2
    BY <1>3
  <2> QED BY <1>2, <1>3, <2>1
<1>7. Len(q2) \in Len(q) + 1 .. Len(q) + 2
  BY <1>3
<1>8. AsksFor(q2, q, k)
  BY <1>4, <1>5, <1>6, <1>7 DEF AsksFor, c, e
<1> QED BY <1>3, <1>8 DEF q2, b, c, e

LEMMA AskedOne ==
    ASSUME NEW q \in Seq(Requests), NEW k \in Calls
    PROVE  /\ Append(q, [call |-> k, id |-> "cmd"]) \in Seq(Requests)
           /\ AsksFor(Append(q, [call |-> k, id |-> "cmd"]), q, k)
<1> DEFINE c == [call |-> k, id |-> "cmd"]
           q2 == Append(q, c)
<1>1. c \in Requests
  BY RequestsAre
<1> HIDE DEF c
<1>2. /\ q2 \in Seq(Requests) /\ Len(q2) = Len(q) + 1 /\ Len(q) \in Nat
      /\ (\A i \in 1 .. Len(q) : q2[i] = q[i]) /\ q2[Len(q) + 1] = c
  BY <1>1, AppendProperties, QueueIs
<1> HIDE DEF q2
<1>3. AsksFor(q2, q, k)
  BY <1>2 DEF AsksFor, c
<1> QED BY <1>2, <1>3 DEF q2, c

\* A command that was not asked for joins the queue.
LEMMA AskedIsRequested ==
    ASSUME NEW q \in Seq(Requests), NEW q2 \in Seq(Requests), NEW w, NEW k \in Calls,
           AsksFor(q2, q, k), NotAsked(q, k), w[k] = -1, Requested(q, w)
    PROVE  /\ Requested(q2, w)
           /\ \A c : c # k /\ NotAsked(q, c) => NotAsked(q2, c)
<1> DEFINE m == Len(q) + 1
<1>1. /\ DOMAIN q = 1 .. Len(q) /\ DOMAIN q2 = 1 .. Len(q2) /\ Len(q) \in Nat /\ Len(q2) \in Nat
      /\ Len(q2) \in m .. m + 1
  BY QueueIs DEF AsksFor
<1>2. /\ q2[m].id = "cmd" /\ q2[m].call = k /\ (\A i \in 1 .. Len(q) : q2[i] = q[i])
      /\ m \in DOMAIN q2
  <2>1. q2[m] = [call |-> k, id |-> "cmd"] /\ (\A i \in 1 .. Len(q) : q2[i] = q[i])
    BY DEF AsksFor
  <2>2. m \in DOMAIN q2
    BY <1>1
  <2> QED BY <2>1, <2>2
<1>3. \A i \in DOMAIN q2 : i \in DOMAIN q \/ i = m \/ i = m + 1
  BY <1>1
<1>4. m + 1 \in DOMAIN q2 => q2[m + 1].id = "end" /\ q2[m + 1].call = k
  <2> SUFFICES ASSUME m + 1 \in DOMAIN q2 PROVE q2[m + 1].id = "end" /\ q2[m + 1].call = k
    OBVIOUS
  <2>1. Len(q2) = Len(q) + 2 /\ m + 1 = Len(q) + 2
    <3>1. \A a, b \in Nat : b \in a + 1 .. (a + 1) + 1 /\ (a + 1) + 1 \in 1 .. b => b = a + 2 /\ (a + 1) + 1 = a + 2
      OBVIOUS
    <3> QED BY <1>1, <3>1
  <2>2. q2[m + 1] = [call |-> k, id |-> "end"]
    BY <2>1 DEF AsksFor
  <2> QED BY <2>2
<1>5. \A i \in DOMAIN q : q2[i] = q[i] /\ q[i].call # k /\ i \in DOMAIN q2 /\ i < m
  BY <1>1, <1>2 DEF NotAsked
<1>6. ASSUME NEW i \in DOMAIN q2 PROVE CommandOnce(q2, w, i)
  <2> SUFFICES ASSUME q2[i].id = "cmd"
               PROVE  /\ q2[i].call \in Calls /\ w[q2[i].call] = -1
                      /\ \A j \in DOMAIN q2 : q2[j].id = "cmd" /\ q2[j].call = q2[i].call => j = i
    BY DEF CommandOnce
  <2>1. CASE i \in DOMAIN q
    <3>1. /\ q[i].call \in Calls /\ w[q[i].call] = -1
          /\ \A j \in DOMAIN q : q[j].id = "cmd" /\ q[j].call = q[i].call => j = i
      BY <1>5, <2>1 DEF Requested, CommandOnce
    <3> QED BY <1>2, <1>3, <1>4, <1>5, <2>1, <3>1
  <2>2. CASE i = m
    BY <1>2, <1>3, <1>4, <1>5, <2>2
  <2>3. i # m + 1
    BY <1>4
  <2> QED BY <1>3, <2>1, <2>2, <2>3
<1>7. ASSUME NEW i \in DOMAIN q2 PROVE MarkerAfter(q2, w, i)
  <2> SUFFICES ASSUME q2[i].id = "end"
               PROVE  /\ q2[i].call \in Calls
                      /\ w[q2[i].call] # -1 \/ \E j \in DOMAIN q2 :
                           j < i /\ q2[j].id = "cmd" /\ q2[j].call = q2[i].call
    BY DEF MarkerAfter
  <2>1. CASE i \in DOMAIN q
    <3>1. /\ q[i].call \in Calls
          /\ w[q[i].call] # -1 \/ \E j \in DOMAIN q :
               j < i /\ q[j].id = "cmd" /\ q[j].call = q[i].call
      BY <1>5, <2>1 DEF Requested, MarkerAfter
    <3> QED BY <1>5, <2>1, <3>1
  <2>2. CASE i = m + 1
    <3>1. m < m + 1
      BY <1>1
    <3> QED BY <1>2, <1>4, <2>2, <3>1
  <2> QED BY <1>2, <1>3, <2>1, <2>2
<1>8. ASSUME NEW c, c # k, NotAsked(q, c) PROVE NotAsked(q2, c)
  BY <1>2, <1>3, <1>4, <1>5, <1>8 DEF NotAsked
<1> QED BY <1>6, <1>7, <1>8 DEF Requested

\* Calls whose command has been taken, and what becomes of the counts of answers.
Counts(w2, w, q) ==
    /\ \A c \in Calls : w2[c] = -1 => w[c] = -1
    /\ q[1].id = "cmd" => w2[q[1].call] # -1
    /\ \A c \in Calls : w2[c] = w[c] \/ (q[1].id = "cmd" /\ q[1].call = c)

LEMMA TakenIsRequested ==
    ASSUME NEW q \in Seq(Requests), q # <<>>, NEW w, NEW w2, Counts(w2, w, q), Requested(q, w)
    PROVE  /\ Tail(q) \in Seq(Requests) /\ Requested(Tail(q), w2)
           /\ \A c : NotAsked(q, c) => NotAsked(Tail(q), c)
<1> DEFINE t == Tail(q)
<1>1. /\ t \in Seq(Requests) /\ Len(t) = Len(q) - 1 /\ Len(q) \in Nat \ {0}
      /\ \A i \in 1 .. Len(q) - 1 : t[i] = q[i + 1]
  BY EmptySeq, HeadTailProperties
<1> HIDE DEF t
<1>2. /\ \A i \in DOMAIN t : t[i] = q[i + 1] /\ i + 1 \in DOMAIN q /\ i + 1 # 1 /\ i \in Nat
      /\ \A j \in DOMAIN q : j = 1 \/ (j - 1 \in DOMAIN t /\ t[j - 1] = q[j] /\ (j - 1) + 1 = j /\ j \in Nat)
      /\ 1 \in DOMAIN q
  BY <1>1, QueueIs
<1>3. ASSUME NEW i \in DOMAIN t PROVE CommandOnce(t, w2, i)
  <2> SUFFICES ASSUME t[i].id = "cmd"
               PROVE  /\ t[i].call \in Calls /\ w2[t[i].call] = -1
                      /\ \A j \in DOMAIN t : t[j].id = "cmd" /\ t[j].call = t[i].call => j = i
    BY DEF CommandOnce
  <2>1. /\ q[i + 1].call \in Calls /\ w[q[i + 1].call] = -1
        /\ \A j \in DOMAIN q : q[j].id = "cmd" /\ q[j].call = q[i + 1].call => j = i + 1
    BY <1>2 DEF Requested, CommandOnce
  <2>2. ~(q[1].id = "cmd" /\ q[1].call = q[i + 1].call)
    BY <1>2, <2>1
  <2>3. w2[t[i].call] = -1
    BY <1>2, <2>1, <2>2 DEF Counts
  <2>4. ASSUME NEW j \in DOMAIN t, t[j].id = "cmd", t[j].call = t[i].call PROVE j = i
    <3>1. t[j] = q[j + 1] /\ t[i] = q[i + 1] /\ j + 1 \in DOMAIN q /\ i \in Nat /\ j \in Nat
      BY <1>2
    <3>2. q[j + 1].id = "cmd" /\ q[j + 1].call = q[i + 1].call
      BY <2>4, <3>1
    <3>3. j + 1 = i + 1
      BY <2>1, <3>1, <3>2
    <3> QED BY <3>1, <3>3
  <2> QED BY <1>2, <2>1, <2>3, <2>4
<1>4. ASSUME NEW i \in DOMAIN t PROVE MarkerAfter(t, w2, i)
  <2> SUFFICES ASSUME t[i].id = "end", w2[t[i].call] = -1
               PROVE  /\ t[i].call \in Calls
                      /\ \E j \in DOMAIN t : j < i /\ t[j].id = "cmd" /\ t[j].call = t[i].call
    <3>1. t[i].id = "end" => t[i].call \in Calls
      BY <1>2 DEF Requested, MarkerAfter
    <3> QED BY <3>1 DEF MarkerAfter
  <2>1. /\ q[i + 1].call \in Calls
        /\ w[q[i + 1].call] # -1 \/ \E j \in DOMAIN q :
             j < i + 1 /\ q[j].id = "cmd" /\ q[j].call = q[i + 1].call
    BY <1>2 DEF Requested, MarkerAfter
  <2>2. w[q[i + 1].call] = -1
    BY <1>2, <2>1 DEF Counts
  <2>3. PICK j \in DOMAIN q : j < i + 1 /\ q[j].id = "cmd" /\ q[j].call = q[i + 1].call
    BY <2>1, <2>2
  <2>4. j # 1
    BY <1>2, <2>1, <2>3 DEF Counts
  <2>5. j - 1 \in DOMAIN t /\ t[j - 1] = q[j] /\ j - 1 < i
    <3>1. j - 1 \in DOMAIN t /\ t[j - 1] = q[j] /\ j \in Nat /\ i \in Nat
      BY <1>2, <2>4
    <3>2. j < i + 1
      BY <2>3
    <3> QED BY <3>1, <3>2
  <2>6. t[j - 1].id = "cmd" /\ t[j - 1].call = t[i].call /\ t[i].call \in Calls
    BY <1>2, <2>1, <2>3, <2>5
  <2> QED BY <2>5, <2>6
<1>5. \A c : NotAsked(q, c) => NotAsked(t, c)
  BY <1>2 DEF NotAsked
<1> QED BY <1>1, <1>3, <1>4, <1>5 DEF Requested, t


------------------------------------------------------------------------------
(***************************************************************************)
(* What the server adds to the stream.                                     *)
(***************************************************************************)

\* The frames of p answer what has just been counted (w2), and are output only
\* of a call that was not (w).
Fresh(p, w, w2) ==
    /\ Increasing(p) /\ Numbered(p)
    /\ \A c \in Calls :
         /\ w2[c] = -1 => w[c] = -1
         /\ \A i \in DOMAIN p : Of(p[i], c) => w2[c] # -1
         /\ \A i \in DOMAIN p : Data(p[i], c) => w[c] = -1

LEMMA MoreToCome ==
    ASSUME NEW s \in Seq(Frames), NEW p \in Seq(Frames), NEW o, NEW w, NEW w2,
           InOrder(s, o, w), Fresh(p, w, w2)
    PROVE  InOrder(s \o p, o, w2)
<1> DEFINE t == s \o p
           n == Len(s)
<1>1. /\ t \in Seq(Frames) /\ Len(t) = n + Len(p) /\ n \in Nat /\ Len(p) \in Nat
      /\ DOMAIN t = 1 .. n + Len(p) /\ DOMAIN s = 1 .. n /\ DOMAIN p = 1 .. Len(p)
      /\ \A i \in 1 .. n + Len(p) : t[i] = IF i <= n THEN s[i] ELSE p[i - n]
  BY Joined, DomainIs
<1> HIDE DEF t, n
<1>2. ASSUME NEW i \in DOMAIN t
      PROVE  \/ i \in DOMAIN s /\ t[i] = s[i] /\ i <= n
             \/ i - n \in DOMAIN p /\ t[i] = p[i - n] /\ i > n
  <2>1. CASE i <= n
    BY <1>1, <2>1
  <2>2. CASE ~(i <= n)
    BY <1>1, <2>2
  <2> QED BY <2>1, <2>2
<1>3. /\ Increasing(s) /\ Behind(s, o) /\ Numbered(s) /\ OwnOutput(o) /\ Unanswered(s, o, w)
      /\ Increasing(p) /\ Numbered(p)
  BY DEF InOrder, Fresh
<1>4. \A c \in Calls : \A i \in DOMAIN p : Data(p[i], c) =>
        /\ o[c] = <<>> /\ \A j \in DOMAIN s : ~Data(s[j], c)
  BY <1>3 DEF Fresh, Unanswered, Data, Of
<1>5. Increasing(t)
  <2> SUFFICES ASSUME NEW c \in Calls, NEW i \in DOMAIN t, NEW j \in DOMAIN t, i < j,
                      Data(t[i], c), Data(t[j], c)
               PROVE  t[i].n < t[j].n
    BY DEF Increasing
  <2>0. i \in Nat /\ j \in Nat
    BY <1>1
  <2>1. CASE j <= n
    <3>1. i \in DOMAIN s /\ j \in DOMAIN s /\ t[i] = s[i] /\ t[j] = s[j]
      BY <1>1, <1>2, <2>0, <2>1
    <3> QED BY <1>3, <3>1 DEF Increasing
  <2>2. CASE ~(j <= n)
    <3>1. j - n \in DOMAIN p /\ t[j] = p[j - n]
      BY <1>1, <1>2, <2>0, <2>2
    <3>2. i - n \in DOMAIN p /\ t[i] = p[i - n]
      BY <1>2, <1>4, <3>1
    <3>3. i - n < j - n
      BY <1>1, <2>0
    <3> QED BY <1>3, <3>1, <3>2, <3>3 DEF Increasing
  <2> QED BY <2>1, <2>2
<1>6. Behind(t, o)
  <2> SUFFICES ASSUME NEW c \in Calls, NEW i \in DOMAIN t, NEW j \in DOMAIN o[c], Data(t[i], c)
               PROVE  o[c][j][2] < t[i].n
    BY DEF Behind
  <2>1. ~(i - n \in DOMAIN p /\ t[i] = p[i - n])
    <3>1. DOMAIN <<>> = {}
      OBVIOUS
    <3> QED BY <1>4, <3>1
  <2>2. i \in DOMAIN s /\ t[i] = s[i]
    BY <1>2, <2>1
  <2> QED BY <1>3, <2>2 DEF Behind
<1>7. Numbered(t)
  BY <1>2, <1>3 DEF Numbered
<1>8. Unanswered(t, o, w2)
  BY <1>2, <1>3 DEF Fresh, Unanswered
<1>9. InOrder(t, o, w2)
  BY <1>3, <1>5, <1>6, <1>7, <1>8 DEF InOrder
<1> QED BY <1>9 DEF t

\* t is s with a frame of nobody's at place m.
Slipped(t, s, m) ==
    /\ m \in Nat \ {0} /\ Len(t) = Len(s) + 1 /\ m <= Len(t)
    /\ \A i \in 1 .. Len(t) : i < m => t[i] = s[i]
    /\ t[m] = Foreign
    /\ \A i \in 1 .. Len(t) : i > m => t[i] = s[i - 1]

LEMMA SlippedIn ==
    ASSUME NEW w \in Seq(Frames), NEW p \in Seq(Frames)
    PROVE  Append(w, Foreign) \in Seq(Frames)
           /\ Slipped(Append(w, Foreign) \o p, w \o p, Len(w) + 1)
<1> DEFINE v == Append(w, Foreign)
           s == w \o p
           t == v \o p
           m == Len(w) + 1
<1>1. v \in Seq(Frames) /\ Len(v) = m /\ v[m] = Foreign /\ \A i \in 1 .. Len(w) : v[i] = w[i]
  BY FramesAre, AppendProperties
<1> HIDE DEF v
<1>2. /\ Len(s) = Len(w) + Len(p) /\ Len(w) \in Nat /\ Len(p) \in Nat
      /\ \A i \in 1 .. Len(w) + Len(p) : s[i] = IF i <= Len(w) THEN w[i] ELSE p[i - Len(w)]
  BY Joined
<1>3. /\ Len(t) = Len(v) + Len(p)
      /\ \A i \in 1 .. Len(v) + Len(p) : t[i] = IF i <= Len(v) THEN v[i] ELSE p[i - Len(v)]
  BY <1>1, Joined
<1> HIDE DEF s, t
<1>4. ASSUME NEW i \in 1 .. Len(t), i < m PROVE t[i] = s[i]
  BY <1>1, <1>2, <1>3, <1>4
<1>5. ASSUME NEW i \in 1 .. Len(t), i > m PROVE t[i] = s[i - 1]
  <2>1. t[i] = p[i - m]
    BY <1>1, <1>2, <1>3, <1>5
  <2>2. s[i - 1] = p[(i - 1) - Len(w)]
    <3>1. i - 1 \in 1 .. Len(w) + Len(p) /\ ~(i - 1 <= Len(w))
      BY <1>1, <1>2, <1>3, <1>5
    <3> QED BY <1>2, <3>1
  <2>3. i - m = (i - 1) - Len(w)
    BY <1>2
  <2> QED BY <2>1, <2>2, <2>3
<1>6. Len(t) = Len(s) + 1 /\ m <= Len(t) /\ m \in Nat \ {0}
  BY <1>1, <1>2, <1>3
<1>7. t[m] = Foreign
  BY <1>1, <1>2, <1>3
<1>8. Slipped(t, s, m)
  BY <1>4, <1>5, <1>6, <1>7 DEF Slipped
<1> QED BY <1>1, <1>8 DEF v, s, t

\* Where a frame of the stream was before another slipped in.
Was(i, m) == IF i < m THEN i ELSE i - 1

LEMMA SlippedFrames ==
    ASSUME NEW s \in Seq(Frames), NEW t \in Seq(Frames), NEW m, Slipped(t, s, m),
           NEW c \in Calls, NEW i \in DOMAIN t, Of(t[i], c)
    PROVE  i # m /\ t[i] = s[Was(i, m)] /\ Was(i, m) \in DOMAIN s
<1>1. i \in 1 .. Len(t) /\ DOMAIN s = 1 .. Len(s) /\ Len(s) \in Nat /\ m \in Nat \ {0}
      /\ Len(t) = Len(s) + 1
  BY DomainIs DEF Slipped
<1>2. i # m
  BY FramesAre DEF Slipped
<1>3. CASE i < m
  BY <1>1, <1>3 DEF Slipped, Was
<1>4. CASE i > m
  BY <1>1, <1>4 DEF Slipped, Was
<1> QED BY <1>1, <1>2, <1>3, <1>4

LEMMA SlippedKeeps ==
    ASSUME NEW s \in Seq(Frames), NEW t \in Seq(Frames), NEW m, Slipped(t, s, m),
           NEW o, NEW w, InOrder(s, o, w)
    PROVE  InOrder(t, o, w)
<1>1. \A c \in Calls : \A i \in DOMAIN t : Of(t[i], c) =>
        i # m /\ t[i] = s[Was(i, m)] /\ Was(i, m) \in DOMAIN s
  BY SlippedFrames
<1>2. \A c \in Calls : \A i \in DOMAIN t : Data(t[i], c) =>
        i # m /\ t[i] = s[Was(i, m)] /\ Was(i, m) \in DOMAIN s
  BY <1>1 DEF Data, Of
<1>3. /\ Increasing(s) /\ Behind(s, o) /\ Numbered(s) /\ OwnOutput(o) /\ Unanswered(s, o, w)
  BY DEF InOrder
<1>4. m \in Nat /\ DOMAIN t \subseteq Nat
  BY DomainIs DEF Slipped
<1>5. Increasing(t)
  <2> SUFFICES ASSUME NEW c \in Calls, NEW i \in DOMAIN t, NEW j \in DOMAIN t, i < j,
                      Data(t[i], c), Data(t[j], c)
               PROVE  t[i].n < t[j].n
    BY DEF Increasing
  <2>1. Was(i, m) < Was(j, m)
    <3>1. i # m /\ j # m /\ i \in Nat /\ j \in Nat
      BY <1>2, <1>4
    <3> QED BY <1>4, <3>1 DEF Was
  <2>2. Was(i, m) \in DOMAIN s /\ Was(j, m) \in DOMAIN s
        /\ t[i] = s[Was(i, m)] /\ t[j] = s[Was(j, m)]
    BY <1>2
  <2> QED BY <1>3, <2>1, <2>2 DEF Increasing
<1>6. Behind(t, o)
  BY <1>2, <1>3 DEF Behind
<1>7. Numbered(t)
  BY <1>2, <1>3 DEF Numbered
<1>8. Unanswered(t, o, w)
  BY <1>1, <1>3 DEF Unanswered
<1> QED BY <1>3, <1>5, <1>6, <1>7, <1>8 DEF InOrder


\* p is the answer of a data packets to call k; ack if an empty frame comes first.
AnswerOf(p, k, ack, a) ==
    LET h == IF ack THEN 1 ELSE 0 IN
    /\ p \in Seq(Frames) /\ h + a <= Len(p)
    /\ \A i \in 1 .. Len(p) : p[i].call = k /\ p[i].id = "cmd"
    /\ \A i \in h + 1 .. h + a :
         p[i].size # "empty" /\ p[i].n = i - h /\ (p[i].size = "short" => i - h = a)
    /\ \A i \in 1 .. Len(p) : i <= h \/ i > h + a => p[i].size = "empty"

LEMMA OneFrame ==
    ASSUME NEW f \in Frames, NEW c \in BOOLEAN
    PROVE  LET q == IF c THEN <<f>> ELSE <<>> IN
           q \in Seq(Frames) /\ Len(q) = (IF c THEN 1 ELSE 0) /\ \A i \in 1 .. Len(q) : q[i] = f
<1>1. CASE c
  <2>1. <<f>> \in Seq(Frames) /\ Len(<<f>>) = 1 /\ \A i \in 1 .. 1 : <<f>>[i] = f
    OBVIOUS
  <2> QED BY <1>1, <2>1
<1>2. CASE ~c
  <2>1. <<>> \in Seq(Frames) /\ Len(<<>>) = 0
    BY EmptySeq
  <2> QED BY <1>2, <2>1
<1> QED BY <1>1, <1>2

LEMMA AnswerIs ==
    ASSUME NEW k \in Calls, NEW ack \in BOOLEAN, NEW full \in 0 .. MaxFull,
           NEW short \in BOOLEAN, NEW term \in BOOLEAN
    PROVE  AnswerOf(Answer(k, ack, full, short, term), k, ack, full + (IF short THEN 1 ELSE 0))
<1> DEFINE b == Frame(k, "cmd", "empty", 0)
           e == Frame(k, "cmd", "short", full + 1)
           p1 == IF ack THEN <<b>> ELSE <<>>
           p2 == [i \in 1 .. full |-> Frame(k, "cmd", "full", i)]
           p3 == IF short THEN <<e>> ELSE <<>>
           p4 == IF term THEN <<b>> ELSE <<>>
           h == IF ack THEN 1 ELSE 0
           d == IF short THEN 1 ELSE 0
           g == IF term THEN 1 ELSE 0
<1>1. full \in Nat /\ h \in Nat /\ d \in 0 .. 1 /\ g \in Nat
  BY Limits
<1>2. b \in Frames /\ e \in Frames /\ \A i \in 1 .. full : Frame(k, "cmd", "full", i) \in Frames
  BY Limits DEF Frame, Frames, Ids, Sizes
<1>3. p2 \in Seq(Frames) /\ Len(p2) = full /\ \A i \in 1 .. full : p2[i] = Frame(k, "cmd", "full", i)
  BY <1>1, <1>2
<1>4. b.call = k /\ b.id = "cmd" /\ b.size = "empty"
  BY DEF Frame
<1>5. e.call = k /\ e.id = "cmd" /\ e.size = "short" /\ e.n = full + 1
  BY DEF Frame
<1>6. \A i \in 1 .. full : p2[i].call = k /\ p2[i].id = "cmd" /\ p2[i].size = "full" /\ p2[i].n = i
  BY <1>3 DEF Frame
<1> HIDE DEF b, e, p2
<1>7. p1 \in Seq(Frames) /\ Len(p1) = h /\ \A i \in 1 .. h : p1[i] = b
  BY <1>2, OneFrame
<1>8. p3 \in Seq(Frames) /\ Len(p3) = d /\ \A i \in 1 .. d : p3[i] = e
  BY <1>2, OneFrame
<1>9. p4 \in Seq(Frames) /\ Len(p4) = g /\ \A i \in 1 .. g : p4[i] = b
  BY <1>2, OneFrame
<1>10. Answer(k, ack, full, short, term) = p1 \o p2 \o p3 \o p4
  BY DEF Answer, b, e, p2
<1>11. AnswerOf(p1 \o p2 \o p3 \o p4, k, ack, full + d) <=>
         /\ p1 \o p2 \o p3 \o p4 \in Seq(Frames) /\ h + (full + d) <= Len(p1 \o p2 \o p3 \o p4)
         /\ \A i \in 1 .. Len(p1 \o p2 \o p3 \o p4) :
              (p1 \o p2 \o p3 \o p4)[i].call = k /\ (p1 \o p2 \o p3 \o p4)[i].id = "cmd"
         /\ \A i \in h + 1 .. h + (full + d) :
              /\ (p1 \o p2 \o p3 \o p4)[i].size # "empty" /\ (p1 \o p2 \o p3 \o p4)[i].n = i - h
              /\ (p1 \o p2 \o p3 \o p4)[i].size = "short" => i - h = full + d
         /\ \A i \in 1 .. Len(p1 \o p2 \o p3 \o p4) :
              i <= h \/ i > h + (full + d) => (p1 \o p2 \o p3 \o p4)[i].size = "empty"
  BY DEF AnswerOf
<1> HIDE DEF p1, p3, p4, h, d, g
<1> DEFINE u == p1 \o p2
           v == u \o p3
           p == v \o p4
<1>12. /\ u \in Seq(Frames) /\ Len(u) = h + full
       /\ \A i \in 1 .. h + full : u[i] = IF i <= h THEN p1[i] ELSE p2[i - h]
  BY <1>3, <1>7, Joined
<1> HIDE DEF u
<1>13. /\ v \in Seq(Frames) /\ Len(v) = h + full + d
       /\ \A i \in 1 .. h + full + d : v[i] = IF i <= h + full THEN u[i] ELSE p3[i - (h + full)]
  BY <1>8, <1>12, Joined
<1> HIDE DEF v
<1>14. /\ p \in Seq(Frames) /\ Len(p) = h + full + d + g
       /\ \A i \in 1 .. h + full + d + g :
            p[i] = IF i <= h + full + d THEN v[i] ELSE p4[i - (h + full + d)]
  <2>1. /\ p \in Seq(Frames) /\ Len(p) = Len(v) + Len(p4)
        /\ \A i \in 1 .. Len(v) + Len(p4) : p[i] = IF i <= Len(v) THEN v[i] ELSE p4[i - Len(v)]
    BY <1>9, <1>13, Joined
  <2> HIDE DEF p
  <2> QED BY <1>9, <1>13, <2>1
<1> HIDE DEF p
<1>15. \A i \in 1 .. h : p[i] = b
  BY <1>1, <1>7, <1>12, <1>13, <1>14
<1>16. ASSUME NEW i \in h + 1 .. h + full
       PROVE  p[i].call = k /\ p[i].id = "cmd" /\ p[i].size = "full" /\ p[i].n = i - h
  <2>1. i - h \in 1 .. full /\ i \in 1 .. h + full /\ ~(i <= h)
    BY <1>1
  <2>2. p[i] = v[i] /\ v[i] = u[i] /\ u[i] = p2[i - h]
    BY <1>1, <1>12, <1>13, <1>14, <2>1
  <2> QED BY <1>6, <2>1, <2>2
<1>17. ASSUME NEW i \in h + full + 1 .. h + full + d PROVE p[i] = e /\ d = 1 /\ i = h + full + 1
  <2>1. i - (h + full) \in 1 .. d /\ i \in 1 .. h + full + d /\ ~(i <= h + full)
    BY <1>1
  <2>2. p[i] = v[i] /\ v[i] = p3[i - (h + full)]
    BY <1>1, <1>13, <1>14, <2>1
  <2>3. d = 1 /\ i = h + full + 1
    BY <1>1, <2>1
  <2> QED BY <1>8, <2>1, <2>2, <2>3
<1>18. ASSUME NEW i \in h + full + d + 1 .. h + full + d + g PROVE p[i] = b
  <2>1. i - (h + full + d) \in 1 .. g /\ i \in 1 .. h + full + d + g /\ ~(i <= h + full + d)
    BY <1>1
  <2> QED BY <1>1, <1>9, <1>14, <2>1
<1>19. \A i \in 1 .. Len(p) :
         \/ i \in 1 .. h \/ i \in h + 1 .. h + full
         \/ i \in h + full + 1 .. h + full + d \/ i \in h + full + d + 1 .. h + full + d + g
  <2>1. \A x, y, z, q \in Nat : \A i \in 1 .. x + y + z + q :
          \/ i \in 1 .. x \/ i \in x + 1 .. x + y
          \/ i \in x + y + 1 .. x + y + z \/ i \in x + y + z + 1 .. x + y + z + q
    OBVIOUS
  <2>2. d \in Nat
    BY <1>1
  <2> QED BY <1>1, <1>14, <2>1, <2>2
<1>20. \A i \in 1 .. Len(p) : p[i].call = k /\ p[i].id = "cmd"
  BY <1>4, <1>5, <1>15, <1>16, <1>17, <1>18, <1>19
<1>21. ASSUME NEW i \in h + 1 .. h + (full + d)
       PROVE  p[i].size # "empty" /\ p[i].n = i - h /\ (p[i].size = "short" => i - h = full + d)
  <2>1. i \in h + 1 .. h + full \/ i \in h + full + 1 .. h + full + d
    BY <1>1
  <2>2. CASE i \in h + 1 .. h + full
    BY <1>16, <2>2
  <2>3. CASE i \in h + full + 1 .. h + full + d
    <3>1. p[i] = e /\ i - h = full + 1 /\ d = 1
      BY <1>1, <1>17, <2>3
    <3> QED BY <1>5, <3>1
  <2> QED BY <2>1, <2>2, <2>3
<1>22. ASSUME NEW i \in 1 .. Len(p), i <= h \/ i > h + (full + d) PROVE p[i].size = "empty"
  <2>1. i \in 1 .. h \/ i \in h + full + d + 1 .. h + full + d + g
    BY <1>1, <1>14, <1>22
  <2> QED BY <1>4, <1>15, <1>18, <2>1
<1>23. h + (full + d) <= Len(p)
  BY <1>1, <1>14
<1>24. AnswerOf(p, k, ack, full + d)
  BY <1>11, <1>14, <1>20, <1>21, <1>22, <1>23 DEF p, v, u
<1> QED BY <1>10, <1>24 DEF p, v, u, d

LEMMA AnswerIsFresh ==
    ASSUME NEW k \in Calls, NEW p, NEW ack \in BOOLEAN, NEW a \in Nat, AnswerOf(p, k, ack, a),
           NEW w \in [Calls -> Int], w[k] = -1
    PROVE  Fresh(p, w, [w EXCEPT ![k] = a]) /\ \A i \in DOMAIN p : p[i] # Garbage
<1> DEFINE h == IF ack THEN 1 ELSE 0
           w2 == [w EXCEPT ![k] = a]
<1>1. /\ p \in Seq(Frames) /\ \A i \in 1 .. Len(p) : p[i].call = k /\ p[i].id = "cmd"
      /\ \A i \in h + 1 .. h + a : p[i].n = i - h
      /\ \A i \in 1 .. Len(p) : i <= h \/ i > h + a => p[i].size = "empty"
  BY DEF AnswerOf
<1>2. h \in Nat
  OBVIOUS
<1>3. w2[k] = a /\ a # -1 /\ \A c \in Calls : c # k => w2[c] = w[c]
  OBVIOUS
<1> HIDE DEF h, w2
<1>4. DOMAIN p = 1 .. Len(p) /\ Len(p) \in Nat
  BY <1>1, DomainIs
<1>5. ASSUME NEW c \in Calls, NEW i \in DOMAIN p, Data(p[i], c)
      PROVE  c = k /\ i \in h + 1 .. h + a /\ p[i].n = i - h
  <2>1. i \in h + 1 .. h + a
    BY <1>1, <1>2, <1>4, <1>5 DEF Data
  <2> QED BY <1>1, <1>4, <1>5, <2>1 DEF Data
<1>6. Increasing(p)
  <2> SUFFICES ASSUME NEW c \in Calls, NEW i \in DOMAIN p, NEW j \in DOMAIN p, i < j,
                      Data(p[i], c), Data(p[j], c)
               PROVE  p[i].n < p[j].n
    BY DEF Increasing
  <2>1. p[i].n = i - h /\ p[j].n = j - h
    BY <1>5
  <2> QED BY <1>2, <1>4, <2>1
<1>7. Numbered(p)
  <2> SUFFICES ASSUME NEW c \in Calls, NEW i \in DOMAIN p, Data(p[i], c) PROVE p[i].n # 0
    BY DEF Numbered
  <2>1. i \in h + 1 .. h + a /\ p[i].n = i - h
    BY <1>5
  <2> QED BY <1>2, <2>1
<1>8. \A c \in Calls : \A i \in DOMAIN p : Of(p[i], c) => c = k
  BY <1>1, <1>4 DEF Of
<1>9. Fresh(p, w, w2)
  BY <1>3, <1>5, <1>6, <1>7, <1>8 DEF Fresh
<1>10. \A i \in DOMAIN p : p[i] # Garbage
  BY <1>1, <1>4, FramesAre
<1> QED BY <1>9, <1>10 DEF w2


------------------------------------------------------------------------------
(***************************************************************************)
(* Each step that asks, and each of the server.                            *)
(***************************************************************************)
LEMMA Parts ==
    ASSUME OInv
    PROVE  /\ TypeOK /\ Kinds /\ wire \in Seq(Frames) /\ plan \in Seq(Frames)
           /\ inbox \in Seq(Requests) /\ answer \in [Calls -> Int]
           /\ InOrder(Stream, out, answer) /\ Requested(inbox, answer)
           /\ \A k \in Calls : ~SentBy(k, call, pc) => answer[k] = -1 /\ NotAsked(inbox, k)
BY DEF OInv, TypeOK, UnsentIsNew, NotAsked

\* The command of the call that is being made is written, and it may be its
\* marker.
LEMMA AskStep ==
    ASSUME OInv, AskewAtTheStart, TypeOK', Kinds', pc \in {"ready", "peeked"},
           call \in Calls, call' = call, pc' \in {"exec", "fire"},
           inbox' = inbox \/ AsksFor(inbox', inbox, call),
           UNCHANGED <<out, answer, wire, plan>>
    PROVE  OInv' /\ AskewAtTheStart'
<1>1. /\ inbox \in Seq(Requests) /\ inbox' \in Seq(Requests)
      /\ InOrder(Stream, out, answer) /\ Requested(inbox, answer)
      /\ \A k \in Calls : ~SentBy(k, call, pc) => answer[k] = -1 /\ NotAsked(inbox, k)
  BY Parts DEF TypeOK
<1>2. ~SentBy(call, call, pc)
  BY ScriptsAre DEF SentBy
<1>3. \A k \in Calls : ~SentBy(k, call', pc') => k # call /\ ~SentBy(k, call, pc)
  BY DEF SentBy
<1>4. answer[call] = -1 /\ NotAsked(inbox, call)
  BY <1>1, <1>2
<1>5. Requested(inbox', answer) /\ \A c : c # call /\ NotAsked(inbox, c) => NotAsked(inbox', c)
  BY <1>1, <1>4, AskedIsRequested
<1>6. UnsentIsNew'
  BY <1>1, <1>3, <1>5 DEF UnsentIsNew, NotAsked
<1>7. InOrder(Stream', out', answer')
  BY <1>1 DEF Stream
<1> QED BY <1>5, <1>6, <1>7 DEF OInv, AskewAtTheStart

LEMMA ExecStartKeeps == OInv /\ AskewAtTheStart /\ ExecStart => OInv' /\ AskewAtTheStart'
<1> SUFFICES ASSUME OInv, AskewAtTheStart, ExecStart PROVE OInv' /\ AskewAtTheStart'
  OBVIOUS
<1>1. /\ Calling("exec") /\ responses' = 0 /\ splitPending' = FALSE /\ pc' = "exec"
      /\ UNCHANGED <<call, frames, broken, out, res, wire, arriving, closed, server>>
  BY DEF ExecStart
<1>2. /\ pc = "ready" /\ script[call] = "exec" /\ script' = script
      /\ call \in Calls /\ call \in 1 .. Len(script) /\ call <= Len(script)
      /\ {hungUp', askew'} \subseteq SUBSET Calls
  BY <1>1, CallingIs
<1>3. TypeOK /\ Kinds /\ inbox \in Seq(Requests)
  BY Parts
<1>4. inbox' \in Seq(Requests) /\ (inbox' = inbox \/ AsksFor(inbox', inbox, call))
  BY <1>2, <1>3, AskedBoth DEF ExecStart
<1>5. TypeOK'
  BY <1>1, <1>2, <1>3, <1>4 DEF TypeOK, server
<1>6. Kinds'
  BY <1>1, <1>2 DEF Kinds
<1> QED BY <1>1, <1>2, <1>4, <1>5, <1>6, AskStep DEF server

LEMMA FireWriteKeeps == OInv /\ AskewAtTheStart /\ FireWrite => OInv' /\ AskewAtTheStart'
<1> SUFFICES ASSUME OInv, AskewAtTheStart, FireWrite PROVE OInv' /\ AskewAtTheStart'
  OBVIOUS
<1>1. /\ pc = "peeked" /\ TypeOK /\ Kinds /\ inbox \in Seq(Requests)
      /\ UNCHANGED <<script, responses, splitPending, frames, broken, out, wire, arriving, closed,
                     server, history>>
  BY Parts DEF FireWrite
<1>2. call \in Calls /\ call <= Len(script) /\ script[call] = "fire"
      /\ {hungUp, askew} \subseteq SUBSET Calls
  BY <1>1, CallIs DEF TypeOK, Kinds
<1>3. CASE Return("closed") /\ UNCHANGED inbox
  <2>1. {hungUp', askew'} \subseteq SUBSET Calls
    BY <1>1, <1>2 DEF history
  <2> QED BY <1>1, <1>3, <2>1, ReturningQuietly, ResultsAre
<1>4. CASE /\ pc' = "fire" /\ UNCHANGED <<call, res>>
           /\ inbox' = IF closed THEN inbox ELSE Append(inbox, [call |-> call, id |-> "cmd"])
  <2>1. inbox' \in Seq(Requests) /\ (inbox' = inbox \/ AsksFor(inbox', inbox, call))
    BY <1>1, <1>2, <1>4, AskedOne
  <2>2. TypeOK'
    BY <1>1, <1>4, <2>1 DEF TypeOK, server, history
  <2>3. Kinds'
    BY <1>1, <1>2, <1>4 DEF Kinds
  <2> QED BY <1>1, <1>2, <1>4, <2>1, <2>2, <2>3, AskStep DEF server
<1> QED BY <1>3, <1>4 DEF FireWrite

\* What the server writes for a request: p, and the counts of answers w2.
Served(p, w2) ==
    /\ p \in Seq(Frames) /\ w2 \in [Calls -> -1 .. MaxFull + 1]
    /\ Fresh(p, answer, w2) /\ Counts(w2, answer, inbox)
    /\ \A i \in DOMAIN p : p[i] # Garbage

LEMMA TakeAuthIs ==
    ASSUME TypeOK, TakeAuth, inbox[1].id = "auth"
    PROVE  /\ Served(plan', answer') /\ answer' = answer
           /\ \A i \in DOMAIN plan' : plan'[i].id \in {"other", "authOk", "authNo"}
           /\ \A i \in DOMAIN plan' : IsAuth(plan'[i]) => i = Len(plan')
<1>1. PICK n \in 0 .. AuthMax :
        plan' = [i \in 1 .. n |-> Frame(0, "other", "empty", 0)]
                \o <<Frame(0, IF accepts THEN "authOk" ELSE "authNo", "empty", 0)>>
  BY DEF TakeAuth
<1> DEFINE f == Frame(0, "other", "empty", 0)
           g == Frame(0, IF accepts THEN "authOk" ELSE "authNo", "empty", 0)
           a == [i \in 1 .. n |-> f]
<1>2. f \in Frames /\ g \in Frames /\ f.id = "other" /\ g.id \in {"authOk", "authNo"} /\ n \in Nat
  BY Limits DEF Frame, Frames, Ids, Sizes
<1>3. plan' = a \o <<g>>
  BY <1>1
<1> HIDE DEF f, g
<1>4. a \in Seq(Frames) /\ Len(a) = n /\ \A i \in 1 .. n : a[i] = f
  BY <1>2
<1> HIDE DEF a
<1>5. /\ plan' \in Seq(Frames) /\ DOMAIN plan' = 1 .. n + 1
      /\ \A i \in DOMAIN plan' : plan'[i] \in {f, g} /\ (i <= n => plan'[i] = f)
  <2>1. <<g>> \in Seq(Frames) /\ Len(<<g>>) = 1 /\ <<g>>[1] = g
    BY <1>2
  <2>2. /\ a \o <<g>> \in Seq(Frames) /\ DOMAIN (a \o <<g>>) = 1 .. n + 1
        /\ \A i \in 1 .. n + 1 : (a \o <<g>>)[i] = IF i <= n THEN a[i] ELSE <<g>>[i - n]
    BY <1>4, <2>1, Joined
  <2>3. ASSUME NEW i \in 1 .. n + 1 PROVE (a \o <<g>>)[i] \in {f, g} /\ (i <= n => (a \o <<g>>)[i] = f)
    <3>1. CASE i <= n
      BY <1>2, <1>4, <2>2, <3>1
    <3>2. CASE ~(i <= n)
      <4>1. i - n = 1
        BY <1>2, <3>2
      <4> QED BY <2>1, <2>2, <3>2, <4>1
    <3> QED BY <3>1, <3>2
  <2> QED BY <1>3, <2>2, <2>3
<1>6. \A i \in DOMAIN plan' : plan'[i].id \in {"other", "authOk", "authNo"}
  BY <1>2, <1>5
<1>7. \A i \in DOMAIN plan' : plan'[i] # Garbage /\ \A c \in Calls : ~Of(plan'[i], c) /\ ~Data(plan'[i], c)
  BY <1>6, FramesAre DEF Of, Data
<1>8. answer' = answer
  BY DEF TakeAuth
<1>9. Fresh(plan', answer, answer')
  BY <1>7, <1>8 DEF Fresh, Increasing, Numbered
<1>10. Counts(answer', answer, inbox)
  BY <1>8 DEF Counts
<1>11. ASSUME NEW i \in DOMAIN plan', IsAuth(plan'[i]) PROVE i = Len(plan')
  <2>1. ~(i <= n)
    BY <1>2, <1>5, <1>11 DEF IsAuth
  <2>2. i \in 1 .. n + 1 /\ Len(plan') \in Nat /\ 1 .. Len(plan') = 1 .. n + 1
    BY <1>5, DomainIs
  <2>3. Len(plan') = n + 1
    BY <1>2, <2>2
  <2> QED BY <1>2, <2>1, <2>2, <2>3
<1> QED BY <1>5, <1>6, <1>7, <1>8, <1>9, <1>10, <1>11 DEF Served, TypeOK

LEMMA TakeCommandIs ==
    ASSUME TypeOK, Requested(inbox, answer), inbox # <<>>, inbox[1].id = "cmd",
           TakeCommand(inbox[1].call)
    PROVE  /\ Served(plan', answer') /\ inbox[1].call \in Calls /\ answer[inbox[1].call] = -1
           /\ \E a \in 0 .. MaxFull + 1 :
                /\ AnswerOf(plan', inbox[1].call, acks, a)
                /\ answer' = [answer EXCEPT ![inbox[1].call] = a]
<1> DEFINE k == inbox[1].call
<1>1. 1 \in DOMAIN inbox /\ answer \in [Calls -> -1 .. MaxFull + 1] /\ acks \in BOOLEAN
  <2>1. inbox \in Seq(Requests)
    BY DEF TypeOK
  <2>2. 1 \in DOMAIN inbox
    BY <2>1, QueueIs
  <2> QED BY <2>2 DEF TypeOK
<1>2. k \in Calls /\ answer[k] = -1
  BY <1>1 DEF Requested, CommandOnce
<1>3. PICK full \in 0 .. MaxFull, short \in BOOLEAN, term \in BOOLEAN :
        /\ plan' = Answer(k, acks, full, short, term)
        /\ answer' = [answer EXCEPT ![k] = full + (IF short THEN 1 ELSE 0)]
  BY DEF TakeCommand
<1> DEFINE a == full + (IF short THEN 1 ELSE 0)
<1>4. a \in Nat /\ a \in 0 .. MaxFull + 1 /\ a \in -1 .. MaxFull + 1
  BY Limits
<1>5. AnswerOf(plan', k, acks, a) /\ answer' = [answer EXCEPT ![k] = a]
  BY <1>1, <1>2, <1>3, AnswerIs
<1> HIDE DEF a, k
<1>6. Fresh(plan', answer, answer') /\ \A i \in DOMAIN plan' : plan'[i] # Garbage
  <2>1. answer \in [Calls -> Int]
    BY <1>1, Limits
  <2> QED BY <1>1, <1>2, <1>4, <1>5, <2>1, AnswerIsFresh
<1>7. answer' \in [Calls -> -1 .. MaxFull + 1]
  BY <1>1, <1>2, <1>4, <1>5
<1>8. plan' \in Seq(Frames)
  BY <1>5 DEF AnswerOf
<1>9. Counts(answer', answer, inbox)
  <2>1. answer'[k] = a /\ a # -1 /\ \A c \in Calls : c # k => answer'[c] = answer[c]
    BY <1>1, <1>2, <1>4, <1>5
  <2> QED BY <1>2, <2>1 DEF Counts, k
<1>10. Served(plan', answer')
  BY <1>6, <1>7, <1>8, <1>9 DEF Served
<1> QED BY <1>2, <1>4, <1>5, <1>10 DEF k

LEMMA TakeMarkerIs ==
    ASSUME TypeOK, Requested(inbox, answer), inbox # <<>>, inbox[1].id = "end",
           TakeMarker(inbox[1].call)
    PROVE  /\ Served(plan', answer') /\ inbox[1].call \in Calls /\ answer[inbox[1].call] # -1
           /\ answer' = answer
           /\ \A i \in DOMAIN plan' : plan'[i].id = "end" /\ plan'[i].call = inbox[1].call
<1> DEFINE k == inbox[1].call
           f == Frame(k, "end", "empty", 0)
           g == Frame(k, "end", "short", 0)
<1>1. 1 \in DOMAIN inbox /\ DOMAIN inbox \subseteq Nat \ {0}
  <2>1. inbox \in Seq(Requests)
    BY DEF TypeOK
  <2> QED BY <2>1, QueueIs
<1>2. k \in Calls /\ answer[k] # -1
  <2>1. ~\E j \in DOMAIN inbox : j < 1
    BY <1>1
  <2>2. MarkerAfter(inbox, answer, 1)
    BY <1>1 DEF Requested
  <2> QED BY <2>1, <2>2 DEF MarkerAfter
<1>3. f \in Frames /\ g \in Frames /\ f.id = "end" /\ g.id = "end" /\ f.call = k /\ g.call = k
  BY <1>2, Limits DEF Frame, Frames, Ids, Sizes
<1>4. answer' = answer /\ plan' \in {<<f, g>>, <<>>}
  BY DEF TakeMarker
<1> HIDE DEF f, g, k
<1>5. plan' \in Seq(Frames) /\ \A i \in DOMAIN plan' : plan'[i] \in {f, g}
  <2>1. CASE plan' = <<f, g>>
    BY <1>3, <2>1
  <2>2. CASE plan' = <<>>
    <3>1. <<>> \in Seq(Frames) /\ DOMAIN <<>> = {}
      BY EmptySeq
    <3> QED BY <2>2, <3>1
  <2> QED BY <1>4, <2>1, <2>2
<1>6. \A i \in DOMAIN plan' : plan'[i].id = "end" /\ plan'[i].call = k
  BY <1>3, <1>5
<1>7. Fresh(plan', answer, answer')
  BY <1>2, <1>4, <1>6 DEF Fresh, Increasing, Numbered, Data, Of
<1>8. Counts(answer', answer, inbox)
  BY <1>4 DEF Counts
<1>9. \A i \in DOMAIN plan' : plan'[i] # Garbage
  BY <1>6, FramesAre
<1>10. Served(plan', answer')
  BY <1>4, <1>5, <1>7, <1>8, <1>9 DEF Served, TypeOK
<1> QED BY <1>2, <1>4, <1>6, <1>10 DEF k

LEMMA TakeIs ==
    ASSUME OInv, Take
    PROVE  /\ Served(plan', answer') /\ inbox # <<>> /\ Head(inbox) = inbox[1]
           /\ inbox' = Tail(inbox) /\ plan = <<>> /\ ~closed
           /\ UNCHANGED <<client, wire, arriving, closed, accepts, mirrors, acks, noise, history>>
<1>1. /\ TypeOK /\ Requested(inbox, answer) /\ inbox # <<>> /\ inbox \in Seq(Requests)
      /\ inbox' = Tail(inbox) /\ plan = <<>> /\ ~closed
      /\ UNCHANGED <<client, wire, arriving, closed, accepts, mirrors, acks, noise, history>>
  BY Parts DEF Take
<1>2. Head(inbox) = inbox[1]
  BY <1>1, EmptySeq, HeadTailProperties
<1>3. \/ inbox[1].id = "auth" /\ TakeAuth
      \/ inbox[1].id = "cmd" /\ TakeCommand(inbox[1].call)
      \/ inbox[1].id = "end" /\ TakeMarker(inbox[1].call)
  BY <1>2 DEF Take
<1>4. Served(plan', answer')
  BY <1>1, <1>3, TakeAuthIs, TakeCommandIs, TakeMarkerIs
<1> QED BY <1>1, <1>2, <1>4


LEMMA TakeKeeps == OInv /\ AskewAtTheStart /\ Take => OInv' /\ AskewAtTheStart'
<1> SUFFICES ASSUME OInv, AskewAtTheStart, Take PROVE OInv' /\ AskewAtTheStart'
  OBVIOUS
<1>1. /\ Served(plan', answer') /\ inbox # <<>> /\ inbox' = Tail(inbox) /\ plan = <<>>
      /\ UNCHANGED <<client, wire, arriving, closed, accepts, mirrors, acks, noise, history>>
  BY TakeIs
<1>2. /\ TypeOK /\ Kinds /\ wire \in Seq(Frames) /\ inbox \in Seq(Requests)
      /\ InOrder(Stream, out, answer) /\ Requested(inbox, answer)
      /\ \A k \in Calls : ~SentBy(k, call, pc) => answer[k] = -1 /\ NotAsked(inbox, k)
  BY Parts
<1>3. /\ plan' \in Seq(Frames) /\ answer' \in [Calls -> -1 .. MaxFull + 1]
      /\ Fresh(plan', answer, answer') /\ Counts(answer', answer, inbox)
      /\ \A i \in DOMAIN plan' : plan'[i] # Garbage
  BY <1>1 DEF Served
<1>4. /\ Tail(inbox) \in Seq(Requests) /\ Requested(Tail(inbox), answer')
      /\ \A c : NotAsked(inbox, c) => NotAsked(Tail(inbox), c)
  BY <1>1, <1>2, <1>3, TakenIsRequested
<1>5. Stream = wire
  BY <1>1, <1>2, ConcatEmptySeq DEF Stream
<1>6. InOrder(wire \o plan', out, answer')
  BY <1>2, <1>3, <1>5, MoreToCome
<1>7. TypeOK'
  BY <1>1, <1>2, <1>3, <1>4 DEF TypeOK, client, history
<1>8. Kinds'
  BY <1>1, <1>2 DEF Kinds, client
<1>9. UnsentIsNew'
  <2> SUFFICES ASSUME NEW k \in Calls, ~SentBy(k, call, pc)
               PROVE  answer'[k] = -1 /\ NotAsked(inbox', k)
    BY <1>1 DEF UnsentIsNew, NotAsked, client
  <2>1. answer[k] = -1 /\ NotAsked(inbox, k)
    BY <1>2
  <2>2. ~(inbox[1].id = "cmd" /\ inbox[1].call = k)
    <3>1. 1 \in DOMAIN inbox
      BY <1>1, <1>2, QueueIs
    <3> QED BY <2>1, <3>1 DEF NotAsked
  <2>3. answer'[k] = answer[k]
    BY <1>3, <2>2 DEF Counts
  <2> QED BY <1>1, <1>4, <2>1, <2>3
<1>10. OInv'
  BY <1>1, <1>4, <1>6, <1>7, <1>8, <1>9 DEF OInv, Stream, client
<1>11. AskewAtTheStart'
  BY <1>1, <1>3 DEF AskewAtTheStart
<1> QED BY <1>10, <1>11

\* The next frame of the plan is written.
LEMMA Written ==
    ASSUME NEW w \in Seq(Frames), NEW p \in Seq(Frames), p # <<>>
    PROVE  /\ Append(w, Head(p)) \in Seq(Frames) /\ Tail(p) \in Seq(Frames)
           /\ Append(w, Head(p)) \o Tail(p) = w \o p
           /\ Append(w, Head(p)) # <<>> /\ Len(Append(w, Head(p))) = Len(w) + 1
           /\ \A i \in 1 .. Len(w) : Append(w, Head(p))[i] = w[i]
           /\ Append(w, Head(p))[Len(w) + 1] = p[1]
           /\ \A i \in DOMAIN Tail(p) : \E j \in DOMAIN p : Tail(p)[i] = p[j]
           /\ 1 \in DOMAIN p
<1> DEFINE t == Tail(p)
           v == Append(w, Head(p))
           s == w \o p
           u == v \o t
<1>1. /\ t \in Seq(Frames) /\ Len(t) = Len(p) - 1 /\ Len(p) \in Nat \ {0} /\ Head(p) = p[1]
      /\ Head(p) \in Frames /\ \A i \in 1 .. Len(p) - 1 : t[i] = p[i + 1]
  BY EmptySeq, HeadTailProperties
<1>2. /\ v \in Seq(Frames) /\ Len(v) = Len(w) + 1 /\ Len(w) \in Nat /\ v[Len(w) + 1] = p[1]
      /\ \A i \in 1 .. Len(w) : v[i] = w[i]
  BY <1>1, AppendProperties
<1> HIDE DEF t, v
<1>3. /\ s \in Seq(Frames) /\ Len(s) = Len(w) + Len(p)
      /\ \A i \in 1 .. Len(w) + Len(p) : s[i] = IF i <= Len(w) THEN w[i] ELSE p[i - Len(w)]
  BY Joined
<1>4. /\ u \in Seq(Frames) /\ Len(u) = Len(v) + Len(t)
      /\ \A i \in 1 .. Len(v) + Len(t) : u[i] = IF i <= Len(v) THEN v[i] ELSE t[i - Len(v)]
  BY <1>1, <1>2, Joined
<1> HIDE DEF s, u
<1>5. Len(u) = Len(s)
  BY <1>1, <1>2, <1>3, <1>4
<1>6. ASSUME NEW i \in 1 .. Len(u) PROVE u[i] = s[i]
  <2>0. i \in 1 .. Len(w) + Len(p) /\ i \in 1 .. Len(v) + Len(t) /\ i \in Nat
    BY <1>3, <1>4, <1>5
  <2>1. CASE i <= Len(w)
    BY <1>2, <1>3, <1>4, <2>0, <2>1
  <2>2. CASE i = Len(w) + 1
    <3>1. u[i] = p[1]
      BY <1>2, <1>4, <2>0, <2>2
    <3>2. ~(i <= Len(w)) /\ i - Len(w) = 1
      BY <1>2, <2>2
    <3> QED BY <1>3, <2>0, <3>1, <3>2
  <2>3. CASE i > Len(w) + 1
    <3>1. u[i] = t[i - (Len(w) + 1)]
      BY <1>2, <1>4, <2>0, <2>3
    <3>2. i - (Len(w) + 1) \in 1 .. Len(p) - 1 /\ (i - (Len(w) + 1)) + 1 = i - Len(w)
      BY <1>1, <1>2, <2>0, <2>3
    <3>3. s[i] = p[i - Len(w)]
      BY <1>2, <1>3, <2>0, <2>3
    <3> QED BY <1>1, <3>1, <3>2, <3>3
  <2> QED BY <1>2, <2>0, <2>1, <2>2, <2>3
<1>7. u = s
  BY <1>3, <1>4, <1>5, <1>6, SeqEqual
<1>8. v # <<>>
  BY <1>2, DomainIs
<1>9. \A i \in DOMAIN t : i + 1 \in DOMAIN p /\ t[i] = p[i + 1]
  BY <1>1, DomainIs
<1>10. 1 \in DOMAIN p
  BY <1>1, DomainIs
<1> QED BY <1>1, <1>2, <1>7, <1>8, <1>9, <1>10 DEF t, v, s, u

LEMMA EmitKeeps == OInv /\ AskewAtTheStart /\ Emit => OInv' /\ AskewAtTheStart'
<1> SUFFICES ASSUME OInv, AskewAtTheStart, Emit PROVE OInv' /\ AskewAtTheStart'
  OBVIOUS
<1>1. /\ plan # <<>> /\ wire' = Append(wire, Head(plan)) /\ plan' = Tail(plan)
      /\ arriving' \in BOOLEAN
      /\ UNCHANGED <<client, closed, inbox, accepts, mirrors, acks, noise, answer, history>>
  BY DEF Emit, Write
<1>2. TypeOK /\ Kinds /\ wire \in Seq(Frames) /\ plan \in Seq(Frames)
  BY Parts
<1>3. /\ wire' \in Seq(Frames) /\ plan' \in Seq(Frames) /\ wire' # <<>>
      /\ wire' \o plan' = wire \o plan /\ Len(wire') = Len(wire) + 1
      /\ (\A i \in 1 .. Len(wire) : wire'[i] = wire[i]) /\ wire'[Len(wire) + 1] = plan[1]
      /\ (\A i \in DOMAIN plan' : \E j \in DOMAIN plan : plan'[i] = plan[j]) /\ 1 \in DOMAIN plan
  BY <1>1, <1>2, Written
<1>4. TypeOK'
  BY <1>1, <1>2, <1>3 DEF TypeOK, client, history
<1>5. Kinds' /\ UnsentIsNew'
  BY <1>1 DEF OInv, Kinds, UnsentIsNew, client
<1>6. OInv'
  BY <1>1, <1>3, <1>4, <1>5 DEF OInv, Stream, client
<1>7. AskewAtTheStart'
  <2>1. \A i \in DOMAIN wire' : i \in DOMAIN wire \/ i = Len(wire) + 1
    BY <1>2, <1>3, DomainIs
  <2>2. \A i \in DOMAIN wire : wire'[i] = wire[i]
    BY <1>2, <1>3, DomainIs
  <2> QED BY <1>3, <2>1, <2>2 DEF AskewAtTheStart
<1> QED BY <1>6, <1>7

LEMMA SlipInKeeps == OInv /\ AskewAtTheStart /\ SlipIn => OInv' /\ AskewAtTheStart'
<1> SUFFICES ASSUME OInv, AskewAtTheStart, SlipIn PROVE OInv' /\ AskewAtTheStart'
  OBVIOUS
<1>1. /\ wire' = Append(wire, Foreign) /\ arriving' \in BOOLEAN /\ noise < Noise
      /\ noise' = noise + 1
      /\ UNCHANGED <<client, closed, inbox, plan, accepts, mirrors, acks, answer, history>>
  BY DEF SlipIn, Write
<1>2. TypeOK /\ wire \in Seq(Frames) /\ plan \in Seq(Frames)
  BY Parts
<1>3. Append(wire, Foreign) \in Seq(Frames)
      /\ Slipped(Append(wire, Foreign) \o plan, wire \o plan, Len(wire) + 1)
  BY <1>2, SlippedIn
<1>4. InOrder(Append(wire, Foreign) \o plan, out, answer)
  <2>1. wire \o plan \in Seq(Frames) /\ Append(wire, Foreign) \o plan \in Seq(Frames)
    BY <1>2, <1>3, Joined
  <2>2. InOrder(wire \o plan, out, answer)
    BY Parts DEF Stream
  <2> QED BY <1>3, <2>1, <2>2, SlippedKeeps
<1>5. wire' # <<>> /\ Len(wire') = Len(wire) + 1 /\ Len(wire) \in Nat
      /\ (\A i \in 1 .. Len(wire) : wire'[i] = wire[i]) /\ wire'[Len(wire) + 1] = Foreign
  BY <1>1, <1>2, FramesAre, AppendProperties
<1>6. TypeOK'
  <2>1. noise' \in 0 .. Noise
    BY <1>1, <1>2, Limits DEF TypeOK
  <2> QED BY <1>1, <1>2, <1>3, <1>5, <2>1 DEF TypeOK, client, history
<1>7. Kinds' /\ UnsentIsNew'
  BY <1>1 DEF OInv, Kinds, UnsentIsNew, client
<1>8. OInv'
  BY <1>1, <1>4, <1>6, <1>7 DEF OInv, Stream, client
<1>9. AskewAtTheStart'
  <2>0. wire' \in Seq(Frames)
    BY <1>1, <1>3
  <2>1. \A i \in DOMAIN wire' : i \in DOMAIN wire \/ i = Len(wire) + 1
    BY <1>2, <1>5, <2>0, DomainIs
  <2>2. \A i \in DOMAIN wire : wire'[i] = wire[i]
    BY <1>2, <1>5, DomainIs
  <2> QED BY <1>1, <1>5, <2>1, <2>2, FramesAre DEF AskewAtTheStart
<1> QED BY <1>8, <1>9

LEMMA ArriveKeeps == OInv /\ AskewAtTheStart /\ Arrive => OInv' /\ AskewAtTheStart'
<1> SUFFICES ASSUME OInv, AskewAtTheStart, Arrive PROVE OInv' /\ AskewAtTheStart'
  OBVIOUS
<1>1. arriving' = FALSE /\ UNCHANGED <<client, wire, closed, inbox, server, history>>
  BY DEF Arrive
<1>2. TypeOK'
  BY <1>1 DEF OInv, TypeOK, client, server, history
<1> QED BY <1>1, <1>2 DEF OInv, Kinds, UnsentIsNew, Stream, AskewAtTheStart, client, server

LEMMA HangUpKeeps == OInv /\ AskewAtTheStart /\ HangUp => OInv' /\ AskewAtTheStart'
<1> SUFFICES ASSUME OInv, AskewAtTheStart, HangUp PROVE OInv' /\ AskewAtTheStart'
  OBVIOUS
<1>1. /\ closed' = TRUE /\ inbox' = <<>> /\ plan' = <<>>
      /\ UNCHANGED <<client, wire, arriving, accepts, mirrors, acks, noise, answer, history>>
  BY DEF HangUp
<1>2. TypeOK /\ wire \in Seq(Frames) /\ plan \in Seq(Frames)
  BY Parts
<1>3. <<>> \in Seq(Frames) /\ <<>> \in Seq(Requests) /\ DOMAIN <<>> = {}
  BY EmptySeq
<1>4. TypeOK'
  BY <1>1, <1>2, <1>3 DEF TypeOK, client, history
<1>5. Kinds' /\ UnsentIsNew' /\ Requested(inbox', answer')
  BY <1>1, <1>3 DEF OInv, Kinds, UnsentIsNew, Requested, client
<1>6. InOrder(wire, out, answer)
  <2>1. Thin(wire, wire \o plan)
    <3>1. /\ Len(wire) + 0 <= Len(wire \o plan)
          /\ \A i \in 1 .. Len(wire) : wire[i] = (wire \o plan)[i + 0]
      BY <1>2, Joined
    <3> QED BY <3>1 DEF Thin
  <2>2. InOrder(wire \o plan, out, answer) /\ wire \o plan \in Seq(Frames)
    BY <1>2, Parts, Joined DEF Stream
  <2> QED BY <1>2, <2>1, <2>2, ThinKeeps
<1>7. Stream' = wire
  BY <1>1, <1>2, ConcatEmptySeq DEF Stream
<1>8. OInv'
  BY <1>1, <1>4, <1>5, <1>6, <1>7 DEF OInv, client
<1> QED BY <1>1, <1>3, <1>8 DEF AskewAtTheStart

LEMMA OInvInit == Init => OInv /\ AskewAtTheStart
<1> SUFFICES ASSUME Init PROVE OInv /\ AskewAtTheStart
  OBVIOUS
<1>1. <<>> \in Seq(Frames) /\ DOMAIN <<>> = {} /\ <<>> \in Seq(Calls \X (1 .. MaxFull + 1))
  BY EmptySeq
<1>2. /\ inbox \in Seq(Requests) /\ DOMAIN inbox = {1} /\ inbox[1] = [call |-> 0, id |-> "auth"]
  BY DEF Init, Requests
<1>3. call \in 1 .. Len(script) + 1 /\ call <= Len(script) /\ script \in Scripts
  BY ScriptsAre DEF Init
<1>4. 0 \in 0 .. AuthMax + 2 /\ 0 < AuthMax /\ 0 \in 0 .. Noise /\ -1 \in -1 .. MaxFull + 1
  BY Limits
<1>5. TypeOK
  BY <1>1, <1>2, <1>3, <1>4 DEF Init, TypeOK, Results
<1>6. Kinds
  BY <1>3, <1>4 DEF Init, Kinds
<1>7. UnsentIsNew
  BY <1>2, ScriptsAre DEF Init, UnsentIsNew
<1>8. Requested(inbox, answer)
  BY <1>2 DEF Requested, CommandOnce, MarkerAfter
<1>9. Stream = <<>>
  BY <1>1, ConcatEmptySeq DEF Init, Stream
<1>10. InOrder(Stream, out, answer)
  BY <1>1, <1>9 DEF Init, InOrder, Increasing, Behind, Numbered, OwnOutput, Unanswered
<1> QED BY <1>1, <1>5, <1>6, <1>7, <1>8, <1>10 DEF OInv, AskewAtTheStart, Init

LEMMA OInvStep == OInv /\ AskewAtTheStart /\ [Next]_vars => OInv' /\ AskewAtTheStart'
<1> SUFFICES ASSUME OInv, AskewAtTheStart, [Next]_vars PROVE OInv' /\ AskewAtTheStart'
  OBVIOUS
<1>1. CASE UNCHANGED vars
  BY <1>1 DEF vars, client, server, history, OInv, TypeOK, Kinds, UnsentIsNew, Stream, AskewAtTheStart
<1>2. CASE Auth \/ Exec \/ Drain
  BY <1>2, AuthKeeps, ExecKeeps, DrainKeeps
<1>3. CASE CallFails("exec") \/ CallFails("fire")
  BY <1>3, CallFailsKeeps
<1>4. CASE ExecStart \/ FirePeek \/ FireWrite \/ FireRead
  BY <1>4, ExecStartKeeps, FirePeekKeeps, FireWriteKeeps, FireReadKeeps
<1>5. CASE Take \/ Emit \/ SlipIn \/ Arrive \/ HangUp
  BY <1>5, TakeKeeps, EmitKeeps, SlipInKeeps, ArriveKeeps, HangUpKeeps
<1> QED BY <1>1, <1>2, <1>3, <1>4, <1>5 DEF Next

\* What a call returns, also with an error, is made of packets of its own
\* answer, in the order they were written (the ids of ExecContext, drainMarker).
THEOREM AnswersAreOwn == Spec => []OwnAnswer
<1>1. OInv /\ AskewAtTheStart => OwnAnswer
  BY DEF OInv, InOrder, OwnOutput, OwnAnswer
<1> QED BY <1>1, OInvInit, OInvStep, PTL DEF Spec


------------------------------------------------------------------------------
(***************************************************************************)
(* What is still to come, as the stream changes.                           *)
(***************************************************************************)

\* The frames of call k before place q of t are those before place p of s.
SameBefore(t, q, s, p, k) ==
    /\ \A i \in DOMAIN s : i < p /\ Data(s[i], k) => \E j \in DOMAIN t : j < q /\ t[j] = s[i]
    /\ \A j \in DOMAIN t : j < q /\ Data(t[j], k) => \E i \in DOMAIN s : i < p /\ t[j] = s[i]

\* Every frame of call k in t is one of s, after the same packets.
SameOf(t, s, k) ==
    /\ \A q \in DOMAIN t : Of(t[q], k) =>
         \E p \in DOMAIN s : t[q] = s[p] /\ SameBefore(t, q, s, p, k)
    /\ SameBefore(t, Len(t) + 1, s, Len(s) + 1, k)

LEMMA SameAll ==
    ASSUME NEW s, NEW t, NEW k, NEW p, NEW q, SameBefore(t, q, s, p, k), NEW lo, NEW hi,
           AllBefore(s, k, p, lo, hi)
    PROVE  AllBefore(t, k, q, lo, hi)
<1> SUFFICES ASSUME NEW n \in lo .. hi
             PROVE  \E j \in DOMAIN t : j < q /\ Data(t[j], k) /\ t[j].n = n
  BY DEF AllBefore
<1>1. PICK i \in DOMAIN s : i < p /\ Data(s[i], k) /\ s[i].n = n
  BY DEF AllBefore
<1>2. PICK j \in DOMAIN t : j < q /\ t[j] = s[i]
  BY <1>1 DEF SameBefore
<1> QED BY <1>1, <1>2

LEMMA SameInPlace ==
    ASSUME NEW s, NEW t, NEW k, NEW p, NEW q, SameBefore(t, q, s, p, k), t[q] = s[p],
           NEW m, NEW a, NEW b, InPlace(s, k, p, m, a, b)
    PROVE  InPlace(t, k, q, m, a, b)
<1>1. \A lo, hi : AllBefore(s, k, p, lo, hi) => AllBefore(t, k, q, lo, hi)
  BY SameAll
<1>2. (\A i \in DOMAIN s : i < p => ~Data(s[i], k)) => \A j \in DOMAIN t : j < q => ~Data(t[j], k)
  BY DEF SameBefore
<1> QED BY <1>1, <1>2 DEF InPlace

\* A frame of another call is in place anywhere.
LEMMA OthersInPlace ==
    ASSUME NEW t, NEW k, NEW q, NEW m, NEW a, NEW b, ~Of(t[q], k)
    PROVE  InPlace(t, k, q, m, a, b)
BY DEF InPlace, Of, Data, Blank, Marks

LEMMA SameToCome ==
    ASSUME NEW s, NEW t, NEW k, SameOf(t, s, k), NEW m, NEW a, NEW b, NEW c,
           ToCome(s, k, m, a, b, c)
    PROVE  ToCome(t, k, m, a, b, c)
<1>1. ASSUME NEW q \in DOMAIN t PROVE InPlace(t, k, q, m, a, b)
  <2>1. CASE Of(t[q], k)
    <3>1. PICK p \in DOMAIN s : t[q] = s[p] /\ SameBefore(t, q, s, p, k)
      BY <2>1 DEF SameOf
    <3>2. InPlace(s, k, p, m, a, b)
      BY DEF ToCome
    <3> QED BY <3>1, <3>2, SameInPlace
  <2>2. CASE ~Of(t[q], k)
    BY <2>2, OthersInPlace
  <2> QED BY <2>1, <2>2
<1>2. AllBefore(s, k, Len(s) + 1, m + 1, a) => AllBefore(t, k, Len(t) + 1, m + 1, a)
  BY SameAll DEF SameOf
<1> QED BY <1>1, <1>2 DEF ToCome

\* Nothing has been read of a call that is not answered yet.
LEMMA NoneToCome ==
    ASSUME NEW s, NEW k, \A i \in DOMAIN s : ~Of(s[i], k), NEW b, NEW c
    PROVE  ToCome(s, k, 0, -1, b, c)
BY OthersInPlace DEF ToCome

LEMMA RestOf ==
    ASSUME NEW s \in Seq(Frames), NEW t \in Seq(Frames), Rest(t, s)
    PROVE  /\ 1 \in DOMAIN s /\ DOMAIN s \subseteq Nat /\ DOMAIN t \subseteq Nat
           /\ Len(s) \in Nat /\ Len(t) + 1 = Len(s)
           /\ \A j \in DOMAIN t : j + 1 \in DOMAIN s /\ t[j] = s[j + 1]
           /\ \A i \in DOMAIN s : i # 1 => i - 1 \in DOMAIN t /\ t[i - 1] = s[i]
<1>1. /\ DOMAIN s = 1 .. Len(s) /\ Len(s) \in Nat /\ Len(s) # 0 /\ DOMAIN t = 1 .. Len(t)
      /\ Len(t) = Len(s) - 1 /\ \A i \in 1 .. Len(s) - 1 : t[i] = s[i + 1]
  BY DomainIs DEF Rest
<1>2. ASSUME NEW i \in DOMAIN s, i # 1 PROVE i - 1 \in DOMAIN t /\ t[i - 1] = s[i]
  <2>1. i - 1 \in 1 .. Len(s) - 1 /\ (i - 1) + 1 = i
    BY <1>1, <1>2
  <2> QED BY <1>1, <2>1
<1> QED BY <1>1, <1>2

\* A frame that is no packet of the output is read.
LEMMA RestIsSame ==
    ASSUME NEW s \in Seq(Frames), NEW t \in Seq(Frames), Rest(t, s), NEW k, ~Data(s[1], k)
    PROVE  SameOf(t, s, k)
<1>1. /\ 1 \in DOMAIN s /\ DOMAIN s \subseteq Nat /\ DOMAIN t \subseteq Nat
      /\ Len(s) \in Nat /\ Len(t) + 1 = Len(s)
      /\ \A j \in DOMAIN t : j + 1 \in DOMAIN s /\ t[j] = s[j + 1]
      /\ \A i \in DOMAIN s : i # 1 => i - 1 \in DOMAIN t /\ t[i - 1] = s[i]
  BY RestOf
<1>2. ASSUME NEW q \in Nat PROVE SameBefore(t, q, s, q + 1, k)
  <2>1. ASSUME NEW i \in DOMAIN s, i < q + 1, Data(s[i], k) PROVE \E j \in DOMAIN t : j < q /\ t[j] = s[i]
    <3>1. i - 1 \in DOMAIN t /\ t[i - 1] = s[i] /\ i - 1 < q
      BY <1>1, <2>1
    <3> QED BY <3>1
  <2>2. ASSUME NEW j \in DOMAIN t, j < q PROVE \E i \in DOMAIN s : i < q + 1 /\ t[j] = s[i]
    <3>1. j + 1 \in DOMAIN s /\ t[j] = s[j + 1] /\ j + 1 < q + 1
      BY <1>1, <2>2
    <3> QED BY <3>1
  <2> QED BY <2>1, <2>2 DEF SameBefore
<1>3. \A q \in DOMAIN t : \E p \in DOMAIN s : t[q] = s[p] /\ SameBefore(t, q, s, p, k)
  BY <1>1, <1>2
<1>4. SameBefore(t, Len(t) + 1, s, Len(s) + 1, k)
  <2>1. Len(t) + 1 \in Nat
    BY <1>1
  <2> QED BY <1>1, <1>2, <2>1
<1> QED BY <1>3, <1>4 DEF SameOf

\* What the frame at the start of the stream says.
LEMMA FirstInPlace ==
    ASSUME NEW s \in Seq(Frames), Len(s) # 0, NEW k, NEW m \in Nat, NEW a \in Int, NEW b, NEW c,
           ToCome(s, k, m, a, b, c)
    PROVE  /\ Data(s[1], k) => s[1].n = m + 1 /\ m + 1 <= a /\ (s[1].size = "short" => m + 1 = a)
           /\ Blank(s[1], k) => a <= m \/ (b /\ m = 0)
           /\ Marks(s[1], k) => a <= m
<1>1. 1 \in DOMAIN s /\ \A i \in DOMAIN s : ~(i < 1)
  BY DomainIs
<1>2. InPlace(s, k, 1, m, a, b)
  BY <1>1 DEF ToCome
<1>3. ASSUME NEW hi \in Int, AllBefore(s, k, 1, m + 1, hi) PROVE hi <= m
  <2>1. ~(m + 1 \in m + 1 .. hi)
    BY <1>1, <1>3 DEF AllBefore
  <2> QED BY <2>1
<1>4. ASSUME Data(s[1], k)
      PROVE  s[1].n = m + 1 /\ m + 1 <= a /\ (s[1].size = "short" => m + 1 = a)
  <2>1. s[1].n \in m + 1 .. a /\ AllBefore(s, k, 1, m + 1, s[1].n - 1)
        /\ (s[1].size = "short" => s[1].n = a)
    BY <1>2, <1>4 DEF InPlace
  <2>2. s[1].n - 1 <= m
    BY <1>3, <2>1
  <2> QED BY <2>1, <2>2
<1>5. Blank(s[1], k) => a <= m \/ (b /\ m = 0)
  BY <1>2, <1>3 DEF InPlace
<1>6. Marks(s[1], k) => a <= m
  BY <1>2, <1>3 DEF InPlace
<1> QED BY <1>4, <1>5, <1>6

\* A packet of the output is read.
LEMMA DataToCome ==
    ASSUME NEW s \in Seq(Frames), NEW t \in Seq(Frames), Rest(t, s), Increasing(s),
           NEW k \in Calls, Data(s[1], k), NEW m \in Nat, NEW a \in Int, NEW b, NEW c,
           ToCome(s, k, m, a, b, c)
    PROVE  ToCome(t, k, m + 1, a, b, c)
<1>1. /\ 1 \in DOMAIN s /\ DOMAIN s \subseteq Nat /\ DOMAIN t \subseteq Nat
      /\ Len(s) \in Nat /\ Len(t) + 1 = Len(s)
      /\ \A j \in DOMAIN t : j + 1 \in DOMAIN s /\ t[j] = s[j + 1]
      /\ \A i \in DOMAIN s : i # 1 => i - 1 \in DOMAIN t /\ t[i - 1] = s[i]
  BY RestOf
<1>2. s[1].n = m + 1
  <2>1. Len(s) # 0
    BY DEF Rest
  <2> QED BY <2>1, FirstInPlace
<1>3. ASSUME NEW q \in Nat, NEW hi \in Int, AllBefore(s, k, q + 1, m + 1, hi)
      PROVE  AllBefore(t, k, q, (m + 1) + 1, hi)
  <2> SUFFICES ASSUME NEW n \in (m + 1) + 1 .. hi
               PROVE  \E j \in DOMAIN t : j < q /\ Data(t[j], k) /\ t[j].n = n
    BY DEF AllBefore
  <2>1. n \in m + 1 .. hi /\ n # m + 1
    OBVIOUS
  <2>2. PICK i \in DOMAIN s : i < q + 1 /\ Data(s[i], k) /\ s[i].n = n
    BY <1>3, <2>1 DEF AllBefore
  <2>3. i # 1
    BY <1>2, <2>1, <2>2
  <2>4. i - 1 \in DOMAIN t /\ t[i - 1] = s[i] /\ i - 1 < q
    BY <1>1, <2>2, <2>3
  <2> QED BY <2>2, <2>4
<1>4. ASSUME NEW q \in DOMAIN t PROVE InPlace(t, k, q, m + 1, a, b)
  <2>0. q \in Nat /\ q + 1 \in DOMAIN s /\ t[q] = s[q + 1] /\ 1 < q + 1
    BY <1>1
  <2>1. InPlace(s, k, q + 1, m, a, b)
    BY <2>0 DEF ToCome
  <2>2. ASSUME Data(t[q], k)
        PROVE  /\ t[q].n \in (m + 1) + 1 .. a
               /\ AllBefore(t, k, q, (m + 1) + 1, t[q].n - 1)
               /\ t[q].size = "short" => t[q].n = a
    <3>1. /\ t[q].n \in m + 1 .. a /\ AllBefore(s, k, q + 1, m + 1, t[q].n - 1)
          /\ t[q].size = "short" => t[q].n = a
      BY <2>0, <2>1, <2>2 DEF InPlace
    <3>2. s[1].n < t[q].n
      BY <1>1, <2>0, <2>2 DEF Increasing
    <3>3. t[q].n \in (m + 1) + 1 .. a /\ t[q].n - 1 \in Int
      BY <1>2, <3>1, <3>2
    <3> QED BY <1>3, <2>0, <3>1, <3>3
  <2>3. AllBefore(s, k, q + 1, m + 1, a) => AllBefore(t, k, q, (m + 1) + 1, a)
    BY <1>3, <2>0
  <2>4. ~\A i \in DOMAIN s : i < q + 1 => ~Data(s[i], k)
    BY <1>1, <2>0
  <2>5. Blank(t[q], k) \/ Marks(t[q], k) => AllBefore(t, k, q, (m + 1) + 1, a)
    BY <2>0, <2>1, <2>3, <2>4 DEF InPlace
  <2> QED BY <2>2, <2>5 DEF InPlace
<1>5. ~c /\ a # -1 => AllBefore(t, k, Len(t) + 1, (m + 1) + 1, a)
  <2> SUFFICES ASSUME ~c, a # -1 PROVE AllBefore(t, k, Len(s), (m + 1) + 1, a)
    BY <1>1
  <2>1. AllBefore(s, k, Len(s) + 1, m + 1, a)
    BY DEF ToCome
  <2> QED BY <1>1, <1>3, <2>1
<1> QED BY <1>4, <1>5 DEF ToCome

LEMMA SlippedIsSame ==
    ASSUME NEW s \in Seq(Frames), NEW t \in Seq(Frames), NEW v, Slipped(t, s, v), NEW k \in Calls
    PROVE  SameOf(t, s, k)
<1>1. /\ v \in Nat \ {0} /\ Len(t) = Len(s) + 1 /\ v <= Len(t) /\ t[v] = Foreign
      /\ \A i \in DOMAIN t : i < v => t[i] = s[i]
      /\ \A i \in DOMAIN t : i > v => t[i] = s[i - 1]
      /\ DOMAIN t = 1 .. Len(t) /\ DOMAIN s = 1 .. Len(s) /\ Len(s) \in Nat
  BY DomainIs DEF Slipped
<1>2. ~Data(t[v], k)
  BY <1>1, FramesAre DEF Data, Of
<1> DEFINE Now(i) == IF i < v THEN i ELSE i + 1
<1>3. ASSUME NEW i \in DOMAIN s PROVE Now(i) \in DOMAIN t /\ t[Now(i)] = s[i] /\ Was(Now(i), v) = i
  <2>1. CASE i < v
    BY <1>1, <2>1 DEF Was
  <2>2. CASE ~(i < v)
    <3>1. i + 1 \in DOMAIN t /\ i + 1 > v /\ (i + 1) - 1 = i
      BY <1>1, <2>2
    <3> QED BY <1>1, <2>2, <3>1 DEF Was
  <2> QED BY <2>1, <2>2
<1>4. ASSUME NEW j \in DOMAIN t, j # v PROVE Was(j, v) \in DOMAIN s /\ t[j] = s[Was(j, v)]
  <2>1. CASE j < v
    BY <1>1, <2>1 DEF Was
  <2>2. CASE j > v
    BY <1>1, <2>2 DEF Was
  <2> QED BY <1>1, <1>4, <2>1, <2>2
<1>5. ASSUME NEW q \in Nat, NEW p \in Nat, \/ q < v /\ p = q
                                           \/ q > v /\ p = q - 1
      PROVE  SameBefore(t, q, s, p, k)
  <2>1. ASSUME NEW i \in DOMAIN s, i < p PROVE \E j \in DOMAIN t : j < q /\ t[j] = s[i]
    <3>1. Now(i) < q
      BY <1>1, <1>5, <2>1
    <3> QED BY <1>3, <3>1
  <2>2. ASSUME NEW j \in DOMAIN t, j < q, Data(t[j], k) PROVE \E i \in DOMAIN s : i < p /\ t[j] = s[i]
    <3>1. j # v
      BY <1>2, <2>2
    <3>2. Was(j, v) < p
      BY <1>1, <1>5, <2>2, <3>1 DEF Was
    <3> QED BY <1>4, <3>1, <3>2
  <2> QED BY <2>1, <2>2 DEF SameBefore
<1>6. ASSUME NEW q \in DOMAIN t, Of(t[q], k)
      PROVE  \E p \in DOMAIN s : t[q] = s[p] /\ SameBefore(t, q, s, p, k)
  <2>1. q # v
    BY <1>1, <1>6, FramesAre
  <2>2. Was(q, v) \in DOMAIN s /\ t[q] = s[Was(q, v)]
    BY <1>4, <2>1
  <2>3. \/ q < v /\ Was(q, v) = q
        \/ q > v /\ Was(q, v) = q - 1
    BY <1>1, <2>1 DEF Was
  <2>4. q \in Nat /\ Was(q, v) \in Nat
    BY <1>1, <2>2
  <2> QED BY <1>5, <2>2, <2>3, <2>4
<1>7. SameBefore(t, Len(t) + 1, s, Len(s) + 1, k)
  <2>1. Len(t) + 1 \in Nat /\ Len(s) + 1 \in Nat /\ Len(t) + 1 > v /\ Len(s) + 1 = (Len(t) + 1) - 1
    BY <1>1
  <2> QED BY <1>5, <2>1
<1> QED BY <1>6, <1>7 DEF SameOf


\* The start of a stream.
Starts(s, t) ==
    /\ Len(s) \in Nat /\ Len(t) \in Nat /\ Len(s) <= Len(t)
    /\ DOMAIN s = 1 .. Len(s) /\ DOMAIN t = 1 .. Len(t)
    /\ \A i \in 1 .. Len(s) : t[i] = s[i]

LEMMA StartOf ==
    ASSUME NEW s \in Seq(Frames), NEW p \in Seq(Frames)
    PROVE  /\ s \o p \in Seq(Frames) /\ Starts(s, s \o p)
           /\ Len(s \o p) = Len(s) + Len(p) /\ Len(p) \in Nat
           /\ \A i \in DOMAIN (s \o p) : i \in DOMAIN s \/ (i - Len(s) \in DOMAIN p /\ i > Len(s) /\ (s \o p)[i] = p[i - Len(s)])
           /\ \A i \in DOMAIN p : Len(s) + i \in DOMAIN (s \o p) /\ (s \o p)[Len(s) + i] = p[i]
<1> DEFINE t == s \o p
           n == Len(s)
<1>1. /\ t \in Seq(Frames) /\ Len(t) = n + Len(p) /\ n \in Nat /\ Len(p) \in Nat
      /\ DOMAIN t = 1 .. n + Len(p) /\ DOMAIN s = 1 .. n /\ DOMAIN p = 1 .. Len(p)
      /\ \A i \in 1 .. n + Len(p) : t[i] = IF i <= n THEN s[i] ELSE p[i - n]
  BY Joined, DomainIs
<1> HIDE DEF t, n
<1>2. ASSUME NEW i \in DOMAIN t
      PROVE  i \in DOMAIN s \/ (i - n \in DOMAIN p /\ i > n /\ t[i] = p[i - n])
  BY <1>1
<1>3. ASSUME NEW i \in DOMAIN p PROVE n + i \in DOMAIN t /\ t[n + i] = p[i]
  <2>1. n + i \in 1 .. n + Len(p) /\ ~(n + i <= n) /\ (n + i) - n = i
    BY <1>1
  <2> QED BY <1>1, <2>1
<1>4. Starts(s, t)
  <2>1. \A i \in 1 .. n : t[i] = s[i]
    BY <1>1
  <2>2. n <= Len(t) /\ Len(t) \in Nat /\ DOMAIN t = 1 .. Len(t)
    BY <1>1
  <2> QED BY <1>1, <2>1, <2>2 DEF Starts, n
<1> QED BY <1>1, <1>2, <1>3, <1>4 DEF t, n

LEMMA StartIsSame ==
    ASSUME NEW s, NEW t, Starts(s, t), NEW k, NEW q \in 1 .. Len(s) + 1
    PROVE  SameBefore(t, q, s, q, k) /\ SameBefore(s, q, t, q, k)
<1>1. /\ Len(s) \in Nat /\ Len(t) \in Nat /\ Len(s) <= Len(t)
      /\ DOMAIN s = 1 .. Len(s) /\ DOMAIN t = 1 .. Len(t)
      /\ \A i \in 1 .. Len(s) : t[i] = s[i]
  BY DEF Starts
<1>2. \A i \in DOMAIN s : i \in DOMAIN t /\ t[i] = s[i]
  BY <1>1
<1>3. \A j \in DOMAIN t : j < q => j \in DOMAIN s /\ t[j] = s[j]
  BY <1>1
<1> QED BY <1>2, <1>3 DEF SameBefore

\* The server hangs up.
LEMMA CutToCome ==
    ASSUME NEW s, NEW t, Starts(s, t), NEW k, NEW m, NEW a, NEW b, NEW c,
           ToCome(t, k, m, a, b, c)
    PROVE  ToCome(s, k, m, a, b, TRUE)
<1>1. DOMAIN s = 1 .. Len(s) /\ Len(s) \in Nat /\ \A i \in DOMAIN s : i \in DOMAIN t /\ t[i] = s[i]
  BY DEF Starts
<1>2. ASSUME NEW q \in DOMAIN s PROVE InPlace(s, k, q, m, a, b)
  <2>1. InPlace(t, k, q, m, a, b) /\ s[q] = t[q]
    BY <1>1 DEF ToCome
  <2>2. SameBefore(s, q, t, q, k)
    <3>1. q \in 1 .. Len(s) + 1
      BY <1>1
    <3> QED BY <3>1, StartIsSame
  <2> QED BY <2>1, <2>2, SameInPlace
<1> QED BY <1>2 DEF ToCome

\* Frames that are no answer to call k, or come after all of it.
Nothing(p, k, a) ==
    \A i \in DOMAIN p : ~Of(p[i], k) \/ (a # -1 /\ p[i].id = "end")

LEMMA OthersToCome ==
    ASSUME NEW s \in Seq(Frames), NEW p \in Seq(Frames), NEW k, NEW m, NEW a, NEW b,
           Nothing(p, k, a), ToCome(s, k, m, a, b, FALSE), NEW c
    PROVE  ToCome(s \o p, k, m, a, b, c)
<1> DEFINE t == s \o p
           n == Len(s)
<1>1. /\ t \in Seq(Frames) /\ Starts(s, t) /\ Len(t) = n + Len(p) /\ Len(p) \in Nat /\ n \in Nat
      /\ \A i \in DOMAIN t : i \in DOMAIN s \/ (i - n \in DOMAIN p /\ i > n /\ t[i] = p[i - n])
      /\ DOMAIN s = 1 .. n /\ DOMAIN t \subseteq Nat
  BY StartOf DEF Starts
<1> HIDE DEF t, n
<1>2. ASSUME NEW q \in Nat, q > n, a # -1 PROVE AllBefore(t, k, q, m + 1, a)
  <2>1. AllBefore(s, k, n + 1, m + 1, a)
    BY <1>2 DEF ToCome, n
  <2>2. SameBefore(t, n + 1, s, n + 1, k)
    <3>1. n + 1 \in 1 .. Len(s) + 1
      BY <1>1 DEF n
    <3> QED BY <1>1, <3>1, StartIsSame
  <2>3. AllBefore(t, k, n + 1, m + 1, a)
    BY <2>1, <2>2, SameAll
  <2>4. \A i \in DOMAIN t : i < n + 1 => i < q
    BY <1>1, <1>2
  <2> QED BY <2>3, <2>4 DEF AllBefore
<1>3. ASSUME NEW q \in DOMAIN t PROVE InPlace(t, k, q, m, a, b)
  <2>1. CASE q \in DOMAIN s
    <3>1. InPlace(s, k, q, m, a, b) /\ t[q] = s[q]
      BY <1>1, <2>1 DEF ToCome, Starts, n
    <3>2. SameBefore(t, q, s, q, k)
      <4>1. q \in 1 .. Len(s) + 1
        BY <1>1, <2>1 DEF n
      <4> QED BY <1>1, <4>1, StartIsSame
    <3> QED BY <3>1, <3>2, SameInPlace
  <2>2. CASE Of(t[q], k) /\ q \notin DOMAIN s
    <3>1. q \in Nat /\ q > n /\ a # -1 /\ t[q].id = "end"
      BY <1>1, <2>2 DEF Nothing
    <3>2. AllBefore(t, k, q, m + 1, a)
      BY <1>2, <3>1
    <3> QED BY <3>1, <3>2 DEF InPlace, Data, Blank
  <2>3. CASE ~Of(t[q], k)
    BY <2>3, OthersInPlace
  <2> QED BY <2>1, <2>2, <2>3
<1>4. ~c /\ a # -1 => AllBefore(t, k, Len(t) + 1, m + 1, a)
  <2>1. Len(t) + 1 \in Nat /\ Len(t) + 1 > n
    BY <1>1
  <2> QED BY <1>2, <2>1
<1>5. ToCome(t, k, m, a, b, c)
  BY <1>3, <1>4 DEF ToCome
<1> QED BY <1>5 DEF t

LEMMA AnswerToCome ==
    ASSUME NEW s \in Seq(Frames), NEW p, NEW k, NEW a \in Nat, NEW b \in BOOLEAN,
           AnswerOf(p, k, b, a), \A i \in DOMAIN s : ~Of(s[i], k), NEW c
    PROVE  ToCome(s \o p, k, 0, a, b, c)
<1> DEFINE t == s \o p
           n == Len(s)
           h == IF b THEN 1 ELSE 0
<1>1. /\ p \in Seq(Frames) /\ h + a <= Len(p)
      /\ \A i \in 1 .. Len(p) : p[i].call = k /\ p[i].id = "cmd"
      /\ \A i \in h + 1 .. h + a :
           p[i].size # "empty" /\ p[i].n = i - h /\ (p[i].size = "short" => i - h = a)
      /\ \A i \in 1 .. Len(p) : i <= h \/ i > h + a => p[i].size = "empty"
  BY DEF AnswerOf
<1>2. h \in Nat /\ (h > 0 => b)
  OBVIOUS
<1>3. /\ Len(t) = n + Len(p) /\ Len(p) \in Nat /\ n \in Nat
      /\ \A i \in DOMAIN t : i \in DOMAIN s \/ (i - n \in DOMAIN p /\ i > n /\ t[i] = p[i - n])
      /\ \A i \in DOMAIN p : n + i \in DOMAIN t /\ t[n + i] = p[i]
      /\ DOMAIN t \subseteq Nat
      /\ \A i \in DOMAIN s : t[i] = s[i]
  BY <1>1, StartOf DEF Starts
<1>4. DOMAIN p = 1 .. Len(p) /\ DOMAIN s = 1 .. n
  BY <1>1, DomainIs
<1> HIDE DEF t, n, h
<1>5. ASSUME NEW i \in Nat, NEW hi \in Int, hi <= a, h + hi < i PROVE AllBefore(t, k, n + i, 0 + 1, hi)
  <2> SUFFICES ASSUME NEW x \in 0 + 1 .. hi
               PROVE  \E j \in DOMAIN t : j < n + i /\ Data(t[j], k) /\ t[j].n = x
    BY DEF AllBefore
  <2>1. h + x \in 1 .. Len(p) /\ h + x \in h + 1 .. h + a /\ h + x < i /\ (h + x) - h = x
    BY <1>1, <1>2, <1>3, <1>5
  <2>2. Data(p[h + x], k) /\ p[h + x].n = x
    BY <1>1, <2>1 DEF Data
  <2>3. n + (h + x) \in DOMAIN t /\ t[n + (h + x)] = p[h + x] /\ n + (h + x) < n + i
    BY <1>2, <1>3, <1>4, <2>1
  <2> QED BY <2>2, <2>3
<1>6. ASSUME NEW i \in DOMAIN p PROVE InPlace(t, k, n + i, 0, a, b)
  <2>0. i \in Nat /\ i \in 1 .. Len(p) /\ t[n + i] = p[i]
    BY <1>3, <1>4
  <2>1. ASSUME Data(p[i], k)
        PROVE  /\ p[i].n \in 0 + 1 .. a /\ AllBefore(t, k, n + i, 0 + 1, p[i].n - 1)
               /\ p[i].size = "short" => p[i].n = a
    <3>1. i \in h + 1 .. h + a
      BY <1>1, <1>2, <2>0, <2>1 DEF Data
    <3>2. p[i].n = i - h /\ (p[i].size = "short" => i - h = a)
      BY <1>1, <3>1
    <3>3. p[i].n \in 0 + 1 .. a /\ p[i].n - 1 \in Int /\ p[i].n - 1 <= a /\ h + (p[i].n - 1) < i
      BY <1>2, <3>1, <3>2
    <3> QED BY <1>5, <2>0, <3>2, <3>3
  <2>2. ASSUME Blank(p[i], k)
        PROVE  \/ AllBefore(t, k, n + i, 0 + 1, a)
               \/ b /\ \A j \in DOMAIN t : j < n + i => ~Data(t[j], k)
    <3>1. ~(i \in h + 1 .. h + a)
      BY <1>1, <2>2 DEF Blank
    <3>2. CASE i > h + a
      BY <1>2, <1>5, <2>0, <3>2
    <3>3. CASE i <= h
      <4>1. b
        BY <1>2, <2>0, <3>3
      <4>2. ASSUME NEW j \in DOMAIN t, j < n + i PROVE ~Data(t[j], k)
        <5>1. CASE j \in DOMAIN s
          BY <1>3, <5>1 DEF Data, Of
        <5>2. CASE j - n \in DOMAIN p /\ t[j] = p[j - n]
          <6>1. j - n \in 1 .. Len(p) /\ j - n <= h
            BY <1>2, <1>3, <1>4, <2>0, <3>3, <4>2, <5>2
          <6> QED BY <1>1, <5>2, <6>1 DEF Data
        <5> QED BY <1>3, <5>1, <5>2
      <4> QED BY <4>1, <4>2
    <3> QED BY <1>2, <2>0, <3>1, <3>2, <3>3
  <2>3. ~Marks(p[i], k)
    BY <1>1, <2>0 DEF Marks
  <2> QED BY <2>0, <2>1, <2>2, <2>3 DEF InPlace
<1>7. ASSUME NEW q \in DOMAIN t PROVE InPlace(t, k, q, 0, a, b)
  <2>1. CASE q \in DOMAIN s
    <3>1. ~Of(t[q], k)
      BY <1>3, <2>1
    <3> QED BY <3>1, OthersInPlace
  <2>2. CASE q - n \in DOMAIN p
    <3>1. n + (q - n) = q
      BY <1>3
    <3> QED BY <1>6, <2>2, <3>1
  <2> QED BY <1>3, <2>1, <2>2
<1>8. AllBefore(t, k, Len(t) + 1, 0 + 1, a)
  <2>1. Len(p) + 1 \in Nat /\ a \in Int /\ a <= a /\ h + a < Len(p) + 1 /\ n + (Len(p) + 1) = Len(t) + 1
    BY <1>1, <1>2, <1>3
  <2>2. AllBefore(t, k, n + (Len(p) + 1), 0 + 1, a)
    BY <1>5, <2>1
  <2> QED BY <2>1, <2>2
<1>9. ToCome(t, k, 0, a, b, c)
  BY <1>7, <1>8 DEF ToCome
<1> QED BY <1>9 DEF t


------------------------------------------------------------------------------
(***************************************************************************)
(* What the client knows, and when that is all.                            *)
(***************************************************************************)
LEMMA KnownAll ==
    ASSUME NEW o, Len(o) \in Nat, NEW k, NEW a \in Int, a >= -1, a # -1, NEW sp, NEW r, NEW b,
           Known(o, k, a, sp, r, b), a <= Len(o) \/ (b /\ Len(o) = 0)
    PROVE  HasAll(k, o, a, b)
<1>1. o = [i \in 1 .. Len(o) |-> <<k, i>>] /\ (Len(o) > 0 => Len(o) <= a)
  BY DEF Known
<1>2. CASE a <= Len(o)
  <2>1. a = Len(o)
    <3>1. \A m \in Nat : (m > 0 => m <= a) /\ a <= m => a = m
      OBVIOUS
    <3> QED BY <1>1, <1>2, <3>1
  <2> QED BY <1>1, <2>1 DEF HasAll
<1>3. CASE b /\ Len(o) = 0
  <2>1. 1 .. Len(o) = {}
    BY <1>3
  <2>2. o = <<>>
    BY <1>1, <2>1
  <2> QED BY <1>3, <2>2 DEF HasAll
<1> QED BY <1>2, <1>3

\* Silence after a packet that promises no other.
LEMMA KnownAtLast ==
    ASSUME NEW o, Len(o) \in Nat, NEW k, NEW a \in Int, a >= -1, NEW sp, NEW r, NEW b,
           Known(o, k, a, sp, r, b), r > 0, ~sp
    PROVE  HasAll(k, o, a, b)
<1>1. a # -1 /\ (Len(o) > 0 \/ b \/ a = 0) /\ (Len(o) > 0 => Len(o) = a)
  BY DEF Known
<1>2. a <= Len(o) \/ (b /\ Len(o) = 0)
  BY <1>1
<1> QED BY <1>1, <1>2, KnownAll

\* A packet is added to what is known.
LEMMA KnownMore ==
    ASSUME NEW o \in Output, NEW k \in Calls, NEW o2, NEW n, o2 = Append(o, <<k, n>>),
           n \in 1 .. MaxFull + 1, n = Len(o) + 1,
           NEW a \in Int, n <= a, NEW sp, NEW sp2, NEW r, NEW r2, NEW b,
           ~sp2 => n = a, Known(o, k, a, sp, r, b)
    PROVE  Known(o2, k, a, sp2, r2, b)
<1> DEFINE e == <<k, n>>
<1>1. e \in Calls \X (1 .. MaxFull + 1)
  OBVIOUS
<1>2. /\ Append(o, e) \in Output /\ Len(Append(o, e)) = Len(o) + 1 /\ Len(o) \in Nat
      /\ DOMAIN Append(o, e) = 1 .. Len(o) + 1
      /\ \A i \in 1 .. Len(o) : Append(o, e)[i] = o[i]
      /\ Append(o, e)[Len(o) + 1] = e
  BY <1>1, Appended
<1>3. o2 \in Output /\ Len(o2) = n /\ DOMAIN o2 = 1 .. n
      /\ (\A i \in 1 .. Len(o) : o2[i] = o[i]) /\ o2[n] = e
  BY <1>2
<1>4. o = [i \in 1 .. Len(o) |-> <<k, i>>]
  BY DEF Known
<1>5. \A i \in 1 .. n : o2[i] = <<k, i>>
  <2>1. \A i \in 1 .. n : i \in 1 .. Len(o) \/ i = n
    BY <1>2
  <2>2. \A i \in 1 .. Len(o) : o[i] = <<k, i>>
    BY <1>4
  <2> QED BY <1>3, <2>1, <2>2
<1>6. o2 = [i \in 1 .. n |-> <<k, i>>]
  <2>1. o2 \in [1 .. n -> Calls \X (1 .. MaxFull + 1)]
    BY <1>3, LenProperties DEF Output
  <2> QED BY <1>5, <2>1
<1>7. n > 0 /\ a # -1
  BY <1>2
<1>8. o2 = [i \in 1 .. Len(o2) |-> <<k, i>>]
  BY <1>3, <1>6
<1>9. Len(o2) > 0 /\ Len(o2) <= a /\ Len(o2) # 0 /\ (~sp2 => Len(o2) = a)
  BY <1>3, <1>7
<1> HIDE DEF e
<1> QED BY <1>7, <1>8, <1>9 DEF Known

------------------------------------------------------------------------------
(***************************************************************************)
(* Each step of the client.                                                *)
(***************************************************************************)
LEMMA Callers ==
    ASSUME OInv, pc # "end"
    PROVE  call \in Calls /\ call <= Len(script) /\ call \in Nat /\ Calls \subseteq Nat \ {0}
           /\ out \in [Calls -> Output] /\ out[call] \in Output /\ Len(out[call]) \in Nat
           /\ answer \in [Calls -> -1 .. MaxFull + 1] /\ answer[call] \in Int /\ answer[call] >= -1
           /\ script[call] \in {"exec", "fire"}
<1>1. TypeOK /\ Kinds
  BY DEF OInv
<1>2. call <= Len(script) /\ call \in 1 .. Len(script) + 1 /\ script \in Scripts
  BY <1>1 DEF Kinds, TypeOK
<1>3. call \in Calls /\ call \in 1 .. Len(script)
  BY <1>2, CallIs
<1>4. out \in [Calls -> Output] /\ answer \in [Calls -> -1 .. MaxFull + 1]
  BY <1>1 DEF TypeOK, Output
<1>5. out[call] \in Output /\ answer[call] \in -1 .. MaxFull + 1
  BY <1>3, <1>4
<1>6. Len(out[call]) \in Nat
  <2> DEFINE q == out[call]
  <2> SUFFICES ASSUME q \in Output PROVE Len(q) \in Nat
    BY <1>5
  <2> HIDE DEF q
  <2> QED BY DEF Output
<1>7. answer[call] \in Int /\ answer[call] >= -1
  BY <1>5, Limits
<1> QED BY <1>2, <1>3, <1>4, <1>5, <1>6, <1>7, ScriptsAre

LEMMA ReturnKeepsW ==
    ASSUME OInv, WInv, pc # "end", NEW r \in Results, Return(r),
           UNCHANGED <<script, out, answer, acks>>, askew \subseteq askew',
           r = "ok" /\ script[call] = "exec" /\ call \notin askew' =>
             HasAll(call, out[call], answer[call], acks)
    PROVE  WInv'
<1>1. call \in Calls /\ call <= Len(script) /\ call \in Nat /\ Calls \subseteq Nat \ {0} /\ TypeOK
  BY Callers DEF OInv
<1>2. /\ pc' \in {"ready", "end"} /\ call' = call + 1
      /\ res'[call] = r /\ \A k \in Calls : k # call => res'[k] = res[k]
  BY <1>1, ReturnIs
<1>3. Done'
  BY <1>1, <1>2 DEF WInv, Done
<1>4. UnmadeHasNoResult'
  BY <1>1, <1>2 DEF WInv, UnmadeHasNoResult
<1> QED BY <1>2, <1>3, <1>4 DEF WInv, InStep, InExec

\* A step that neither reads an answer nor returns.
LEMMA StillKeepsW ==
    ASSUME WInv, pc' \notin {"exec", "drain"}, \A k \in Calls : res'[k] = res[k],
           UNCHANGED <<script, call, out, answer, acks>>, askew \subseteq askew'
    PROVE  WInv'
<1>1. Done' /\ UnmadeHasNoResult'
  BY DEF WInv, Done, UnmadeHasNoResult
<1> QED BY <1>1 DEF WInv, InStep, InExec

LEMMA AuthKeepsW == OInv /\ WInv /\ Auth => WInv'
<1> SUFFICES ASSUME OInv, WInv, Auth PROVE WInv'
  OBVIOUS
<1>1. pc = "auth" /\ UNCHANGED <<script, call, out, server, history>> /\ TypeOK
  BY DEF Auth, OInv
<1>2. (pc' = pc /\ res' = res) \/ \E r \in Results : Dialled(r)
  BY ResultsAre DEF Auth, AuthAnswered, AuthSkip, AuthLate, AuthHangUp
<1>3. ASSUME NEW r, Dialled(r) PROVE pc' \in {"ready", "end"} /\ \A k \in Calls : res'[k] = res[k]
  <2>1. 0 \notin Calls
    BY ScriptsAre
  <2> QED BY <1>1, <1>3, <2>1 DEF Dialled, TypeOK
<1> QED BY <1>1, <1>2, <1>3, StillKeepsW DEF server, history

LEMMA CallFailsKeepsW ==
    ASSUME OInv, WInv, NEW op, CallFails(op)
    PROVE  WInv'
<1>1. /\ pc # "end" /\ Return("closed") /\ UNCHANGED <<script, out, server>> /\ askew \subseteq askew'
  BY DEF CallFails, Calling
<1> QED BY <1>1, ReturnKeepsW, ResultsAre DEF server

LEMMA FireKeepsW == OInv /\ WInv /\ (FirePeek \/ FireWrite \/ FireRead) => WInv'
<1>1. ASSUME OInv, WInv, FirePeek PROVE WInv'
  <2>1. /\ pc # "end" /\ UNCHANGED <<script, out, server>> /\ askew \subseteq askew'
        /\ Return("closed") \/ (pc' = "peeked" /\ UNCHANGED <<call, res>>)
    BY <1>1 DEF FirePeek, Calling
  <2> QED BY <1>1, <2>1, ReturnKeepsW, StillKeepsW, ResultsAre DEF server
<1>2. ASSUME OInv, WInv, FireWrite PROVE WInv'
  <2>1. /\ pc # "end" /\ UNCHANGED <<script, out, server, history>>
        /\ Return("closed") \/ (pc' = "fire" /\ UNCHANGED <<call, res>>)
    BY <1>2 DEF FireWrite
  <2> QED BY <1>2, <2>1, ReturnKeepsW, StillKeepsW, ResultsAre DEF server, history
<1>3. ASSUME OInv, WInv, FireRead PROVE WInv'
  <2>1. /\ pc = "fire" /\ UNCHANGED <<script, out, server, history>> /\ Return("ok")
    BY <1>3 DEF FireRead
  <2>2. script[call] # "exec"
    BY <1>3, <2>1 DEF OInv, Kinds
  <2> QED BY <1>3, <2>1, <2>2, ReturnKeepsW, ResultsAre DEF server, history
<1> QED BY <1>1, <1>2, <1>3

LEMMA DrainKeepsW == OInv /\ WInv /\ Drain => WInv'
<1> SUFFICES ASSUME OInv, WInv, Drain PROVE WInv'
  OBVIOUS
<1>1. pc = "drain" /\ UNCHANGED <<script, out, server, history>>
  BY DEF Drain
<1>2. CASE UNCHANGED <<pc, call, res>>
  <2>1. Done' /\ UnmadeHasNoResult'
    BY <1>1, <1>2 DEF WInv, Done, UnmadeHasNoResult, server, history
  <2> QED BY <1>1, <1>2, <2>1 DEF WInv, InStep, InExec
<1>3. CASE Return("ok")
  <2>1. call \notin askew' => HasAll(call, out[call], answer[call], acks)
    BY <1>1 DEF WInv, Done, history
  <2> QED BY <1>1, <1>3, <2>1, ReturnKeepsW, ResultsAre DEF server, history
<1> QED BY <1>2, <1>3 DEF Drain

LEMMA ExecStartKeepsW == OInv /\ AskewAtTheStart /\ WInv /\ ExecStart => WInv'
<1> SUFFICES ASSUME OInv, AskewAtTheStart, WInv, ExecStart PROVE WInv'
  OBVIOUS
<1>1. /\ Calling("exec") /\ responses' = 0 /\ splitPending' = FALSE /\ pc' = "exec"
      /\ UNCHANGED <<call, out, res, wire, closed, server, script>> /\ askew \subseteq askew'
      /\ wire # <<>> /\ Head(wire) = Garbage => call \in askew'
      /\ pc = "ready"
  BY DEF ExecStart, Calling
<1>2. call \in Calls /\ call \in Nat /\ TypeOK /\ wire \in Seq(Frames)
  BY <1>1, Callers, Parts
<1>3. answer[call] = -1
  <2>1. ~SentBy(call, call, pc)
    BY <1>1, <1>2 DEF SentBy
  <2> QED BY <1>2, <2>1, Parts
<1>4. out[call] = <<>> /\ \A i \in DOMAIN Stream : ~Of(Stream[i], call)
  BY <1>2, <1>3 DEF OInv, InOrder, Unanswered
<1>5. Len(out[call]) = 0 /\ out[call] = [i \in 1 .. 0 |-> <<call, i>>]
  BY <1>4
<1>6. ToCome(Stream, call, 0, -1, acks, closed)
  BY <1>4, NoneToCome
<1>7. Known(out[call], call, -1, FALSE, 0, acks)
  BY <1>5 DEF Known
<1>8. InExec'
  BY <1>1, <1>3, <1>5, <1>6, <1>7 DEF InExec, Stream, server
<1>9. InStep'
  <2> SUFFICES ASSUME call \notin askew', NEW i \in DOMAIN wire PROVE wire[i] # Garbage
    BY <1>1 DEF InStep
  <2>1. CASE i > 1
    BY <2>1 DEF AskewAtTheStart
  <2>2. CASE ~(i > 1)
    <3>1. i = 1 /\ wire # <<>>
      BY <1>2, <2>2, DomainIs
    <3>2. Head(wire) = wire[1]
      BY <1>2, <3>1, DropFirst
    <3> QED BY <1>1, <3>1, <3>2
  <2> QED BY <2>1, <2>2
<1>10. Done' /\ UnmadeHasNoResult'
  BY <1>1 DEF WInv, Done, UnmadeHasNoResult, server
<1> QED BY <1>8, <1>9, <1>10 DEF WInv


\* A frame has been read whole.
LEMMA ReadIsRest ==
    ASSUME OInv, AskewAtTheStart, Reads, UNCHANGED server
    PROVE  /\ Rest(Stream', Stream) /\ Stream \in Seq(Frames) /\ Stream' \in Seq(Frames)
           /\ Stream[1] = wire[1] /\ Head(wire) = wire[1] /\ wire[1] \in Frames
           /\ wire # <<>> /\ Len(Stream) # 0 /\ 1 \in DOMAIN Stream
           /\ \A i \in DOMAIN wire' : wire'[i] # Garbage
<1>1. TypeOK /\ wire \in Seq(Frames) /\ plan \in Seq(Frames) /\ plan' = plan
  BY Parts DEF server
<1>2. wire # <<>> /\ wire' = Tail(wire) /\ (Len(wire) > 1 \/ ~arriving)
  BY DEF Reads, Whole, Readable, Consume
<1>3. /\ Tail(wire) \o plan \in Seq(Frames) /\ wire \o plan \in Seq(Frames)
      /\ Rest(Tail(wire) \o plan, wire \o plan)
      /\ (wire \o plan)[1] = wire[1] /\ Head(wire) = wire[1] /\ Head(wire) \in Frames
  BY <1>1, <1>2, DropFirst, Joined DEF Rest
<1>4. Rest(Stream', Stream) /\ Stream \in Seq(Frames) /\ Stream' \in Seq(Frames)
      /\ Stream[1] = wire[1]
  BY <1>1, <1>2, <1>3 DEF Stream
<1>5. Len(Stream) # 0 /\ 1 \in DOMAIN Stream
  BY <1>4, RestOf DEF Rest
<1>6. \A i \in DOMAIN Tail(wire) : Tail(wire)[i] # Garbage
  <2>1. arriving => Len(wire) > 1
    BY <1>2
  <2> QED BY <1>1, <1>2, <2>1, FirstTaken DEF AskewAtTheStart
<1> QED BY <1>2, <1>3, <1>4, <1>5, <1>6

LEMMA ExecDataKeepsW ==
    ASSUME OInv, AskewAtTheStart, WInv, pc = "exec", ExecData,
           UNCHANGED <<script, closed, inbox, server, history>>
    PROVE  WInv'
<1>1. /\ responses' = responses + 1 /\ wire[1].id = "cmd" /\ wire[1].call = call
      /\ \/ /\ Data(wire[1], call) /\ UNCHANGED <<pc, call, res>>
            /\ splitPending' = (wire[1].size = "full") /\ With(out', out, call, wire[1].n)
         \/ /\ Blank(wire[1], call) /\ UNCHANGED <<out, splitPending>>
            /\ \/ out[call] # <<>> /\ Return("ok")
               \/ out[call] = <<>> /\ UNCHANGED <<pc, call, res>>
  BY ExecDataKeeps
<1>2. Reads /\ answer' = answer /\ acks' = acks /\ closed' = closed /\ askew' = askew
      /\ script' = script
  BY DEF ExecData, Reads, server, history
<1>3. /\ Rest(Stream', Stream) /\ Stream \in Seq(Frames) /\ Stream' \in Seq(Frames)
      /\ Stream[1] = wire[1] /\ wire[1] \in Frames /\ Len(Stream) # 0 /\ 1 \in DOMAIN Stream
      /\ \A i \in DOMAIN wire' : wire'[i] # Garbage
  BY <1>2, ReadIsRest
<1>4. /\ call \in Calls /\ Calls \subseteq Nat \ {0} /\ out \in [Calls -> Output]
      /\ out[call] \in Output /\ Len(out[call]) \in Nat
      /\ answer[call] \in Int /\ answer[call] >= -1
  BY Callers
<1>5. InStep'
  BY <1>3 DEF InStep
<1> DEFINE Knows == Known(out[call], call, answer[call], splitPending, responses, acks)
           Comes == ToCome(Stream, call, Len(out[call]), answer[call], acks, closed)
<1>6. call \notin askew => Knows /\ Comes
  BY DEF WInv, InExec
<1>7. /\ answer[call] # -1 /\ InOrder(Stream, out, answer)
  <2>1. Of(Stream[1], call)
    BY <1>1, <1>3 DEF Of
  <2> QED BY <1>3, <1>4, <2>1 DEF OInv, InOrder, Unanswered
<1>8. CASE /\ Data(wire[1], call) /\ UNCHANGED <<pc, call, res>>
           /\ splitPending' = (wire[1].size = "full") /\ With(out', out, call, wire[1].n)
  <2>1. /\ out'[call] = Append(out[call], <<call, wire[1].n>>)
        /\ Len(out'[call]) = Len(out[call]) + 1
        /\ \A c \in Calls : c # call => out'[c] = out[c]
    BY <1>8 DEF With
  <2>2. ASSUME call \notin askew
        PROVE  /\ Known(out'[call], call, answer[call], splitPending', responses', acks)
               /\ ToCome(Stream', call, Len(out'[call]), answer[call], acks, closed)
    <3>0. Data(Stream[1], call) /\ Increasing(Stream) /\ Numbered(Stream)
      BY <1>3, <1>7, <1>8 DEF InOrder
    <3> DEFINE m == Len(out[call])
               a == answer[call]
    <3>1. m \in Nat /\ a \in Int /\ ToCome(Stream, call, m, a, acks, closed)
      BY <1>4, <1>6, <2>2
    <3> HIDE DEF m, a
    <3>2. /\ Stream[1].n = m + 1 /\ m + 1 <= a
          /\ (Stream[1].size = "short" => m + 1 = a)
      BY <1>3, <3>0, <3>1, FirstInPlace
    <3>3. ToCome(Stream', call, m + 1, a, acks, closed)
      BY <1>3, <1>4, <3>0, <3>1, DataToCome
    <3>4. wire[1].n \in 1 .. MaxFull + 1
      <4>1. wire[1].n \in 0 .. MaxFull + 1 /\ wire[1].n = m + 1
        BY <1>3, <3>2 DEF Frames
      <4> QED BY <3>1, <4>1, Limits
    <3>5. ~splitPending' => wire[1].n = a
      <4>1. wire[1].size \in {"empty", "short", "full"}
        BY <1>3 DEF Frames, Sizes
      <4> QED BY <1>3, <1>8, <3>2, <4>1 DEF Data
    <3>6. Known(out'[call], call, a, splitPending', responses', acks)
      <4>1. wire[1].n = Len(out[call]) + 1 /\ wire[1].n <= a
        BY <1>3, <3>2 DEF m
      <4>2. Known(out[call], call, a, splitPending, responses, acks)
        BY <1>6, <2>2 DEF a
      <4> QED BY <1>4, <2>1, <3>1, <3>4, <3>5, <4>1, <4>2, KnownMore
    <3> QED BY <2>1, <3>3, <3>6 DEF m, a
  <2>3. InExec'
    BY <1>2, <1>8, <2>2 DEF InExec
  <2>4. Done'
    <3>1. ASSUME NEW k \in Calls \ askew, res[k] = "ok", script[k] = "exec"
          PROVE  HasAll(k, out'[k], answer[k], acks)
      <4>1. k # call
        BY <1>4, <3>1 DEF WInv, UnmadeHasNoResult
      <4> QED BY <2>1, <3>1, <4>1 DEF WInv, Done
    <3> QED BY <1>2, <1>8, <3>1 DEF Done
  <2>5. UnmadeHasNoResult'
    BY <1>8 DEF WInv, UnmadeHasNoResult
  <2> QED BY <1>5, <2>3, <2>4, <2>5 DEF WInv
<1>9. CASE Blank(wire[1], call) /\ UNCHANGED <<out, splitPending>> /\ out[call] # <<>> /\ Return("ok")
  <2>1. ASSUME call \notin askew PROVE HasAll(call, out[call], answer[call], acks)
    <3>1. answer[call] <= Len(out[call]) \/ (acks /\ Len(out[call]) = 0)
      BY <1>3, <1>4, <1>6, <1>9, <2>1, FirstInPlace
    <3> QED BY <1>4, <1>6, <1>7, <2>1, <3>1, KnownAll
  <2> QED BY <1>2, <1>9, <2>1, ReturnKeepsW, ResultsAre
<1>10. CASE /\ Blank(wire[1], call) /\ UNCHANGED <<out, splitPending>> /\ out[call] = <<>>
            /\ UNCHANGED <<pc, call, res>>
  <2>1. ASSUME call \notin askew
        PROVE  /\ Known(out[call], call, answer[call], splitPending, responses', acks)
               /\ ToCome(Stream', call, Len(out[call]), answer[call], acks, closed)
    <3>1. answer[call] <= Len(out[call]) \/ (acks /\ Len(out[call]) = 0)
      BY <1>3, <1>4, <1>6, <1>10, <2>1, FirstInPlace
    <3>2. Len(out[call]) = 0
      BY <1>10
    <3>3. answer[call] # -1 /\ (acks \/ answer[call] = 0)
      BY <1>4, <1>7, <3>1, <3>2
    <3>4. Known(out[call], call, answer[call], splitPending, responses', acks)
      BY <1>6, <2>1, <3>3 DEF Known
    <3>5. ~Data(Stream[1], call)
      BY <1>3, <1>10 DEF Data, Blank
    <3> QED BY <1>3, <1>6, <2>1, <3>4, <3>5, RestIsSame, SameToCome
  <2>2. InExec'
    BY <1>2, <1>10, <2>1 DEF InExec
  <2>3. Done' /\ UnmadeHasNoResult'
    BY <1>2, <1>10 DEF WInv, Done, UnmadeHasNoResult
  <2> QED BY <1>5, <2>2, <2>3 DEF WInv
<1> QED BY <1>1, <1>8, <1>9, <1>10

LEMMA ExecMarkerKeepsW ==
    ASSUME OInv, AskewAtTheStart, WInv, pc = "exec", ExecMarker,
           UNCHANGED <<script, closed, inbox, server, history>>
    PROVE  WInv'
<1>1. /\ Reads /\ pc' = "drain" /\ OurMarker(Head(wire))
      /\ UNCHANGED <<call, res, out, script, server, history>>
  BY DEF ExecMarker, Reads
<1>2. /\ Stream \in Seq(Frames) /\ Stream[1] = wire[1] /\ Head(wire) = wire[1]
      /\ Len(Stream) # 0 /\ 1 \in DOMAIN Stream
  BY <1>1, ReadIsRest
<1>3. /\ call \in Calls /\ Len(out[call]) \in Nat /\ answer[call] \in Int /\ answer[call] >= -1
  BY Callers
<1>4. Marks(Stream[1], call) /\ Of(Stream[1], call)
  BY <1>1, <1>2 DEF OurMarker, Marks, Of
<1>5. answer[call] # -1
  BY <1>2, <1>3, <1>4 DEF OInv, InOrder, Unanswered
<1>6. ASSUME call \notin askew PROVE HasAll(call, out[call], answer[call], acks)
  <2>1. /\ Known(out[call], call, answer[call], splitPending, responses, acks)
        /\ ToCome(Stream, call, Len(out[call]), answer[call], acks, closed)
    BY <1>6 DEF WInv, InExec
  <2>2. answer[call] <= Len(out[call])
    BY <1>2, <1>3, <1>4, <2>1, FirstInPlace
  <2> QED BY <1>3, <1>5, <2>1, <2>2, KnownAll
<1>7. Done' /\ UnmadeHasNoResult'
  BY <1>1, <1>6 DEF WInv, Done, UnmadeHasNoResult, server, history
<1> QED BY <1>1, <1>7 DEF WInv, InStep, InExec

LEMMA ExecSkipKeepsW ==
    ASSUME OInv, AskewAtTheStart, WInv, pc = "exec", ExecSkip,
           UNCHANGED <<script, closed, inbox, server, history>>
    PROVE  WInv'
<1>1. /\ UNCHANGED <<pc, call, res, out, responses, splitPending, script, closed, server, history>>
      /\ \/ Reads /\ ~OurData(Head(wire)) /\ ~OurMarker(Head(wire))
         \/ Misread
  BY DEF ExecSkip, Reads
<1>2. Done' /\ UnmadeHasNoResult'
  BY <1>1 DEF WInv, Done, UnmadeHasNoResult, server, history
<1>3. InStep' /\ InExec'
  <2> SUFFICES ASSUME call \notin askew
               PROVE  /\ \A i \in DOMAIN wire' : wire'[i] # Garbage
                      /\ ToCome(Stream', call, Len(out[call]), answer[call], acks, closed)
    BY <1>1 DEF WInv, InExec, InStep, server, history
  <2>1. ToCome(Stream, call, Len(out[call]), answer[call], acks, closed)
    BY DEF WInv, InExec
  <2>2. ~Misread
    <3>1. wire \in Seq(Frames) /\ \A i \in DOMAIN wire : wire[i] # Garbage
      BY Parts DEF WInv, InStep
    <3>2. wire # <<>> => Head(wire) = wire[1] /\ 1 \in DOMAIN wire
      BY <3>1, DropFirst, DomainIs
    <3> QED BY <3>1, <3>2 DEF Misread, Readable
  <2>3. /\ Rest(Stream', Stream) /\ Stream \in Seq(Frames) /\ Stream' \in Seq(Frames)
        /\ Stream[1] = wire[1] /\ Head(wire) = wire[1]
        /\ \A i \in DOMAIN wire' : wire'[i] # Garbage
    BY <1>1, <2>2, ReadIsRest
  <2>4. ~Data(Stream[1], call)
    BY <1>1, <2>2, <2>3 DEF OurData, Data
  <2> QED BY <2>1, <2>3, <2>4, RestIsSame, SameToCome
<1> QED BY <1>2, <1>3 DEF WInv

LEMMA ExecKeepsW == OInv /\ AskewAtTheStart /\ WInv /\ Exec => WInv'
<1> SUFFICES ASSUME OInv, AskewAtTheStart, WInv, Exec PROVE WInv'
  OBVIOUS
<1>1. pc = "exec" /\ UNCHANGED <<script, closed, inbox, server, history>>
  BY DEF Exec
<1>2. ASSUME NEW r \in Results, r # "ok", Return(r), UNCHANGED out PROVE WInv'
  BY <1>1, <1>2, ReturnKeepsW DEF server, history
<1>3. CASE ExecStops
  <2>1. UNCHANGED out /\ \E r \in Results : r # "ok" /\ Return(r)
    BY <1>3, ResultsAre DEF ExecStops
  <2> QED BY <1>2, <2>1
<1>4. CASE ExecData
  BY <1>1, <1>4, ExecDataKeepsW
<1>5. CASE ExecMarker
  BY <1>1, <1>5, ExecMarkerKeepsW
<1>6. CASE ExecSkip
  BY <1>1, <1>6, ExecSkipKeepsW
<1>7. CASE ExecLate
  <2>1. CASE responses > 0 /\ ~splitPending /\ Return("ok")
    <3>1. call \notin askew => HasAll(call, out[call], answer[call], acks)
      <4> SUFFICES ASSUME call \notin askew PROVE HasAll(call, out[call], answer[call], acks)
        OBVIOUS
      <4>1. Known(out[call], call, answer[call], splitPending, responses, acks)
        BY <1>1 DEF WInv, InExec
      <4>2. Len(out[call]) \in Nat /\ answer[call] \in Int /\ answer[call] >= -1
        BY <1>1, Callers
      <4> QED BY <2>1, <4>1, <4>2, KnownAtLast
    <3> QED BY <1>1, <1>7, <2>1, <3>1, ReturnKeepsW, ResultsAre DEF ExecLate, server, history
  <2>2. CASE Return("truncated") \/ Return("timeout")
    BY <1>2, <1>7, <2>2, ResultsAre DEF ExecLate
  <2> QED BY <1>7, <2>1, <2>2 DEF ExecLate
<1>8. CASE ExecHangUp \/ ExecBadSize
  <2>1. UNCHANGED out /\ \E r \in Results : r # "ok" /\ Return(r)
    BY <1>8, ResultsAre DEF ExecHangUp, ExecBadSize
  <2> QED BY <1>2, <2>1
<1> QED BY <1>3, <1>4, <1>5, <1>6, <1>7, <1>8 DEF Exec


------------------------------------------------------------------------------
(***************************************************************************)
(* Each step of the server.                                                *)
(***************************************************************************)

\* Only the command that is being read is to be seen in the stream.
LEMMA ServerKeepsW ==
    ASSUME WInv, UNCHANGED <<client, acks, history>>,
           \A k \in Calls : answer[k] # -1 => answer'[k] = answer[k],
           pc = "exec" /\ call \notin askew =>
             /\ \A i \in DOMAIN wire' : wire'[i] # Garbage
             /\ Known(out[call], call, answer'[call], splitPending, responses, acks)
             /\ ToCome(Stream', call, Len(out[call]), answer'[call], acks, closed'),
           pc = "exec" \/ pc = "drain" => call \in Calls
    PROVE  WInv'
<1>1. UNCHANGED <<pc, call, out, res, script, responses, splitPending, askew, acks>>
  BY DEF client, history
<1>2. InStep' /\ InExec'
  BY <1>1 DEF InStep, InExec
<1>3. ASSUME NEW k \in Calls, HasAll(k, out[k], answer[k], acks)
      PROVE  HasAll(k, out'[k], answer'[k], acks')
  <2>1. answer'[k] = answer[k]
    BY <1>3 DEF HasAll
  <2> QED BY <1>1, <1>3, <2>1
<1>4. Done'
  BY <1>1, <1>3 DEF WInv, Done
<1>5. UnmadeHasNoResult'
  BY <1>1 DEF WInv, UnmadeHasNoResult
<1> QED BY <1>2, <1>4, <1>5 DEF WInv

LEMMA TakeKeepsW == OInv /\ AskewAtTheStart /\ WInv /\ Take => WInv'
<1> SUFFICES ASSUME OInv, AskewAtTheStart, WInv, Take PROVE WInv'
  OBVIOUS
<1>1. /\ Served(plan', answer') /\ inbox # <<>> /\ Head(inbox) = inbox[1] /\ plan = <<>> /\ ~closed
      /\ UNCHANGED <<client, wire, closed, acks, history>>
  BY TakeIs
<1>2. TypeOK /\ Requested(inbox, answer) /\ wire \in Seq(Frames) /\ acks \in BOOLEAN
  BY Parts DEF TypeOK
<1>3. \/ inbox[1].id = "auth" /\ TakeAuth
      \/ inbox[1].id = "cmd" /\ TakeCommand(inbox[1].call)
      \/ inbox[1].id = "end" /\ TakeMarker(inbox[1].call)
  BY <1>1 DEF Take
<1>4. Stream = wire /\ Stream' = wire \o plan' /\ plan' \in Seq(Frames)
  BY <1>1, <1>2, ConcatEmptySeq DEF Stream, Served
<1>5. \A k \in Calls : answer[k] # -1 => answer'[k] = answer[k]
  <2>1. CASE inbox[1].id = "auth" /\ TakeAuth
    BY <2>1 DEF TakeAuth
  <2>2. CASE inbox[1].id = "cmd" /\ TakeCommand(inbox[1].call)
    <3>1. /\ answer[inbox[1].call] = -1
          /\ \E a \in 0 .. MaxFull + 1 : answer' = [answer EXCEPT ![inbox[1].call] = a]
      BY <1>1, <1>2, <2>2, TakeCommandIs
    <3> QED BY <1>2, <3>1 DEF TypeOK
  <2>3. CASE inbox[1].id = "end" /\ TakeMarker(inbox[1].call)
    BY <1>1, <1>2, <2>3, TakeMarkerIs
  <2> QED BY <1>3, <2>1, <2>2, <2>3
<1>6. ASSUME pc = "exec", call \notin askew
      PROVE  /\ \A i \in DOMAIN wire' : wire'[i] # Garbage
             /\ Known(out[call], call, answer'[call], splitPending, responses, acks)
             /\ ToCome(Stream', call, Len(out[call]), answer'[call], acks, closed')
  <2>1. /\ \A i \in DOMAIN wire' : wire'[i] # Garbage
        /\ Known(out[call], call, answer[call], splitPending, responses, acks)
        /\ ToCome(wire, call, Len(out[call]), answer[call], acks, FALSE)
    <3>1. closed = FALSE /\ wire' = wire
      BY <1>1, <1>2 DEF TypeOK
    <3>2. ToCome(Stream, call, Len(out[call]), answer[call], acks, closed)
      BY <1>6 DEF WInv, InExec
    <3> QED BY <1>4, <1>6, <3>1, <3>2 DEF WInv, InStep, InExec
  <2>2. call \in Calls
    BY <1>6, Callers
  <2>3. ASSUME answer'[call] = answer[call], Nothing(plan', call, answer[call])
        PROVE  /\ Known(out[call], call, answer'[call], splitPending, responses, acks)
               /\ ToCome(Stream', call, Len(out[call]), answer'[call], acks, closed')
    BY <1>1, <1>2, <1>4, <2>1, <2>3, OthersToCome
  <2>4. CASE inbox[1].id = "auth" /\ TakeAuth
    <3>1. answer' = answer
      BY <2>4 DEF TakeAuth
    <3>2. Nothing(plan', call, answer[call])
      BY <1>2, <2>4, TakeAuthIs DEF Nothing, Of
    <3> QED BY <2>1, <2>3, <3>1, <3>2
  <2>5. CASE inbox[1].id = "cmd" /\ TakeCommand(inbox[1].call)
    <3>1. PICK a \in 0 .. MaxFull + 1 :
            /\ AnswerOf(plan', inbox[1].call, acks, a)
            /\ answer' = [answer EXCEPT ![inbox[1].call] = a]
      BY <1>1, <1>2, <2>5, TakeCommandIs
    <3>2. answer[inbox[1].call] = -1 /\ inbox[1].call \in Calls
      BY <1>1, <1>2, <2>5, TakeCommandIs
    <3>3. CASE inbox[1].call # call
      <4>1. answer'[call] = answer[call]
        BY <1>2, <2>2, <3>1, <3>3 DEF TypeOK
      <4>2. Nothing(plan', call, answer[call])
        <5>1. \A i \in DOMAIN plan' : plan'[i].call # call
          BY <1>4, <3>1, <3>3, DomainIs DEF AnswerOf
        <5> QED BY <5>1 DEF Nothing, Of
      <4> QED BY <2>1, <2>3, <4>1, <4>2
    <3>4. CASE inbox[1].call = call
      <4>1. answer'[call] = a /\ answer[call] = -1 /\ a \in Nat /\ a # -1
        <5>1. \A x \in 0 .. MaxFull + 1 : x \in Nat /\ x # -1
          BY Limits
        <5> QED BY <1>2, <2>2, <3>1, <3>2, <3>4, <5>1 DEF TypeOK
      <4>2. out[call] = <<>> /\ \A i \in DOMAIN wire : ~Of(wire[i], call)
        BY <1>4, <2>2, <4>1 DEF OInv, InOrder, Unanswered
      <4>3. ~(responses > 0) /\ Len(out[call]) = 0
        BY <2>1, <4>1, <4>2 DEF Known
      <4>4. Known(out[call], call, a, splitPending, responses, acks)
        BY <2>1, <4>3 DEF Known
      <4>5. ToCome(wire \o plan', call, 0, a, acks, closed')
        BY <1>2, <3>1, <3>4, <4>1, <4>2, AnswerToCome
      <4> QED BY <1>4, <2>1, <4>1, <4>3, <4>4, <4>5
    <3> QED BY <3>3, <3>4
  <2>6. CASE inbox[1].id = "end" /\ TakeMarker(inbox[1].call)
    <3>1. /\ answer' = answer /\ answer[inbox[1].call] # -1
          /\ \A i \in DOMAIN plan' : plan'[i].id = "end" /\ plan'[i].call = inbox[1].call
      BY <1>1, <1>2, <2>6, TakeMarkerIs
    <3>2. Nothing(plan', call, answer[call])
      BY <3>1 DEF Nothing, Of
    <3> QED BY <2>1, <2>3, <3>1, <3>2
  <2> QED BY <1>3, <2>4, <2>5, <2>6
<1>7. pc = "exec" \/ pc = "drain" => call \in Calls
  BY Callers
<1> QED BY <1>1, <1>5, <1>6, <1>7, ServerKeepsW

LEMMA EmitKeepsW == OInv /\ AskewAtTheStart /\ WInv /\ Emit => WInv'
<1> SUFFICES ASSUME OInv, AskewAtTheStart, WInv, Emit PROVE WInv'
  OBVIOUS
<1>1. /\ plan # <<>> /\ wire' = Append(wire, Head(plan)) /\ plan' = Tail(plan)
      /\ UNCHANGED <<client, closed, acks, answer, history>>
  BY DEF Emit, Write
<1>2. wire \in Seq(Frames) /\ plan \in Seq(Frames)
  BY Parts
<1>3. /\ wire' \in Seq(Frames) /\ wire' \o plan' = wire \o plan /\ Len(wire') = Len(wire) + 1
      /\ (\A i \in 1 .. Len(wire) : wire'[i] = wire[i]) /\ wire'[Len(wire) + 1] = plan[1]
      /\ 1 \in DOMAIN plan
  BY <1>1, <1>2, Written
<1>4. Stream' = Stream
  BY <1>3 DEF Stream
<1>5. (\A i \in DOMAIN wire : wire[i] # Garbage) => \A i \in DOMAIN wire' : wire'[i] # Garbage
  <2>1. \A i \in DOMAIN wire' : i \in 1 .. Len(wire) \/ i = Len(wire) + 1
    BY <1>2, <1>3, DomainIs
  <2>2. DOMAIN wire = 1 .. Len(wire) /\ plan[1] # Garbage
    BY <1>2, <1>3, DomainIs DEF AskewAtTheStart
  <2> QED BY <1>3, <2>1, <2>2
<1>6. pc = "exec" \/ pc = "drain" => call \in Calls
  BY Callers
<1>7. pc = "exec" /\ call \notin askew =>
        /\ \A i \in DOMAIN wire' : wire'[i] # Garbage
        /\ Known(out[call], call, answer'[call], splitPending, responses, acks)
        /\ ToCome(Stream', call, Len(out[call]), answer'[call], acks, closed')
  BY <1>1, <1>4, <1>5 DEF WInv, InStep, InExec
<1> QED BY <1>1, <1>6, <1>7, ServerKeepsW

LEMMA SlipInKeepsW == OInv /\ AskewAtTheStart /\ WInv /\ SlipIn => WInv'
<1> SUFFICES ASSUME OInv, AskewAtTheStart, WInv, SlipIn PROVE WInv'
  OBVIOUS
<1>1. /\ wire' = Append(wire, Foreign)
      /\ UNCHANGED <<client, closed, plan, acks, answer, history>>
  BY DEF SlipIn, Write
<1>2. wire \in Seq(Frames) /\ plan \in Seq(Frames)
  BY Parts
<1>3. wire' \in Seq(Frames) /\ Slipped(wire' \o plan, wire \o plan, Len(wire) + 1)
  BY <1>1, <1>2, SlippedIn
<1>4. Stream \in Seq(Frames) /\ Stream' \in Seq(Frames) /\ Slipped(Stream', Stream, Len(wire) + 1)
  BY <1>1, <1>2, <1>3, Joined DEF Stream
<1>5. (\A i \in DOMAIN wire : wire[i] # Garbage) => \A i \in DOMAIN wire' : wire'[i] # Garbage
  <2>0. Len(wire') = Len(wire) + 1 /\ (\A i \in 1 .. Len(wire) : wire'[i] = wire[i])
        /\ wire'[Len(wire) + 1] = Foreign
    BY <1>1, <1>2, FramesAre, AppendProperties
  <2>1. \A i \in DOMAIN wire' : i \in 1 .. Len(wire) \/ i = Len(wire) + 1
    BY <1>2, <1>3, <2>0, DomainIs
  <2>2. DOMAIN wire = 1 .. Len(wire)
    BY <1>2, DomainIs
  <2> QED BY <2>0, <2>1, <2>2, FramesAre
<1>6. pc = "exec" \/ pc = "drain" => call \in Calls
  BY Callers
<1>7. ASSUME pc = "exec", call \notin askew
      PROVE  /\ \A i \in DOMAIN wire' : wire'[i] # Garbage
             /\ Known(out[call], call, answer'[call], splitPending, responses, acks)
             /\ ToCome(Stream', call, Len(out[call]), answer'[call], acks, closed')
  <2>1. /\ \A i \in DOMAIN wire : wire[i] # Garbage
        /\ Known(out[call], call, answer[call], splitPending, responses, acks)
        /\ ToCome(Stream, call, Len(out[call]), answer[call], acks, closed)
    BY <1>7 DEF WInv, InStep, InExec
  <2>2. SameOf(Stream', Stream, call)
    BY <1>4, <1>6, <1>7, SlippedIsSame
  <2>3. ToCome(Stream', call, Len(out[call]), answer[call], acks, closed)
    BY <2>1, <2>2, SameToCome
  <2> QED BY <1>1, <1>5, <2>1, <2>3
<1> QED BY <1>1, <1>6, <1>7, ServerKeepsW

LEMMA ArriveKeepsW == OInv /\ WInv /\ Arrive => WInv'
BY DEF Arrive, WInv, InStep, InExec, Done, UnmadeHasNoResult, Stream, client, server, history

LEMMA HangUpKeepsW == OInv /\ WInv /\ HangUp => WInv'
<1> SUFFICES ASSUME OInv, WInv, HangUp PROVE WInv'
  OBVIOUS
<1>1. /\ closed' = TRUE /\ plan' = <<>> /\ UNCHANGED <<client, wire, acks, answer, history>>
  BY DEF HangUp
<1>2. wire \in Seq(Frames) /\ plan \in Seq(Frames)
  BY Parts
<1>3. Stream' = wire /\ Starts(wire, Stream)
  BY <1>1, <1>2, StartOf, ConcatEmptySeq DEF Stream
<1>4. pc = "exec" \/ pc = "drain" => call \in Calls
  BY Callers
<1>5. ASSUME pc = "exec", call \notin askew
      PROVE  /\ \A i \in DOMAIN wire' : wire'[i] # Garbage
             /\ Known(out[call], call, answer'[call], splitPending, responses, acks)
             /\ ToCome(Stream', call, Len(out[call]), answer'[call], acks, closed')
  <2>1. /\ \A i \in DOMAIN wire : wire[i] # Garbage
        /\ Known(out[call], call, answer[call], splitPending, responses, acks)
        /\ ToCome(Stream, call, Len(out[call]), answer[call], acks, closed)
    BY <1>5 DEF WInv, InStep, InExec
  <2>2. ToCome(wire, call, Len(out[call]), answer[call], acks, TRUE)
    BY <1>3, <2>1, CutToCome
  <2> QED BY <1>1, <1>3, <2>1, <2>2
<1> QED BY <1>1, <1>4, <1>5, ServerKeepsW

LEMMA WInvInit == Init => WInv
BY DEF Init, WInv, InStep, InExec, Done, UnmadeHasNoResult

LEMMA WInvStep == OInv /\ AskewAtTheStart /\ WInv /\ [Next]_vars => WInv'
<1> SUFFICES ASSUME OInv, AskewAtTheStart, WInv, [Next]_vars PROVE WInv'
  OBVIOUS
<1>1. CASE UNCHANGED vars
  BY <1>1 DEF vars, client, server, history, WInv, InStep, InExec, Done, UnmadeHasNoResult, Stream
<1>2. CASE Auth \/ Exec \/ Drain \/ ExecStart
  BY <1>2, AuthKeepsW, ExecKeepsW, DrainKeepsW, ExecStartKeepsW
<1>3. CASE CallFails("exec") \/ CallFails("fire")
  BY <1>3, CallFailsKeepsW
<1>4. CASE FirePeek \/ FireWrite \/ FireRead
  BY <1>4, FireKeepsW
<1>5. CASE Take \/ Emit \/ SlipIn \/ Arrive \/ HangUp
  BY <1>5, TakeKeepsW, EmitKeepsW, SlipInKeepsW, ArriveKeepsW, HangUpKeepsW
<1> QED BY <1>1, <1>2, <1>3, <1>4, <1>5 DEF Next


------------------------------------------------------------------------------
(***************************************************************************)
(* A fired command that found the server gone.                             *)
(***************************************************************************)
HInv == Handshake /\ Reported

\* Neither in the handshake nor before the first call.
LEMMA PastHandshake ==
    ASSUME pc' # "auth", ~(pc' = "ready" /\ call' = 1)
    PROVE  Handshake'
BY DEF Handshake

LEMMA ReturnKeepsH ==
    ASSUME OInv, HInv, pc # "end", NEW r \in Results, Return(r), UNCHANGED <<script, noise>>,
           \A k \in hungUp' : k \in hungUp \/ (k = call /\ (r = "closed" \/ script[k] # "fire"))
    PROVE  HInv'
<1>1. call \in Calls /\ call <= Len(script) /\ call \in Nat /\ Calls \subseteq Nat \ {0}
      /\ TypeOK /\ hungUp \subseteq Calls
  BY Callers DEF OInv, TypeOK
<1>2. /\ call' = call + 1 /\ pc' \in {"ready", "end"}
      /\ res'[call] = r /\ \A k \in Calls : k # call => res'[k] = res[k]
  BY <1>1, ReturnIs
<1>3. Handshake'
  <2>1. call' # 1 /\ pc' # "auth"
    BY <1>1, <1>2
  <2> QED BY <2>1, PastHandshake
<1>4. Reported'
  <2> SUFFICES ASSUME noise = 0, NEW k \in hungUp', script[k] = "fire"
               PROVE  k < call + 1 /\ res'[k] = "closed"
    BY <1>2 DEF Reported
  <2>1. CASE k \in hungUp
    <3>1. k < call /\ res[k] = "closed" /\ k \in Calls
      BY <1>1, <2>1 DEF HInv, Reported
    <3>2. k # call /\ k < call + 1
      BY <1>1, <3>1
    <3> QED BY <1>2, <3>1, <3>2
  <2>2. CASE k = call /\ r = "closed"
    BY <1>1, <1>2, <2>2
  <2> QED BY <2>1, <2>2
<1> QED BY <1>3, <1>4 DEF HInv

LEMMA StillKeepsH ==
    ASSUME OInv, HInv, Handshake', UNCHANGED <<script, call>>, noise' = 0 => noise = 0,
           \A k \in Calls : res'[k] = res[k],
           \A k \in hungUp' : k \in hungUp \/ script[k] # "fire"
    PROVE  HInv'
<1>1. hungUp \subseteq Calls
  BY DEF OInv, TypeOK
<1> QED BY <1>1 DEF HInv, Reported

LEMMA ClientKeepsH ==
    ASSUME OInv, AskewAtTheStart, HInv,
           CallFails("exec") \/ CallFails("fire") \/ ExecStart \/ Exec \/ Drain
             \/ FirePeek \/ FireWrite \/ FireRead
    PROVE  HInv'
<1>1. ASSUME NEW op, CallFails(op) PROVE HInv'
  <2>1. /\ pc # "end" /\ Return("closed") /\ UNCHANGED <<script, noise>>
        /\ hungUp' = hungUp \union (IF closed THEN {call} ELSE {})
    BY <1>1 DEF CallFails, Calling, server
  <2> QED BY <2>1, ReturnKeepsH, ResultsAre
<1>2. CASE ExecStart
  <2>1. /\ pc' = "exec" /\ UNCHANGED <<script, call, res, noise>> /\ script[call] # "fire"
        /\ hungUp' = hungUp \union (IF closed THEN {call} ELSE {})
    BY <1>2 DEF ExecStart, Calling, server
  <2> QED BY <2>1, PastHandshake, StillKeepsH
<1>3. ASSUME pc \in {"exec", "drain", "fire"}, UNCHANGED <<script, noise, hungUp>>,
             \/ \E r \in Results : Return(r)
             \/ UNCHANGED <<call, res>> /\ pc' \notin {"auth", "ready"}
      PROVE  HInv'
  <2>1. CASE \E r \in Results : Return(r)
    BY <1>3, <2>1, ReturnKeepsH
  <2>2. CASE UNCHANGED <<call, res>> /\ pc' \notin {"auth", "ready"}
    BY <1>3, <2>2, PastHandshake, StillKeepsH
  <2> QED BY <1>3, <2>1, <2>2
<1>4. CASE Exec
  <2>1. pc = "exec" /\ UNCHANGED <<script, noise, hungUp>>
    BY <1>4 DEF Exec, server, history
  <2>2. \/ \E r \in Results : Return(r)
        \/ UNCHANGED <<call, res>> /\ pc' \notin {"auth", "ready"}
    BY <1>4, <2>1, ResultsAre DEF Exec, ExecStops, ExecData, ExecMarker, ExecSkip, ExecLate, ExecHangUp,
                            ExecBadSize
  <2> QED BY <1>3, <2>1, <2>2
<1>5. CASE Drain
  <2>1. pc = "drain" /\ UNCHANGED <<script, noise, hungUp>>
    BY <1>5 DEF Drain, server, history
  <2>2. Return("ok") \/ UNCHANGED <<pc, call, res>>
    BY <1>5 DEF Drain
  <2> QED BY <1>3, <2>1, <2>2, ResultsAre
<1>6. CASE FirePeek
  <2>1. /\ pc = "ready" /\ script[call] = "fire" /\ UNCHANGED <<script, noise>>
        /\ hungUp' = hungUp \union (IF closed THEN {call} ELSE {})
        /\ IF PeerGone THEN Return("closed") ELSE pc' = "peeked" /\ UNCHANGED <<call, res>>
    BY <1>6 DEF FirePeek, Calling, server
  <2>2. CASE PeerGone
    BY <2>1, <2>2, ReturnKeepsH, ResultsAre
  <2>3. CASE ~PeerGone
    <3>1. Handshake' /\ UNCHANGED <<call, res>>
      BY <2>1, <2>3, PastHandshake
    <3>2. CASE noise = 0 /\ closed
      <4>1. call = 1
        <5>1. script \in Scripts /\ call \in 1 .. Len(script)
          BY <2>1, CallIs DEF OInv, TypeOK, Kinds
        <5>2. call \in DOMAIN script
          BY <5>1, ScriptsAre
        <5> QED BY <2>1, <5>1, <5>2, ScriptsAssumption
      <4>2. wire \o plan = <<>> /\ wire \in Seq(Frames) /\ plan \in Seq(Frames)
        BY <2>1, <3>2, <4>1, Parts DEF HInv, Handshake, Stream
      <4>3. wire = <<>>
        <5>1. Len(wire \o plan) = Len(wire) + Len(plan) /\ Len(wire) \in Nat /\ Len(plan) \in Nat
              /\ Len(wire \o plan) = 0
          BY <4>2, Joined
        <5>2. Len(wire) = 0
          BY <5>1
        <5> QED BY <4>2, <5>2, DomainIs
      <4> QED BY <2>3, <3>2, <4>3 DEF PeerGone
    <3>3. CASE ~closed
      BY <2>1, <3>1, <3>3, StillKeepsH
    <3>4. CASE noise # 0
      BY <2>1, <3>1, <3>4 DEF HInv, Reported
    <3> QED BY <3>2, <3>3, <3>4
  <2> QED BY <2>2, <2>3
<1>7. CASE FireWrite
  <2>1. pc = "peeked" /\ UNCHANGED <<script, noise, hungUp>>
    BY <1>7 DEF FireWrite, server, history
  <2>2. CASE Return("closed")
    BY <2>1, <2>2, ReturnKeepsH, ResultsAre
  <2>3. CASE pc' = "fire" /\ UNCHANGED <<call, res>>
    BY <2>1, <2>3, PastHandshake, StillKeepsH
  <2> QED BY <1>7, <2>2, <2>3 DEF FireWrite
<1>8. CASE FireRead
  <2>1. pc = "fire" /\ UNCHANGED <<script, noise, hungUp>> /\ Return("ok")
    BY <1>8 DEF FireRead, server, history
  <2> QED BY <1>3, <2>1, ResultsAre
<1> QED BY <1>1, <1>2, <1>4, <1>5, <1>6, <1>7, <1>8

LEMMA AuthKeepsH ==
    ASSUME OInv, AskewAtTheStart, HInv, Auth
    PROVE  HInv'
<1>1. /\ pc = "auth" /\ UNCHANGED <<script, call, noise, inbox, hungUp, server>>
  BY DEF Auth, server, history
<1>2. ASSUME NEW r, Dialled(r)
      PROVE  /\ pc' = (IF r = "ok" THEN "ready" ELSE "end") /\ \A k \in Calls : res'[k] = res[k]
  <2>1. 0 \notin Calls
    BY ScriptsAre
  <2> QED BY <1>2, <2>1 DEF Dialled, OInv, TypeOK
<1>3. \A k \in Calls : res'[k] = res[k]
  BY <1>2 DEF Auth, AuthAnswered, AuthSkip, AuthLate, AuthHangUp
<1>4. Handshake'
  <2> SUFFICES ASSUME noise = 0 PROVE Handshake'
    BY <1>1 DEF Handshake
  <2>1. /\ \A i \in DOMAIN Stream : IsAuth(Stream[i]) => i = Len(Stream)
        /\ Len(inbox) <= 1 /\ (inbox # <<>> => Stream = <<>>)
        /\ \A i \in DOMAIN inbox : inbox[i].id = "auth"
    BY <1>1 DEF HInv, Handshake
  <2>2. CASE AuthAnswered \/ AuthSkip
    <3>1. Reads
      BY <2>2 DEF AuthAnswered, AuthSkip, Reads
    <3>2. /\ Rest(Stream', Stream) /\ Stream \in Seq(Frames) /\ Stream' \in Seq(Frames)
          /\ Stream[1] = wire[1] /\ Head(wire) = wire[1] /\ 1 \in DOMAIN Stream
      BY <1>1, <3>1, ReadIsRest
    <3>3. Stream # <<>> /\ inbox = <<>>
      BY <2>1, <3>2, DomainIs
    <3>4. CASE AuthAnswered
      <4>1. IsAuth(Stream[1]) /\ pc' \in {"ready", "end"}
        BY <1>2, <3>2, <3>4 DEF AuthAnswered, IsAuth
      <4>2. Len(Stream) = 1
        BY <2>1, <3>2, <4>1
      <4>3. Len(Stream') = 0
        BY <3>2, <4>2 DEF Rest
      <4>4. Stream' = <<>>
        BY <3>2, <4>3, DomainIs
      <4> QED BY <1>1, <3>3, <4>1, <4>4 DEF Handshake
    <3>5. CASE AuthSkip
      <4>1. pc' \in {"auth", "end"}
        BY <1>1, <1>2, <3>5 DEF AuthSkip
      <4>2. \A i \in DOMAIN Stream' : IsAuth(Stream'[i]) => i = Len(Stream')
        <5> SUFFICES ASSUME NEW i \in DOMAIN Stream', IsAuth(Stream'[i]) PROVE i = Len(Stream')
          OBVIOUS
        <5>1. i + 1 \in DOMAIN Stream /\ Stream'[i] = Stream[i + 1] /\ Len(Stream') + 1 = Len(Stream)
              /\ i \in Nat /\ Len(Stream') \in Nat
          BY <3>2, RestOf, DomainIs
        <5>2. i + 1 = Len(Stream)
          BY <2>1, <5>1
        <5> QED BY <5>1, <5>2
      <4> QED BY <1>1, <2>1, <3>3, <4>1, <4>2 DEF Handshake
    <3> QED BY <2>2, <3>4, <3>5
  <2>3. CASE AuthLate \/ AuthHangUp
    <3>1. pc' = "end"
      BY <1>2, <2>3 DEF AuthLate, AuthHangUp
    <3> QED BY <3>1, PastHandshake
  <2> QED BY <2>2, <2>3 DEF Auth
<1> QED BY <1>1, <1>3, <1>4, StillKeepsH

LEMMA ServerKeepsH ==
    ASSUME OInv, AskewAtTheStart, HInv, Take \/ Emit \/ SlipIn \/ Arrive \/ HangUp
    PROVE  HInv'
<1>1. /\ UNCHANGED <<pc, call, res, script, hungUp>> /\ TypeOK
      /\ wire \in Seq(Frames) /\ plan \in Seq(Frames) /\ Stream \in Seq(Frames)
      /\ inbox \in Seq(Requests) /\ noise \in Nat
  <2>1. noise \in Nat
    BY Limits DEF OInv, TypeOK
  <2> QED BY <2>1, Parts, StreamIs DEF Take, Emit, SlipIn, Arrive, HangUp, client, history
<1>2. noise' = 0 => noise = 0
  BY <1>1 DEF Take, Emit, SlipIn, Arrive, HangUp, server
<1>3. Handshake'
  <2> SUFFICES ASSUME noise' = 0, noise = 0, pc \in {"auth", "ready"}, pc = "ready" => call = 1
               PROVE  Handshake'
    BY <1>1, <1>2 DEF Handshake
  <2>1. ~SlipIn
    BY <1>1 DEF SlipIn
  <2>2. pc = "auth" =>
          /\ \A i \in DOMAIN Stream : IsAuth(Stream[i]) => i = Len(Stream)
          /\ Len(inbox) <= 1 /\ (inbox # <<>> => Stream = <<>>)
          /\ \A i \in DOMAIN inbox : inbox[i].id = "auth"
    BY DEF HInv, Handshake
  <2>3. pc = "ready" => Stream = <<>> /\ inbox = <<>>
    BY DEF HInv, Handshake
  <2>4. ASSUME Stream' = Stream, inbox' = inbox PROVE Handshake'
    BY <1>1, <2>2, <2>3, <2>4 DEF Handshake
  <2>5. CASE Arrive
    BY <2>4, <2>5 DEF Arrive, Stream, server
  <2>6. CASE Emit
    <3>1. wire' \o plan' = wire \o plan /\ inbox' = inbox
      BY <1>1, <2>6, Written DEF Emit, Write
    <3> QED BY <2>4, <3>1 DEF Stream
  <2>7. CASE HangUp
    <3>1. inbox' = <<>> /\ plan' = <<>> /\ wire' = wire
      BY <2>7 DEF HangUp
    <3>2. Stream' = wire /\ Starts(wire, Stream)
      BY <1>1, <3>1, StartOf, ConcatEmptySeq DEF Stream
    <3>3. Len(<<>>) = 0 /\ DOMAIN <<>> = {}
      OBVIOUS
    <3>4. Stream = <<>> => wire = <<>>
      <4>1. Stream = <<>> => Len(wire) = 0
        BY <3>2, <3>3 DEF Starts
      <4> QED BY <1>1, <4>1, DomainIs
    <3>5. pc = "auth" => \A i \in DOMAIN wire : IsAuth(wire[i]) => i = Len(wire)
      <4> SUFFICES ASSUME pc = "auth", NEW i \in DOMAIN wire, IsAuth(wire[i]) PROVE i = Len(wire)
        OBVIOUS
      <4>1. i \in 1 .. Len(wire) /\ i \in 1 .. Len(Stream) /\ Stream[i] = wire[i] /\ i \in DOMAIN Stream
            /\ Len(wire) <= Len(Stream) /\ Len(wire) \in Nat /\ Len(Stream) \in Nat
        BY <3>2 DEF Starts
      <4>2. i = Len(Stream)
        BY <2>2, <4>1
      <4> QED BY <4>1, <4>2
    <3> QED BY <1>1, <2>3, <3>1, <3>2, <3>3, <3>4, <3>5 DEF Handshake
  <2>8. CASE Take
    <3>1. /\ inbox # <<>> /\ Head(inbox) = inbox[1] /\ inbox' = Tail(inbox) /\ wire' = wire
      BY <2>8, TakeIs
    <3>2. pc = "auth" /\ Stream = <<>> /\ 1 \in DOMAIN inbox /\ inbox[1].id = "auth"
          /\ Len(inbox) = 1
      <4>1. DOMAIN inbox = 1 .. Len(inbox) /\ Len(inbox) \in Nat /\ Len(inbox) # 0
        BY <1>1, <3>1, QueueIs
      <4> QED BY <2>2, <2>3, <3>1, <4>1
    <3>3. TakeAuth
      BY <2>8, <3>1, <3>2 DEF Take
    <3>4. inbox' = <<>>
      <4>1. Tail(inbox) \in Seq(Requests) /\ Len(Tail(inbox)) = 0
        BY <1>1, <3>1, <3>2, HeadTailProperties
      <4> QED BY <3>1, <4>1, QueueIs
    <3>5. wire = <<>>
      <4>1. Len(wire \o plan) = Len(wire) + Len(plan) /\ Len(wire) \in Nat /\ Len(plan) \in Nat
            /\ Len(wire \o plan) = 0
        BY <1>1, <3>2, Joined DEF Stream
      <4>2. Len(wire) = 0
        BY <4>1
      <4> QED BY <1>1, <4>2, DomainIs
    <3>6. /\ plan' \in Seq(Frames)
          /\ \A i \in DOMAIN plan' : IsAuth(plan'[i]) => i = Len(plan')
      BY <1>1, <3>2, <3>3, TakeAuthIs DEF Served
    <3>7. Stream' = plan'
      BY <3>1, <3>5, <3>6, ConcatEmptySeq DEF Stream
    <3> QED BY <1>1, <3>2, <3>4, <3>6, <3>7 DEF Handshake
  <2> QED BY <2>1, <2>5, <2>6, <2>7, <2>8
<1> QED BY <1>1, <1>2, <1>3, StillKeepsH

LEMMA HInvInit == Init => HInv
<1> SUFFICES ASSUME Init PROVE HInv
  OBVIOUS
<1>1. /\ inbox \in Seq(Requests) /\ DOMAIN inbox = {1} /\ inbox[1].id = "auth" /\ Len(inbox) = 1
  BY DEF Init, Requests
<1>2. Stream = <<>>
  BY ConcatEmptySeq DEF Init, Stream
<1> QED BY <1>1, <1>2 DEF Init, HInv, Handshake, Reported

LEMMA HInvStep == OInv /\ AskewAtTheStart /\ HInv /\ [Next]_vars => HInv'
<1> SUFFICES ASSUME OInv, AskewAtTheStart, HInv, [Next]_vars PROVE HInv'
  OBVIOUS
<1>1. CASE UNCHANGED vars
  BY <1>1 DEF vars, client, server, history, HInv, Handshake, Reported, Stream
<1> QED BY <1>1, AuthKeepsH, ClientKeepsH, ServerKeepsH DEF Next

\* A command fired after the server had hung up is reported, not counted as sent
\* (Fire, peerGone), on a connection that it has for itself (rconFire); and a
\* command that returns no error returns its whole answer.
THEOREM AnswersTellTheTruth == Spec => []AnswersAreTrue
<1>1. HInv => HungUpIsReported
  BY DEF HInv, Reported, HungUpIsReported
<1>2. WInv => WholeAnswer
  BY DEF WInv, Done, HasAll, WholeAnswer
<1> QED BY <1>1, <1>2, OInvInit, OInvStep, WInvInit, WInvStep, HInvInit, HInvStep, PTL
        DEF Spec, AnswersAreTrue


==============================================================================
