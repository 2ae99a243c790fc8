-------------------------------- MODULE Rcon --------------------------------
(***************************************************************************)
(* One RCON connection (internal/rcon/rcon.go): Dial's handshake, then the *)
(* commands of a script by ExecContext or by Fire, against a game server     *)
(* that answers in order, may split an answer, pause anywhere, slip in     *)
(* frames of its own, and hang up.                                         *)
(*                                                                         *)
(* A timeout is possible whenever no whole frame is there to be read,      *)
(* however long the window.  A frame may have arrived in part when that    *)
(* happens: the part that was read is gone, and what is left of the frame  *)
(* is where the next read takes a length from (Garbage).                   *)
(*                                                                         *)
(* After a failed command the script goes on, as the client allows         *)
(* ("timeouts stay retryable"); the callers in internal/agent/server.go    *)
(* stop earlier.  Packet ids do not wrap within a script.                  *)
(***************************************************************************)
EXTENDS Integers, Sequences

CONSTANTS
    Scripts,    \* what the agent makes connections for: a sequence of calls
                \* "exec" or "fire" each; a command that is fired has a connection
                \* of its own (rconFire)
    MaxFull,    \* full-size packets in an answer, at most
    Limit,      \* maxResponseSize, in packets
    AuthMax,    \* authMaxPackets
    Noise,      \* frames of its own that the server may slip in
    Torn        \* may a deadline fall in the middle of a frame?

ASSUME ScriptsAssumption ==
    /\ Scripts \subseteq Seq({"exec", "fire"}) \ {<<>>}
    /\ \E s \in Scripts : \A t \in Scripts : Len(t) <= Len(s)
    /\ \A s \in Scripts : \A k \in DOMAIN s : s[k] = "fire" => k = 1
ASSUME LimitsAssumption ==
    /\ {MaxFull, Limit, Noise} \subseteq Nat
    /\ AuthMax \in Nat \ {0}
ASSUME TornAssumption == Torn \in BOOLEAN

Longest == CHOOSE s \in Scripts : \A t \in Scripts : Len(t) <= Len(s)
Calls == 1 .. Len(Longest)

\* A frame of the wire: the call it answers, whether it carries that call's
\* id or its end marker's, its size, and which data packet of the answer it is.
Frame(k, id, size, n) == [call |-> k, id |-> id, size |-> size, n |-> n]
Ids == {"cmd", "end", "authOk", "authNo", "other", "garbage"}
Sizes == {"empty", "short", "full"}
Frames == [call : {0} \union Calls, id : Ids, size : Sizes, n : 0 .. MaxFull + 1]
Foreign == Frame(0, "other", "short", 0)
Garbage == Frame(0, "garbage", "short", 0)
Requests == [call : {0} \union Calls, id : {"auth", "cmd", "end"}]
Results == {"none", "ok", "truncated", "timeout", "closed", "malformed",
            "cancelled", "refused"}

VARIABLES
    \* the client
    script,     \* the calls of this connection
    pc, call, responses, splitPending, frames, broken,
    out,        \* the output of each call, as the data packets it is made of
    res,        \* what each call returned; res[0] is Dial's answer
    \* the socket
    wire, arriving, closed, inbox,
    \* the server
    plan, accepts, mirrors, acks, noise,
    answer,     \* how many data packets a call's answer has; -1: not begun
    \* history, not in the code
    hungUp,     \* calls made after the server had hung up
    askew       \* calls made on a connection that had lost the frame boundary

client == <<script, pc, call, responses, splitPending, frames, broken, out, res>>
server == <<plan, accepts, mirrors, acks, noise, answer>>
history == <<hungUp, askew>>
vars == <<client, wire, arriving, closed, inbox, server, history>>

TypeOK ==
    /\ script \in Scripts
    /\ pc \in {"auth", "ready", "exec", "drain", "peeked", "fire", "end"}
    /\ call \in 1 .. Len(script) + 1
    /\ responses \in Nat
    /\ splitPending \in BOOLEAN
    /\ frames \in 0 .. AuthMax + 2
    /\ broken \in BOOLEAN
    /\ out \in [Calls -> Seq(Calls \X (1 .. MaxFull + 1))]
    /\ res \in [{0} \union Calls -> Results]
    /\ wire \in Seq(Frames)
    /\ arriving \in BOOLEAN /\ (arriving => wire # <<>>)
    /\ closed \in BOOLEAN
    /\ inbox \in Seq(Requests)
    /\ plan \in Seq(Frames)
    /\ accepts \in BOOLEAN
    /\ mirrors \in BOOLEAN
    /\ acks \in BOOLEAN
    /\ noise \in 0 .. Noise
    /\ answer \in [Calls -> -1 .. MaxFull + 1]
    /\ {hungUp, askew} \subseteq SUBSET Calls

-----------------------------------------------------------------------------
(***************************************************************************)
(* Reading a frame (readPacket, readError, breakConn)                      *)
(***************************************************************************)
Readable == wire # <<>> /\ (Len(wire) > 1 \/ ~arriving)

\* The next frame is there, and the stream is at its start.
Whole == Readable /\ Head(wire) # Garbage

Consume == wire' = Tail(wire) /\ UNCHANGED arriving

\* No whole frame came in time.  What had arrived of one has been read.
Late ==
    /\ ~Readable /\ ~closed
    /\ arriving => Torn
    /\ wire' = (IF arriving THEN <<Garbage>> ELSE wire)
    /\ UNCHANGED <<arriving, broken>>

\* The server has hung up: a short read, or none at all, ends the connection.
HangUpSeen ==
    /\ ~Readable /\ closed
    /\ wire' = <<>> /\ arriving' = FALSE
    /\ broken' = TRUE

\* A length taken from the middle of a frame: mostly nonsense, ...
BadSize ==
    /\ Readable /\ Head(wire) = Garbage
    /\ wire' = Tail(wire) /\ UNCHANGED arriving
    /\ broken' = TRUE

\* ... and sometimes a size that fits, which then takes what follows for the
\* body: the next frame whole, or a part of it.
Misread ==
    /\ Readable /\ Head(wire) = Garbage /\ Len(wire) > 1
    /\ \/ wire' = <<Garbage>> \o SubSeq(wire, 3, Len(wire)) /\ UNCHANGED arriving
       \/ /\ Len(wire) > 2 \/ ~arriving
          /\ wire' = SubSeq(wire, 3, Len(wire)) /\ UNCHANGED arriving
    /\ UNCHANGED broken

-----------------------------------------------------------------------------
(***************************************************************************)
(* The handshake (Dial, auth)                                              *)
(***************************************************************************)
Dialled(result) ==
    /\ res' = [res EXCEPT ![0] = result]
    /\ pc' = IF result = "ok" THEN "ready" ELSE "end"

AuthAnswered ==
    /\ Whole /\ Head(wire).id \in {"authOk", "authNo"}
    /\ Consume
    /\ Dialled(IF Head(wire).id = "authOk" THEN "ok" ELSE "refused")
    /\ UNCHANGED <<frames, broken>>

\* Another frame first.
AuthSkip ==
    /\ Whole /\ Head(wire).id \notin {"authOk", "authNo"}
    /\ Consume
    /\ frames' = frames + 1
    /\ IF frames' = AuthMax THEN Dialled("malformed") ELSE UNCHANGED <<pc, res>>
    /\ UNCHANGED broken

AuthLate == Late /\ Dialled("timeout") /\ UNCHANGED frames

\* A hang-up during the handshake is taken for the rejection.
AuthHangUp == HangUpSeen /\ Dialled("refused") /\ UNCHANGED frames

Auth ==
    /\ pc = "auth"
    /\ AuthAnswered \/ AuthSkip \/ AuthLate \/ AuthHangUp
    /\ UNCHANGED <<script, call, responses, splitPending, out, closed, inbox, server, history>>

-----------------------------------------------------------------------------
(***************************************************************************)
(* ExecContext                                                             *)
(***************************************************************************)
Return(result) ==
    /\ res' = [res EXCEPT ![call] = result]
    /\ pc' = IF call = Len(script) THEN "end" ELSE "ready"
    /\ call' = call + 1

\* The next call of the script is made.
Calling(op) ==
    /\ pc = "ready" /\ script[call] = op
    /\ hungUp' = hungUp \union (IF closed THEN {call} ELSE {})
    /\ askew' = askew \union (IF wire # <<>> /\ Head(wire) = Garbage THEN {call} ELSE {})
    /\ UNCHANGED script

\* A retired connection fails every call; a write to one the server has closed
\* fails too, unless it is the first, which the kernel takes.
CallFails(op) ==
    /\ Calling(op)
    /\ broken \/ (closed /\ op = "exec")
    /\ Return("closed")
    /\ UNCHANGED <<responses, splitPending, frames, broken, out, wire, arriving, closed, inbox, server>>

ExecStart ==
    /\ Calling("exec") /\ ~broken
    /\ inbox' = IF closed THEN inbox
                ELSE inbox \o <<[call |-> call, id |-> "cmd"], [call |-> call, id |-> "end"]>>
    /\ responses' = 0
    /\ splitPending' = FALSE
    /\ pc' = "exec"
    /\ UNCHANGED <<call, frames, broken, out, res, wire, arriving, closed, server>>

OverLimit == Len(out[call]) > Limit

\* The context ended, or the answer has grown too long.
ExecStops ==
    /\ \/ Return("cancelled")
       \/ OverLimit /\ Return("truncated")
    /\ UNCHANGED <<responses, splitPending, frames, out, wire, arriving, broken>>

\* Mutant: an answer is taken by its type alone.
OurDataByType(f) == f.id = "cmd"

OurData(f) == f.id = "cmd" /\ f.call = call

\* A packet of this command's answer.  An empty one ends the answer once there
\* is output; a full one promises another.
ExecData ==
    LET f == Head(wire) IN
    /\ Whole /\ OurData(f)
    /\ Consume
    /\ responses' = responses + 1
    /\ IF f.size # "empty"
         THEN /\ out' = [out EXCEPT ![call] = Append(@, <<f.call, f.n>>)]
              /\ splitPending' = (f.size = "full")
              /\ UNCHANGED <<pc, call, res>>
         ELSE /\ UNCHANGED <<out, splitPending>>
              /\ IF out[call] # <<>> THEN Return("ok") ELSE UNCHANGED <<pc, call, res>>
    /\ UNCHANGED <<frames, broken>>

OurMarker(f) == f.id = "end" /\ f.call = call

\* The mirrored marker: everything meaningful has arrived.
ExecMarker ==
    /\ Whole /\ OurMarker(Head(wire))
    /\ Consume
    /\ pc' = "drain" /\ frames' = 0
    /\ UNCHANGED <<call, res, out, responses, splitPending, broken>>

\* Anything else is not an answer to this command.
ExecSkip ==
    /\ \/ /\ Whole /\ ~OurData(Head(wire)) /\ ~OurMarker(Head(wire))
          /\ Consume /\ UNCHANGED broken
       \/ Misread
    /\ UNCHANGED <<pc, call, res, out, responses, splitPending, frames>>

\* Mutant: silence after any packet means the answer is complete.
ExecLateIsComplete ==
    /\ Late
    /\ Return(IF responses > 0 THEN "ok" ELSE "timeout")
    /\ UNCHANGED <<out, responses, splitPending, frames>>

\* Silence.
ExecLate ==
    /\ Late
    /\ CASE responses > 0 /\ ~splitPending -> Return("ok")
         [] splitPending -> Return("truncated")
         [] OTHER -> Return("timeout")
    /\ UNCHANGED <<out, responses, splitPending, frames>>

ExecHangUp ==
    /\ HangUpSeen
    /\ Return(IF responses > 0 THEN "truncated" ELSE "closed")
    /\ UNCHANGED <<out, responses, splitPending, frames>>

ExecBadSize ==
    /\ BadSize /\ Return("malformed")
    /\ UNCHANGED <<out, responses, splitPending, frames>>

Exec ==
    /\ pc = "exec"
    /\ \/ ExecStops
       \/ /\ ~OverLimit
          /\ \/ ExecData \/ ExecMarker \/ ExecSkip
             \/ ExecLate \/ ExecHangUp \/ ExecBadSize
    /\ UNCHANGED <<script, closed, inbox, server, history>>

\* drainMarker: two more frames at most, none of them used.
Drain ==
    /\ pc = "drain"
    /\ \/ /\ Whole /\ OurMarker(Head(wire)) /\ frames = 0
          /\ Consume
          /\ frames' = 1
          /\ UNCHANGED <<pc, call, res, broken>>
       \/ /\ \/ Whole /\ (~OurMarker(Head(wire)) \/ frames = 1) /\ Consume /\ UNCHANGED broken
             \/ Late \/ HangUpSeen \/ BadSize \/ Misread
          /\ Return("ok")
          /\ UNCHANGED frames
    /\ UNCHANGED <<script, responses, splitPending, out, closed, inbox, server, history>>

-----------------------------------------------------------------------------
(***************************************************************************)
(* Fire                                                                    *)
(***************************************************************************)
\* peerGone: bytes waiting, or none and no hang-up either, pass for alive.
PeerGone == wire = <<>> /\ closed

FirePeek ==
    /\ Calling("fire") /\ ~broken
    /\ IF PeerGone THEN Return("closed") ELSE pc' = "peeked" /\ UNCHANGED <<call, res>>
    /\ UNCHANGED <<responses, splitPending, frames, broken, out, wire, arriving, closed, inbox, server>>

FireWrite ==
    /\ pc = "peeked"
    /\ \/ /\ pc' = "fire"
          /\ inbox' = IF closed THEN inbox ELSE Append(inbox, [call |-> call, id |-> "cmd"])
          /\ UNCHANGED <<call, res>>
       \/ closed /\ Return("closed") /\ UNCHANGED inbox
    /\ UNCHANGED <<script, responses, splitPending, frames, broken, out, wire, arriving, closed, server, history>>

\* One read; whatever comes of it, the command counts as sent.
FireRead ==
    /\ pc = "fire"
    /\ \/ Whole /\ Consume /\ UNCHANGED broken
       \/ Late \/ HangUpSeen \/ BadSize \/ Misread
    /\ Return("ok")
    /\ UNCHANGED <<script, responses, splitPending, frames, out, closed, inbox, server, history>>

-----------------------------------------------------------------------------
(***************************************************************************)
(* The game server                                                         *)
(***************************************************************************)
\* What it writes for an answer of full packets, a short one, and the empty
\* frames before and after.
Answer(k, ack, full, short, term) ==
    (IF ack THEN <<Frame(k, "cmd", "empty", 0)>> ELSE <<>>)
    \o [i \in 1 .. full |-> Frame(k, "cmd", "full", i)]
    \o (IF short THEN <<Frame(k, "cmd", "short", full + 1)>> ELSE <<>>)
    \o (IF term THEN <<Frame(k, "cmd", "empty", 0)>> ELSE <<>>)

TakeAuth ==
    /\ \E n \in 0 .. AuthMax :
         plan' = [i \in 1 .. n |-> Frame(0, "other", "empty", 0)]
                 \o <<Frame(0, IF accepts THEN "authOk" ELSE "authNo", "empty", 0)>>
    /\ UNCHANGED answer

TakeCommand(k) ==
    \E full \in 0 .. MaxFull, short, term \in BOOLEAN :
        /\ plan' = Answer(k, acks, full, short, term)
        /\ answer' = [answer EXCEPT ![k] = full + (IF short THEN 1 ELSE 0)]

TakeMarker(k) ==
    /\ plan' = IF mirrors THEN <<Frame(k, "end", "empty", 0), Frame(k, "end", "short", 0)>> ELSE <<>>
    /\ UNCHANGED answer

Take ==
    /\ inbox # <<>> /\ plan = <<>> /\ ~closed
    /\ LET r == Head(inbox) IN
         \/ r.id = "auth" /\ TakeAuth
         \/ r.id = "cmd" /\ TakeCommand(r.call)
         \/ r.id = "end" /\ TakeMarker(r.call)
    /\ inbox' = Tail(inbox)
    /\ UNCHANGED <<client, wire, arriving, closed, accepts, mirrors, acks, noise, history>>

\* A frame is written; its last bytes may be later.
Write(f) ==
    /\ ~arriving /\ ~closed
    /\ wire' = Append(wire, f)
    /\ arriving' \in BOOLEAN

Emit ==
    /\ plan # <<>>
    /\ Write(Head(plan))
    /\ plan' = Tail(plan)
    /\ UNCHANGED <<client, closed, inbox, accepts, mirrors, acks, noise, answer, history>>

SlipIn ==
    /\ noise < Noise
    /\ Write(Foreign)
    /\ noise' = noise + 1
    /\ UNCHANGED <<client, closed, inbox, plan, accepts, mirrors, acks, answer, history>>

Arrive ==
    /\ arriving /\ ~closed
    /\ arriving' = FALSE
    /\ UNCHANGED <<client, wire, closed, inbox, server, history>>

HangUp ==
    /\ ~closed
    /\ closed' = TRUE
    /\ inbox' = <<>> /\ plan' = <<>>
    /\ UNCHANGED <<client, wire, arriving, accepts, mirrors, acks, noise, answer, history>>

-----------------------------------------------------------------------------
\* Connected, the password sent.
Init ==
    /\ script \in Scripts
    /\ pc = "auth" /\ call = 1
    /\ responses = 0 /\ splitPending = FALSE /\ frames = 0 /\ broken = FALSE
    /\ out = [k \in Calls |-> <<>>]
    /\ res = [k \in {0} \union Calls |-> "none"]
    /\ wire = <<>> /\ arriving = FALSE /\ closed = FALSE
    /\ inbox = <<[call |-> 0, id |-> "auth"]>>
    /\ plan = <<>> /\ noise = 0
    /\ accepts \in BOOLEAN /\ mirrors \in BOOLEAN /\ acks \in BOOLEAN
    /\ answer = [k \in Calls |-> -1]
    /\ hungUp = {} /\ askew = {}

\* The caller closes the connection after the last call.
Next ==
    \/ Auth
    \/ CallFails("exec") \/ CallFails("fire")
    \/ ExecStart \/ Exec \/ Drain
    \/ FirePeek \/ FireWrite \/ FireRead
    \/ pc # "end" /\ (Take \/ Emit \/ SlipIn \/ Arrive \/ HangUp)

Spec == Init /\ [][Next]_vars

-----------------------------------------------------------------------------
\* A call that returns no error returns the whole answer, every packet of it in
\* order: "it must never be passed off as the whole answer" (ErrTruncated),
\* however the server splits it and wherever it pauses, hangs up or slips in a
\* frame of its own (ExecContext's splitPending, end marker and idle window).
\* Both exceptions are real: a call on a connection that an earlier timeout left
\* in the middle of a frame may miss packets, and silence after the empty frame
\* that some servers acknowledge a command with passes for an empty answer.
WholeAnswer ==
    \A k \in Calls \ askew :
        res[k] = "ok" /\ script[k] = "exec" =>
            \/ out[k] = [i \in 1 .. answer[k] |-> <<k, i>>]
            \/ acks /\ out[k] = <<>>

\* What a call returns, also with an error, is made of packets of its own
\* answer, in the order they were written: a late packet or marker of an earlier
\* command on the connection is never read as part of it (the ids of
\* ExecContext, drainMarker).
OwnAnswer ==
    \A k \in Calls :
        /\ \A i \in DOMAIN out[k] : out[k][i][1] = k
        /\ \A i, j \in DOMAIN out[k] : i < j => out[k][i][2] < out[k][j][2]

\* A command fired after the server had hung up is reported, not counted as
\* sent: "a command that never reached the server used to be reported as map
\* change started" (Fire, peerGone).  A server that slips in a frame before it
\* hangs up is the real exception: peerGone sees that frame and not the end.
HungUpIsReported ==
    noise = 0 =>
        \A k \in hungUp : res[k] = "ok" => script[k] # "fire"

\* An answer without an error is the truth: the whole output of a command, and
\* a command that the server could have read.
AnswersAreTrue == WholeAnswer /\ HungUpIsReported

=============================================================================
