-------------------------------- MODULE Fetch ---------------------------------
(***************************************************************************)
(* A download (internal/agent/fetch.go and Installer.download): the mirrors *)
(* of an artifact in turn, several attempts at each, the last of them with *)
(* the client that makes no use of HTTP/2; every attempt starts the file   *)
(* over, and a body is counted against the length the server declared.     *)
(*                                                                         *)
(* Upstream may refuse, be unwell, cut a body short with or without an     *)
(* error, and send more than the cap.  The path to it may break every      *)
(* attempt but the last kind.  The disk may fail, and the caller give up.  *)
(***************************************************************************)
EXTENDS Integers, Sequences

CONSTANTS
    Urls,           \* how many mirrors the entry has
    FetchAttempts,  \* fetchAttempts
    Sizes,          \* an artifact's, in chunks
    Cap             \* maxFileBytes, in chunks

FetchAssumption ==
    /\ {Urls, FetchAttempts} \subseteq Nat \ {0}
    /\ Sizes \subseteq Nat /\ Cap \in Nat

VARIABLES
    at,         \* "ask", "copy", "wait", "ok", "failed"
    url, attempt,
    file,       \* what is on disk: <<attempt of all, chunk>> in order
    sent,       \* chunks of this response written so far
    declared,   \* does it have a Content-Length?
    cancelled,  \* the caller's context has ended
    \* history, not in the code
    size,       \* of the artifact
    path,       \* "fine", or "breaks": what is not HTTP/1.1 does not pass
    faults      \* what has gone wrong so far, but for the path

vars == <<at, url, attempt, file, sent, declared, cancelled, size, path, faults>>

\* Attempts are numbered through.
This == (url - 1) * FetchAttempts + attempt

Body(r, n) == [i \in 1 .. n |-> <<r, i>>]

\* http11Client: the last attempt is made without HTTP/2.
Http11 == attempt = FetchAttempts

\* download: the next mirror, or the errors of all.
NextUrl ==
    /\ IF url = Urls
         THEN at' = "failed" /\ UNCHANGED <<url, attempt>>
         ELSE at' = "ask" /\ url' = url + 1 /\ attempt' = 1

\* httpGet after a failed attempt: another one if that may help.
Fails(retryable) ==
    IF retryable /\ ~cancelled /\ attempt < FetchAttempts
    THEN at' = "wait" /\ UNCHANGED <<url, attempt>>
    ELSE NextUrl

Fault(f) == faults' = faults \union {f}

\* The request fails: no connection, or an answer that is not 200.
AskFails ==
    /\ at = "ask"
    /\ \/ path = "breaks" /\ ~Http11 /\ Fails(TRUE) /\ UNCHANGED faults
       \/ Fails(TRUE) /\ Fault("reset")
       \/ Fails(TRUE) /\ Fault("unwell")
       \/ Fails(FALSE) /\ Fault("refused")
       \/ cancelled /\ Fails(FALSE) /\ UNCHANGED faults
    /\ UNCHANGED <<file, sent, declared, cancelled, size, path>>

\* Mutant: a retry goes on where the last attempt stopped.
AskAnsweredAppending ==
    /\ at = "ask" /\ ~cancelled
    /\ path = "breaks" => Http11
    /\ at' = "copy" /\ sent' = 0 /\ declared' \in BOOLEAN
    /\ UNCHANGED <<url, attempt, file, cancelled, size, path, faults>>

\* 200: the file is created anew.
AskAnswered ==
    /\ at = "ask" /\ ~cancelled
    /\ path = "breaks" => Http11
    /\ at' = "copy" /\ sent' = 0 /\ declared' \in BOOLEAN
    /\ file' = <<>>
    /\ UNCHANGED <<url, attempt, cancelled, size, path, faults>>

Chunk ==
    /\ at = "copy" /\ sent < size /\ sent <= Cap
    /\ sent' = sent + 1
    /\ file' = Append(file, <<This, sent + 1>>)
    /\ UNCHANGED <<at, url, attempt, declared, cancelled, size, path, faults>>

\* copyCapped: the body has ended, or the cap has been passed.
CopyEnds ==
    /\ at = "copy"
    /\ IF sent > Cap \/ (declared /\ sent # size)
         THEN Fails(TRUE) ELSE at' = "ok" /\ UNCHANGED <<url, attempt>>
    /\ faults' = faults \union (CASE sent > Cap -> {"large"}
                                  [] sent < size /\ sent <= Cap -> {"short"}
                                  [] OTHER -> {})
    /\ UNCHANGED <<file, sent, declared, cancelled, size, path>>

\* The connection dies, the disk is full, the caller gives up.
CopyFails ==
    /\ at = "copy"
    /\ \/ Fails(TRUE) /\ Fault("reset")
       \/ Fails(FALSE) /\ Fault("disk")
       \/ cancelled /\ Fails(FALSE) /\ UNCHANGED faults
    /\ UNCHANGED <<file, sent, declared, cancelled, size, path>>

\* The pause before the next attempt; a caller that gives up ends it.
Again ==
    /\ at = "wait"
    /\ IF cancelled THEN NextUrl
                    ELSE at' = "ask" /\ attempt' = attempt + 1 /\ UNCHANGED url
    /\ UNCHANGED <<file, sent, declared, cancelled, size, path, faults>>

Cancel ==
    /\ ~cancelled /\ at \notin {"ok", "failed"}
    /\ cancelled' = TRUE
    /\ Fault("cancelled")
    /\ UNCHANGED <<at, url, attempt, file, sent, declared, size, path>>

Init ==
    /\ at = "ask" /\ url = 1 /\ attempt = 1
    /\ file = <<>> /\ sent = 0 /\ declared = FALSE
    /\ cancelled = FALSE
    /\ size \in Sizes
    /\ path \in {"fine", "breaks"} /\ faults = {}

Next == AskFails \/ AskAnswered \/ Chunk \/ CopyEnds \/ CopyFails \/ Again \/ Cancel

Spec == Init /\ [][Next]_vars

-------------------------------------------------------------------------------
\* What a download without an error leaves on disk is the body of one response,
\* whole: never the end of one attempt behind the beginning of another, and not
\* a part of it unless the server declared no length ("a retry after a truncated
\* body must not append", "a valid-looking but corrupt archive").
FileIsOneBody ==
    at = "ok" =>
        \E r \in 1 .. Urls * FetchAttempts, n \in 0 .. size :
            /\ file = Body(r, n)
            /\ n = size \/ ~declared

\* A path that breaks HTTP/2 and nothing else never fails a download: the
\* last attempt at the first mirror gets through ("downgraded to HTTP/1.1 on the
\* last attempt").
PathIsSurvived == at = "failed" => faults # {}

\* What a download leaves is one complete body, also over a path that breaks
\* all but HTTP/1.1.
DownloadIsWhole == FileIsOneBody /\ PathIsSurvived

===============================================================================
