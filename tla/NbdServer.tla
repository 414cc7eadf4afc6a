------------------------------ MODULE NbdServer ------------------------------
(***************************************************************************)
(* The streaming server of RAUC (rauc/src/nbd.c): a child process that     *)
(* answers the requests it reads from a socket with ranges it fetches over *)
(* HTTP, many at a time.  At the other end of the socket is first RAUC,    *)
(* which configures the server and reads the bundle's signature with one   *)
(* request after the other, then the kernel's nbd driver, whose requests   *)
(* overlap, until the driver or RAUC hangs up.                             *)
(*                                                                         *)
(* A byte range is its request's handle.  What the remote server sends is  *)
(* one of Outcomes; that it sends something, or that the connection ends,  *)
(* is assumed in Fairness: curl is given a limit on connecting only.       *)
(***************************************************************************)
EXTENDS Naturals, Sequences, FiniteSets

CONSTANTS
    Reads,          \* handles of read requests
    Configure,      \* the handle of the configure request
    MaxErrors       \* retries of a request, 5 in the code

ASSUME ReadsAssumption == Configure \notin Reads
ASSUME MaxErrorsAssumption == MaxErrors \in Nat

\* One attempt: 206 with all of the range, 206 with less, a whole answer with
\* another code, 404, or any other failure curl reports.
Outcomes == {"whole", "short", "other", "missing", "failed"}

Handles == Reads \cup {Configure}
ASSUME HandlesAssumption == "disc" \notin Handles
Items == [head : Handles \cup {"disc"}] \cup {[body |-> TRUE]}
Answers == [handle : Handles, ok : BOOLEAN]

VARIABLES
    user,       \* who holds the client's end: "rauc", "kernel", "closed"
    asked,      \* requests sent so far
    got,        \* their answers, in order
    inbox,      \* what the server has still to read from the socket
    url,        \* the server knows its URL
    errors,     \* the transfers on the curl handle, with their errors so far
    outbox,     \* answers the client has still to read
    server,     \* "up", "exited", "refused" (configuration), "aborted"
    causes      \* how each attempt so far ended, by handle

vars == <<user, asked, got, inbox, url, errors, outbox, server, causes>>

TypeOK ==
    /\ user \in {"rauc", "kernel", "closed"}
    /\ asked \subseteq Handles
    /\ got \in Seq(Answers) /\ outbox \in Seq(Answers)
    /\ inbox \in Seq(Items)
    /\ url \in BOOLEAN
    /\ DOMAIN errors \subseteq asked
    /\ \A h \in DOMAIN errors : errors[h] \in 0 .. MaxErrors
    /\ server \in {"up", "exited", "refused", "aborted"}
    /\ causes \in [Handles -> Seq(Outcomes)]

Init ==
    /\ user = "rauc" /\ asked = {} /\ got = <<>>
    /\ inbox = <<>> /\ url = FALSE /\ errors = <<>>
    /\ outbox = <<>> /\ server = "up"
    /\ causes = [h \in Handles |-> <<>>]

----------------------------------------------------------------------------
Answered(h) == \E i \in DOMAIN got : got[i].handle = h
Outstanding == {h \in asked : ~Answered(h)}
Configured == \E i \in DOMAIN got : got[i] = [handle |-> Configure, ok |-> TRUE]

serverVars == <<url, errors, outbox, server, causes>>

\* nbd_configure: the request and its body, the URL and the headers.
Configuring ==
    /\ user = "rauc" /\ asked = {}
    /\ asked' = {Configure}
    /\ inbox' = inbox \o <<[head |-> Configure], [body |-> TRUE]>>
    /\ UNCHANGED <<user, got>> /\ UNCHANGED serverVars

\* r_nbd_read, which waits for the answer of one request before the next, and
\* the kernel, which does not.
Read(h) ==
    /\ user \in {"rauc", "kernel"} /\ Configured
    /\ user = "rauc" => Outstanding = {}
    /\ h \in Reads \ asked
    /\ asked' = asked \cup {h}
    /\ inbox' = Append(inbox, [head |-> h])
    /\ UNCHANGED <<user, got>> /\ UNCHANGED serverVars

Receive ==
    /\ user # "closed" /\ outbox # <<>>
    /\ got' = Append(got, Head(outbox))
    /\ outbox' = Tail(outbox)
    /\ UNCHANGED <<user, asked, inbox, url, errors, server, causes>>

\* r_nbd_setup_device: the socket goes to the kernel's driver.
HandOver ==
    /\ user = "rauc" /\ Configured /\ Outstanding = {}
    /\ user' = "kernel"
    /\ UNCHANGED <<asked, got, inbox>> /\ UNCHANGED serverVars

\* r_nbd_stop_server and r_nbd_remove_device: a disconnect request, then the end
\* of the socket.  The driver does the same when it gives up on a request.
HangUp ==
    /\ \/ user = "kernel"
       \/ user = "rauc" /\ Outstanding = {}
    /\ user' = "closed" /\ outbox' = <<>>
    /\ inbox' = Append(inbox, [head |-> "disc"])
    /\ UNCHANGED <<asked, got, url, errors, server, causes>>

\* A client that dies, as RAUC does by itself when it is cut off in a request.
Die ==
    /\ user # "closed"
    /\ user' = "closed" /\ outbox' = <<>>
    /\ UNCHANGED <<asked, got, inbox, url, errors, server, causes>>

----------------------------------------------------------------------------
Without(f, h) == [k \in DOMAIN f \ {h} |-> f[k]]
With(f, h, v) == [k \in DOMAIN f \cup {h} |-> IF k = h THEN v ELSE f[k]]

\* start_request, of a handle not seen before: a configure request has its body
\* behind it, which start_configure reads when it has no URL yet, and not when it
\* tries again.  StartLeavesBody is one that looks for the URL the other way round.
StartLeavesBody(h) == IF h = Configure /\ url THEN Tail(Tail(inbox)) ELSE Tail(inbox)
Start(h) == IF h = Configure /\ ~url THEN Tail(Tail(inbox)) ELSE Tail(inbox)

\* The loop of r_nbd_run_server takes one request.  A body where a request should
\* be has no magic number, and the server aborts.
Take ==
    /\ server = "up" /\ inbox # <<>>
    /\ UNCHANGED <<user, asked, got, outbox, causes>>
    /\ IF "head" \notin DOMAIN Head(inbox)
         THEN server' = "aborted" /\ UNCHANGED <<inbox, url, errors>>
       ELSE LET h == Head(inbox).head IN
         IF h = "disc"
           THEN /\ server' = "exited" /\ inbox' = Tail(inbox)
                /\ UNCHANGED <<url, errors>>
           ELSE /\ inbox' = Start(h)
                /\ url' = (url \/ h = Configure)
                /\ errors' = With(errors, h, 0)
                /\ UNCHANGED server

\* The end of the socket; PollsOn finds nothing to read there, and looks again.
PollsOn == server = "up" /\ user = "closed" /\ inbox = <<>> /\ UNCHANGED vars
SeeDisconnect ==
    /\ server = "up" /\ user = "closed" /\ inbox = <<>>
    /\ server' = "exited"
    /\ UNCHANGED <<user, asked, got, inbox, url, errors, outbox, causes>>

\* What curl calls a success.
FromCurl(outcome) == outcome \in {"whole", "short", "other"}

\* What a write to the socket puts there: nothing once it is closed, which a
\* server that ignores SIGPIPE takes for a failure and aborts on.
Reply(a) ==
    IF user = "closed"
      THEN server' = "aborted" /\ UNCHANGED outbox
      ELSE outbox' = Append(outbox, a)

\* finish_read: a range that is not whole ends the server between the head of its
\* answer and the body.  FinishReadAnyCode does not look at the response code.
FinishReadAnyCode(h, outcome) ==
    IF outcome = "short"
      THEN server' = "aborted" /\ UNCHANGED outbox
      ELSE /\ Reply([handle |-> h, ok |-> FromCurl(outcome)])
           /\ user # "closed" => UNCHANGED server
FinishRead(h, outcome) ==
    IF outcome = "short"
      THEN server' = "aborted" /\ UNCHANGED outbox
      ELSE /\ Reply([handle |-> h, ok |-> outcome = "whole"])
           /\ user # "closed" => UNCHANGED server

\* finish_configure: after a refusal the server ends.
FinishConfigure(outcome) ==
    /\ Reply([handle |-> Configure, ok |-> outcome = "whole"])
    /\ user # "closed" => server' = IF outcome = "whole" THEN server ELSE "refused"

\* The error policy of r_nbd_run_server; RetryDropped forgets to start the request again.
GivesUp(h, outcome) == outcome = "missing" \/ errors[h] >= MaxErrors
RetryDropped(h) == Without(errors, h)
Retry(h) == [errors EXCEPT ![h] = @ + 1]

\* A transfer ends, and its request with it or, after a second's pause in which the
\* server does nothing else, it is started again.
Complete(h, outcome) ==
    /\ server = "up" /\ h \in DOMAIN errors
    /\ causes' = [causes EXCEPT ![h] = Append(@, outcome)]
    /\ IF FromCurl(outcome) \/ GivesUp(h, outcome)
         THEN /\ errors' = Without(errors, h)
              /\ IF h = Configure THEN FinishConfigure(outcome) ELSE FinishRead(h, outcome)
         ELSE /\ errors' = Retry(h)
              /\ UNCHANGED <<outbox, server>>
    /\ UNCHANGED <<user, asked, got, inbox, url>>

Completes(h) == \E o \in Outcomes : Complete(h, o)

Done == server # "up" /\ user = "closed" /\ UNCHANGED vars

Server == Take \/ SeeDisconnect \/ \E h \in Handles : Completes(h)

Next ==
    \/ Configuring \/ \E h \in Reads : Read(h)
    \/ Receive \/ HandOver \/ HangUp \/ Die
    \/ Server \/ Done

\* The server's loop goes on, every attempt ends some time, and the client reads
\* what it is sent.
Fairness ==
    /\ WF_vars(Take) /\ WF_vars(SeeDisconnect) /\ WF_vars(Receive)
    /\ \A h \in Handles : WF_vars(Completes(h))

Spec == Init /\ [][Next]_vars /\ Fairness
----------------------------------------------------------------------------
(* What the other end of the socket relies on.                              *)

\* Over all the retries and overlapping transfers of r_nbd_run_server, a request is
\* answered at most once and only if it was made, with data exactly if its last
\* attempt brought the whole range, and with an error only for an answer that says
\* the range cannot be had or after MaxErrors + 1 failures.
Given == got \o outbox
AnswersHold ==
    /\ \A i, j \in DOMAIN Given : Given[i].handle = Given[j].handle => i = j
    /\ \A i \in DOMAIN Given :
         LET h == Given[i].handle
             tries == causes[h]
             last == tries[Len(tries)] IN
         /\ h \in asked \ DOMAIN errors
         /\ Given[i].ok <=> last = "whole"
         /\ last = "failed" => Len(tries) = MaxErrors + 1
         /\ \A k \in 1 .. Len(tries) - 1 : tries[k] = "failed"

\* Client and server stay in step on the socket (start_configure reads the body of
\* its request once): the server aborts only on a short range or a client that is gone.
InStep ==
    server = "aborted" =>
        \/ user = "closed"
        \/ \E h \in Reads : \E i \in DOMAIN causes[h] : causes[h][i] = "short"

\* Whoever waits on the socket, RAUC in r_nbd_read or a process in the kernel, is
\* answered, or sees the other end go.
AnsweredOrEnded ==
    \A h \in Handles :
        h \in asked ~> (Answered(h) \/ user = "closed" \/ server # "up")

\* r_nbd_stop_server waits for the child without a limit: once the client's end is
\* closed the child ends, whatever it was doing.
ServerEnds == user = "closed" ~> server # "up"
=============================================================================
