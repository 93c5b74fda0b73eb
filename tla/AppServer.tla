----------------------------- MODULE AppServer -----------------------------
(***************************************************************************)
(* AppServerClient of appserver.py: one caller, the `codex app-server'     *)
(* child it talks to over three pipes, and the two threads that read the   *)
(* child's stdout and stderr.                                              *)
(*                                                                         *)
(* The child answers when it likes or never, talks out of turn (it         *)
(* notifies, and it makes requests of its own whose ids may coincide with  *)
(* the client's), complains on stderr about a login it cannot use, and     *)
(* dies when it likes.  Every request has a deadline.  The first request   *)
(* is `initialize'; if it fails, the client closes.  A later one that      *)
(* failed leaves the client open: the caller leaves the `with' block or    *)
(* goes on.                                                                *)
(***************************************************************************)
EXTENDS Integers, Sequences

CONSTANTS
    MaxRequests, \* bound: the requests made in a session, initialize included
    MaxNoise     \* bound: the messages the child sends out of turn

ASSUME AppServerAssumption == MaxRequests \in Nat \ {0} /\ MaxNoise \in Nat

Ids == 1..MaxRequests

(* A line of the child: an answer, an error, an error that says the login  *)
(* was rejected, or a message with a "method"; a notification has id 0.    *)
(* `of' is the request it really answers, 0 for none.                      *)
Lines == [id : 0..MaxRequests, kind : {"result", "error", "auth"}, of : Ids]
         \cup [id : 0..MaxRequests, kind : {"method"}, of : {0}]
EOF == [id |-> 0, kind |-> "eof", of |-> 0]

VARIABLES
    pc,        \* the caller
    next,      \* _next_id; the request under way is next - 1
    expired,   \* its deadline has passed
    results,   \* what each finished request gave
    alive,     \* the child runs
    stdin,     \* the requests the child has not read yet
    stdout,    \* the lines _read_stdout has not read yet
    messages,  \* _messages
    reading,   \* _read_stdout is running
    complaint, \* the child has written an auth marker to stderr
    listening, \* _read_stderr is running
    auth,      \* _auth_failure
    hasty,     \* ghost: a join of the stderr thread timed out
    noise      \* messages out of turn so far

client == <<pc, next, expired, results, hasty>>
child == <<alive, stdin, stdout, complaint, noise>>
readers == <<messages, reading, listening, auth>>
vars == <<client, child, readers>>

Outcomes == {"error", "auth", "timeout", "connection"}
Request == next - 1
Give(r) == results' = Append(results, r)
Own(r) == [kind |-> "result", of |-> r]
Failure(o) == [kind |-> o, of |-> 0]

Init ==
    /\ pc = "open" /\ next = 1 /\ expired = FALSE /\ results = <<>>
    /\ hasty = FALSE
    /\ alive = TRUE /\ stdin = <<>> /\ stdout = <<>> /\ complaint = FALSE
    /\ noise = 0
    /\ messages = <<>> /\ reading = TRUE /\ listening = TRUE /\ auth = FALSE

-----------------------------------------------------------------------------
(* request: an id, a deadline, the write.  The pipe of a dead child breaks.*)
Send ==
    /\ pc = "open" /\ next <= MaxRequests
    /\ next > 1 => results[1].kind = "result"
    /\ next' = next + 1
    /\ expired' = FALSE
    /\ IF alive
       THEN /\ stdin' = Append(stdin, next)
            /\ pc' = "waiting"
       ELSE /\ stdin' = stdin
            /\ pc' = "joining"
    /\ UNCHANGED <<results, hasty, alive, stdout, complaint, noise, readers>>

(* As if any line with the right id were the answer.                       *)
SameId(m) == m.id = Request
(* As if the next answer were the answer to the last request.              *)
NextAnswer(m) == m.kind # "method"
Answers(m) == m.id = Request /\ m.kind # "method"

(* The loop of request: lines that are no answer to it are dropped.        *)
Skip ==
    /\ pc = "waiting" /\ messages # <<>>
    /\ Head(messages) # EOF /\ ~Answers(Head(messages))
    /\ messages' = Tail(messages)
    /\ UNCHANGED <<client, child, reading, listening, auth>>

Answered ==
    /\ pc = "waiting" /\ messages # <<>>
    /\ Head(messages) # EOF /\ Answers(Head(messages))
    /\ messages' = Tail(messages)
    /\ Give([kind |-> Head(messages).kind, of |-> Head(messages).of])
    /\ pc' = IF Request = 1 /\ Head(messages).kind = "result"
             THEN "notifying" ELSE "open"
    /\ UNCHANGED <<next, expired, hasty, child, reading, listening, auth>>

(* __enter__ tells the server that the handshake is over.  If the pipe is  *)
(* broken by then, the answer to `initialize' is of no use any more.       *)
Notify ==
    /\ pc = "notifying"
    /\ IF alive
       THEN pc' = "open" /\ results' = results
       ELSE pc' = "joining" /\ results' = <<>>
    /\ UNCHANGED <<next, expired, hasty, child, readers>>

(* As if the end of the stream were taken out of the queue.                *)
Consumed == Tail(messages)
(* The end of the stream is put back for the next request.                 *)
PutBack == Append(Tail(messages), EOF)

StreamEnded ==
    /\ pc = "waiting" /\ messages # <<>> /\ Head(messages) = EOF
    /\ messages' = PutBack
    /\ pc' = "joining"
    /\ UNCHANGED <<next, expired, results, hasty, child,
                   reading, listening, auth>>

(* As if a deadline were only noticed once the child is gone.              *)
Noticed == expired /\ ~alive
DeadlineIsPast == expired

(* remaining <= 0, or queue.Empty with a child that still runs.            *)
TimedOut ==
    /\ pc = "waiting" /\ DeadlineIsPast
    /\ Give(Failure("timeout"))
    /\ pc' = "open"
    /\ UNCHANGED <<next, expired, hasty, child, readers>>

(* queue.Empty, and poll() finds the child dead.                           *)
EmptyAndDead ==
    /\ pc = "waiting" /\ DeadlineIsPast /\ messages = <<>> /\ ~alive
    /\ pc' = "joining"
    /\ UNCHANGED <<next, expired, results, hasty, child, readers>>

(* As if _connection_error did not wait for the stderr thread.             *)
NoWait == TRUE
Joined == ~listening

(* _connection_error: wait for what the child had to say, at most a second *)
(* or what is left of the deadline.                                        *)
ConnectionError ==
    /\ pc = "joining" /\ Joined
    /\ Give(Failure(IF auth THEN "auth" ELSE "connection"))
    /\ pc' = "open"
    /\ UNCHANGED <<next, expired, hasty, child, readers>>

JoinTimesOut ==
    /\ pc = "joining" /\ listening
    /\ Give(Failure(IF auth THEN "auth" ELSE "connection"))
    /\ hasty' = TRUE
    /\ pc' = "open"
    /\ UNCHANGED <<next, expired, child, readers>>

(* The `with' block ends, by return or by exception: __exit__ closes stdin *)
(* and waits, terminates and waits, kills and waits.                       *)
Leave ==
    /\ pc = "open" /\ next > 1
    /\ pc' = "closing"
    /\ UNCHANGED <<next, expired, results, hasty, child, readers>>

Escalation == [closing |-> "terminating", terminating |-> "killing"]

WaitTimesOut ==
    /\ pc \in {"closing", "terminating"} /\ alive
    /\ pc' = Escalation[pc]
    /\ UNCHANGED <<next, expired, results, hasty, child, readers>>

Reaped == ~alive

(* The child is gone; the threads are joined, for at most three seconds.   *)
Close ==
    /\ pc \in {"closing", "terminating", "killing"} /\ Reaped
    /\ pc' = "closed"
    /\ UNCHANGED <<next, expired, results, hasty, child, readers>>

(* The deadline of the request under way passes.                           *)
Expire ==
    /\ pc = "waiting" /\ ~expired
    /\ expired' = TRUE
    /\ UNCHANGED <<pc, next, results, hasty, child, readers>>

-----------------------------------------------------------------------------
(* The threads.                                                            *)

ReadLine ==
    /\ reading /\ stdout # <<>>
    /\ messages' = Append(messages, Head(stdout))
    /\ stdout' = Tail(stdout)
    /\ UNCHANGED <<client, alive, stdin, complaint, noise,
                   reading, listening, auth>>

ReadEnd ==
    /\ reading /\ stdout = <<>> /\ ~alive
    /\ messages' = Append(messages, EOF)
    /\ reading' = FALSE
    /\ UNCHANGED <<client, child, listening, auth>>

(* _read_stderr up to the end of the stream or of what is there.           *)
Listen ==
    /\ listening
    /\ auth' = complaint
    /\ listening' = alive
    /\ <<auth, listening>>' # <<auth, listening>>
    /\ UNCHANGED <<client, child, messages, reading>>

-----------------------------------------------------------------------------
(* The child.                                                              *)

Reply ==
    /\ alive /\ stdin # <<>>
    /\ \E k \in {"result", "error", "auth"} :
          stdout' = Append(stdout, [id |-> Head(stdin), kind |-> k,
                                    of |-> Head(stdin)])
    /\ stdin' = Tail(stdin)
    /\ UNCHANGED <<client, alive, complaint, noise, readers>>

(* It reads a request and never answers it.                                *)
Ignore ==
    /\ alive /\ stdin # <<>>
    /\ stdin' = Tail(stdin)
    /\ UNCHANGED <<client, alive, stdout, complaint, noise, readers>>

OutOfTurn ==
    /\ alive /\ noise < MaxNoise
    /\ \E i \in 0..MaxRequests :
          stdout' = Append(stdout, [id |-> i, kind |-> "method", of |-> 0])
    /\ noise' = noise + 1
    /\ UNCHANGED <<client, alive, stdin, complaint, readers>>

Complain ==
    /\ alive /\ ~complaint
    /\ complaint' = TRUE
    /\ UNCHANGED <<client, alive, stdin, stdout, noise, readers>>

Die ==
    /\ alive
    /\ alive' = FALSE
    /\ UNCHANGED <<client, stdin, stdout, complaint, noise, readers>>

(* kill() cannot be ignored.                                               *)
Killed == pc = "killing" /\ Die

Client ==
    \/ Send \/ Skip \/ Answered \/ Notify
    \/ StreamEnded \/ TimedOut \/ EmptyAndDead \/ ConnectionError
    \/ JoinTimesOut \/ Leave \/ WaitTimesOut \/ Close

Child == Reply \/ Ignore \/ OutOfTurn \/ Complain \/ Die

Next == Client \/ Expire \/ ReadLine \/ ReadEnd \/ Listen \/ Child

Spec == Init /\ [][Next]_vars

(* The caller is scheduled, time passes, and a killed child dies.  Nothing *)
(* is assumed about a child that has not been killed.                      *)
FairSpec ==
    /\ Spec
    /\ WF_vars(Client) /\ WF_vars(Expire) /\ WF_vars(Killed)

-----------------------------------------------------------------------------
(* Properties.                                                             *)

(* Every variable has its type.                                            *)
TypeOK ==
    /\ pc \in {"open", "waiting", "notifying", "joining", "closing",
               "terminating", "killing", "closed"}
    /\ next \in 1..(MaxRequests + 1)
    /\ expired \in BOOLEAN /\ hasty \in BOOLEAN
    /\ results \in Seq([kind : Outcomes, of : 0..MaxRequests]
                       \cup {Own(r) : r \in Ids})
    /\ alive \in BOOLEAN /\ complaint \in BOOLEAN
    /\ stdin \in Seq(Ids)
    /\ stdout \in Seq(Lines)
    /\ messages \in Seq(Lines \cup {EOF})
    /\ reading \in BOOLEAN /\ listening \in BOOLEAN /\ auth \in BOOLEAN
    /\ noise \in 0..MaxNoise

(* What a request returns or raises for the server is the server's answer  *)
(* to that request: never the late answer to one that timed out, never a   *)
(* message the server sent of its own accord (request's two conditions).   *)
AnswerIsOwn ==
    \A r \in 1..Len(results) :
        \/ results[r] = Own(r)
        \/ results[r] \in {[kind |-> k, of |-> r] : k \in {"error", "auth"}}
        \/ results[r] \in {Failure(o) : o \in Outcomes \ {"error"}}

(* Once the stream has ended the queue says so to every later request      *)
(* (request: "Preserve EOF so a subsequent request cannot hang").          *)
EndIsKept ==
    ~reading => messages # <<>> /\ messages[Len(messages)] = EOF

(* A child that complained about its login and is gone is reported as      *)
(* such, although its stderr and its stdout are read by two threads,       *)
(* unless waiting for the former took too long (_connection_error).        *)
RejectionReported ==
    complaint /\ ~hasty => Failure("connection") \notin
        {results[r] : r \in 1..Len(results)}

(* Whatever the child does, and even if it does nothing at all, each       *)
(* request ends, the session does, and no child outlives it (request's     *)
(* deadline, __exit__).                                                    *)
SessionEnds == <>(pc = "closed" /\ ~alive)
=============================================================================
