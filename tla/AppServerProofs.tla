-------------------------- MODULE AppServerProofs --------------------------
(***************************************************************************)
(* The safety of a session with the app-server, for any number of requests *)
(* and of messages out of turn.  What each property needs beside itself is *)
(* little: AnswerIsOwn, that no line changes on its way and that results   *)
(* are counted as requests are (LinesInv, CountInv); RejectionReported,    *)
(* that the stderr thread ends only after it has seen all (StderrInv).     *)
(***************************************************************************)
EXTENDS AppServer, TLAPS

(* An answer carries the id of what it answers.                            *)
Genuine(m) == m.kind # "method" => m.of = m.id

LinesInv ==
    /\ \A i \in 1..Len(stdout) : Genuine(stdout[i])
    /\ \A i \in 1..Len(messages) : Genuine(messages[i])

(* Each request gives one result.                                          *)
CountInv ==
    /\ pc \in {"waiting", "joining"} => next >= 2 /\ Len(results) = next - 2
    /\ pc = "notifying" => next = 2 /\ Len(results) = 1
    /\ pc = "open" => Len(results) = next - 1

StderrInv ==
    /\ ~listening => ~alive /\ auth = complaint
    /\ Failure("connection") \in {results[r] : r \in 1..Len(results)} =>
           hasty \/ (~alive /\ ~complaint)

SessionInv ==
    /\ TypeOK /\ LinesInv /\ CountInv /\ StderrInv
    /\ AnswerIsOwn /\ EndIsKept

Results ==
    [kind : Outcomes, of : 0..MaxRequests] \cup {Own(r) : r \in Ids}

-----------------------------------------------------------------------------
(* The sequences of the model.                                             *)

LEMMA OneMore ==
  ASSUME NEW X, NEW s \in Seq(X), NEW x \in X
  PROVE  /\ Append(s, x) \in Seq(X)
         /\ Len(Append(s, x)) = Len(s) + 1
         /\ Append(s, x)[Len(s) + 1] = x
         /\ \A i \in 1..Len(s) : Append(s, x)[i] = s[i]
OBVIOUS

LEMMA None ==
  /\ \A X : <<>> \in Seq(X)
  /\ \A s : Len(s) # 0 => s # <<>>
OBVIOUS

LEMMA OneLess ==
  ASSUME NEW X, NEW s \in Seq(X), s # <<>>
  PROVE  /\ Head(s) \in X /\ Head(s) = s[1] /\ Len(s) \in Nat \ {0}
         /\ Tail(s) \in Seq(X)
         /\ Len(Tail(s)) = Len(s) - 1
         /\ \A i \in 1..(Len(s) - 1) : Tail(s)[i] = s[i + 1]
OBVIOUS

LEMMA TailGenuine ==
  ASSUME NEW X, NEW s \in Seq(X), s # <<>>,
         \A i \in 1..Len(s) : Genuine(s[i])
  PROVE  \A i \in 1..Len(Tail(s)) : Genuine(Tail(s)[i])
BY OneLess

LEMMA AppendGenuine ==
  ASSUME NEW X, NEW s \in Seq(X), NEW x \in X, Genuine(x),
         \A i \in 1..Len(s) : Genuine(s[i])
  PROVE  \A i \in 1..Len(Append(s, x)) : Genuine(Append(s, x)[i])
BY OneMore

LEMMA ResultTypes ==
  /\ \A o \in Outcomes : Failure(o) \in Results
  /\ \A r \in Ids : Own(r) \in Results
  /\ \A r \in Ids : \A k \in {"error", "auth"} :
        [kind |-> k, of |-> r] \in Results
<1>1. \A r \in Ids : r \in 0..MaxRequests /\ 0 \in 0..MaxRequests
  BY AppServerAssumption DEF Ids
<1>2. 0 \in 0..MaxRequests
  BY AppServerAssumption
<1>3. QED BY <1>1, <1>2 DEF Results, Outcomes, Failure

(* A request ends with x.                                                  *)
LEMMA GiveKeeps ==
  ASSUME TypeOK, AnswerIsOwn, NEW x \in Results, Give(x),
         \/ x = Own(Len(results) + 1)
         \/ x \in {[kind |-> k, of |-> Len(results) + 1] :
                      k \in {"error", "auth"}}
         \/ x \in {Failure(o) : o \in Outcomes \ {"error"}}
  PROVE  /\ AnswerIsOwn'
         /\ results' \in Seq(Results)
         /\ Len(results') = Len(results) + 1
         /\ \A r \in 1..Len(results') :
               results'[r] = x \/ \E i \in 1..Len(results) :
                                     results'[r] = results[i]
<1>1. results \in Seq(Results) /\ results' = Append(results, x)
  BY DEF TypeOK, Results, Give
<1>2. /\ results' \in Seq(Results)
      /\ Len(results') = Len(results) + 1
      /\ results'[Len(results) + 1] = x
      /\ \A i \in 1..Len(results) : results'[i] = results[i]
  BY <1>1, OneMore
<1>3. \A r \in 1..Len(results') : r \in 1..Len(results) \/ r = Len(results) + 1
  BY <1>1, <1>2
<1>4. AnswerIsOwn'
  BY <1>2, <1>3 DEF AnswerIsOwn
<1>5. QED BY <1>2, <1>3, <1>4

LEMMA SessionInit == Init => SessionInv
<1> SUFFICES ASSUME Init PROVE SessionInv
  OBVIOUS
<1>1. TypeOK
  <2>1. next \in 1..(MaxRequests + 1) /\ noise \in 0..MaxNoise
    BY AppServerAssumption DEF Init
  <2>2. /\ results \in Seq([kind : Outcomes, of : 0..MaxRequests]
                           \cup {Own(r) : r \in Ids})
        /\ stdin \in Seq(Ids) /\ stdout \in Seq(Lines)
        /\ messages \in Seq(Lines \cup {EOF})
    BY None DEF Init
  <2>3. QED BY <2>1, <2>2 DEF Init, TypeOK
<1>2. LinesInv /\ CountInv /\ StderrInv
  BY DEF Init, LinesInv, CountInv, StderrInv
<1>3. AnswerIsOwn /\ EndIsKept
  BY DEF Init, AnswerIsOwn, EndIsKept
<1>4. QED BY <1>1, <1>2, <1>3 DEF SessionInv

-----------------------------------------------------------------------------
(* The steps of the caller.                                                *)

LEMMA SendStep == ASSUME SessionInv, Send PROVE SessionInv'
<1>1. /\ pc = "open" /\ next <= MaxRequests /\ next' = next + 1
      /\ expired' = FALSE
      /\ pc' \in {"waiting", "joining"}
      /\ stdin' \in {stdin, Append(stdin, next)}
      /\ UNCHANGED <<results, hasty, alive, stdout, complaint, noise, readers>>
  BY DEF Send
<1>2. TypeOK /\ next \in Ids /\ Len(results) = next - 1
  BY <1>1, AppServerAssumption DEF SessionInv, TypeOK, CountInv, Ids
<1>3. stdin' \in Seq(Ids)
  BY <1>1, <1>2, OneMore DEF TypeOK
<1>4. TypeOK'
  <2>1. next' \in 1..(MaxRequests + 1)
    BY <1>1, <1>2, AppServerAssumption DEF TypeOK
  <2>2. QED BY <1>1, <1>2, <1>3, <2>1 DEF TypeOK, readers
<1>5. LinesInv' /\ StderrInv' /\ AnswerIsOwn' /\ EndIsKept'
  BY <1>1 DEF SessionInv, LinesInv, StderrInv, AnswerIsOwn, EndIsKept, readers
<1>6. CountInv'
  BY <1>1, <1>2 DEF CountInv, Ids
<1>7. QED BY <1>4, <1>5, <1>6 DEF SessionInv

(* The caller moves on, and nothing else does.                             *)
LEMMA CallerMoves ==
  ASSUME SessionInv, pc' \in {"open", "joining", "closing", "terminating",
                              "killing", "closed"},
         UNCHANGED <<next, expired, results, hasty, child>>,
         UNCHANGED <<reading, listening, auth>>,
         messages' = messages \/ (messages # <<>> /\ messages' = PutBack),
         pc' \in {"open", "joining"} => pc = "waiting" /\ pc' = "joining"
  PROVE  SessionInv'
<1>1. TypeOK /\ messages \in Seq(Lines \cup {EOF})
  BY DEF SessionInv, TypeOK
<1>2. ASSUME messages # <<>>, messages' = PutBack
      PROVE  /\ messages' \in Seq(Lines \cup {EOF})
             /\ \A i \in 1..Len(messages') : Genuine(messages'[i])
             /\ messages' # <<>> /\ messages'[Len(messages')] = EOF
  <2>1. /\ Tail(messages) \in Seq(Lines \cup {EOF})
        /\ \A i \in 1..Len(Tail(messages)) : Genuine(Tail(messages)[i])
    BY <1>1, <1>2, OneLess, TailGenuine DEF SessionInv, LinesInv
  <2>2. EOF \in Lines \cup {EOF} /\ Genuine(EOF)
    BY DEF EOF, Genuine
  <2>3. /\ messages' \in Seq(Lines \cup {EOF})
        /\ \A i \in 1..Len(messages') : Genuine(messages'[i])
        /\ messages' # <<>> /\ messages'[Len(messages')] = EOF
    <3> DEFINE t == Tail(messages)
    <3>1. messages' = Append(t, EOF) /\ t \in Seq(Lines \cup {EOF})
      BY <1>2, <2>1 DEF PutBack
    <3> HIDE DEF t
    <3>2. /\ messages' \in Seq(Lines \cup {EOF})
          /\ Len(messages') = Len(t) + 1
          /\ messages'[Len(t) + 1] = EOF /\ Len(t) \in Nat
      BY <2>2, <3>1, OneMore
    <3>3. messages' # <<>>
      BY <3>2
    <3>4. \A i \in 1..Len(messages') : Genuine(messages'[i])
      BY <2>1, <2>2, <3>1, AppendGenuine DEF t
    <3>5. QED BY <3>2, <3>3, <3>4
  <2>4. QED BY <2>3
<1>3. /\ messages' \in Seq(Lines \cup {EOF})
      /\ \A i \in 1..Len(messages') : Genuine(messages'[i])
      /\ EndIsKept'
  BY <1>1, <1>2 DEF SessionInv, LinesInv, EndIsKept
<1>4. TypeOK'
  BY <1>1, <1>3 DEF TypeOK, child
<1>5. LinesInv' /\ StderrInv' /\ AnswerIsOwn'
  BY <1>3 DEF SessionInv, LinesInv, StderrInv, AnswerIsOwn, child
<1>6. CountInv'
  BY DEF SessionInv, CountInv
<1>7. QED BY <1>3, <1>4, <1>5, <1>6 DEF SessionInv

LEMMA MoveSteps ==
  ASSUME SessionInv, \/ StreamEnded \/ EmptyAndDead \/ Leave
                     \/ WaitTimesOut \/ Close
  PROVE  SessionInv'
<1>1. CASE StreamEnded
  BY <1>1, CallerMoves DEF StreamEnded
<1>2. CASE EmptyAndDead
  BY <1>2, CallerMoves DEF EmptyAndDead, readers
<1>3. CASE Leave
  BY <1>3, CallerMoves DEF Leave, readers
<1>4. CASE WaitTimesOut
  <2>1. pc' \in {"terminating", "killing"}
    BY <1>4 DEF WaitTimesOut, Escalation
  <2>2. QED BY <1>4, <2>1, CallerMoves DEF WaitTimesOut, readers
<1>5. CASE Close
  BY <1>5, CallerMoves DEF Close, Reaped, readers
<1>6. QED BY <1>1, <1>2, <1>3, <1>4, <1>5

(* A line is taken from the queue: the end of the stream stays in it.      *)
LEMMA TakeLine ==
  ASSUME SessionInv, messages # <<>>, Head(messages) # EOF,
         messages' = Tail(messages), reading' = reading
  PROVE  /\ messages' \in Seq(Lines \cup {EOF})
         /\ \A i \in 1..Len(messages') : Genuine(messages'[i])
         /\ EndIsKept'
         /\ Head(messages) \in Lines /\ Genuine(Head(messages))
<1>1. messages \in Seq(Lines \cup {EOF})
  BY DEF SessionInv, TypeOK
<1>2. /\ messages' \in Seq(Lines \cup {EOF})
      /\ Head(messages) \in Lines
      /\ Len(messages') = Len(messages) - 1
      /\ Head(messages) = messages[1] /\ Len(messages) \in Nat \ {0}
      /\ \A i \in 1..(Len(messages) - 1) : messages'[i] = messages[i + 1]
  BY <1>1, OneLess
<1>3. \A i \in 1..Len(messages') : Genuine(messages'[i])
  BY <1>1, TailGenuine DEF SessionInv, LinesInv
<1>4. Genuine(Head(messages))
  BY <1>2 DEF SessionInv, LinesInv
<1>5. ASSUME ~reading PROVE messages' # <<>> /\ messages'[Len(messages')] = EOF
  <2>1. messages[Len(messages)] = EOF
    BY <1>5 DEF SessionInv, EndIsKept
  <2>2. Len(messages) # 1
    BY <1>2, <2>1
  <2>3. Len(messages') \in 1..(Len(messages) - 1)
        /\ Len(messages') + 1 = Len(messages)
    BY <1>2, <2>2
  <2>4. messages'[Len(messages')] = EOF
    BY <1>2, <2>1, <2>3
  <2>5. messages' # <<>>
    <3>1. Len(messages') # 0
      BY <2>3
    <3>2. QED BY <3>1, None
  <2>6. QED BY <2>4, <2>5
<1>6. QED BY <1>2, <1>3, <1>4, <1>5 DEF EndIsKept

LEMMA SkipStep == ASSUME SessionInv, Skip PROVE SessionInv'
<1>1. /\ messages' \in Seq(Lines \cup {EOF})
      /\ \A i \in 1..Len(messages') : Genuine(messages'[i])
      /\ EndIsKept'
  BY TakeLine DEF Skip
<1>2. UNCHANGED <<client, child, reading, listening, auth>>
  BY DEF Skip
<1>3. TypeOK'
  BY <1>1, <1>2 DEF SessionInv, TypeOK, client, child
<1>4. LinesInv' /\ CountInv' /\ StderrInv' /\ AnswerIsOwn'
  BY <1>1, <1>2 DEF SessionInv, LinesInv, CountInv, StderrInv, AnswerIsOwn,
                    client, child
<1>5. QED BY <1>1, <1>3, <1>4 DEF SessionInv

LEMMA AnsweredStep == ASSUME SessionInv, Answered PROVE SessionInv'
<1> DEFINE m == Head(messages)
           x == [kind |-> m.kind, of |-> m.of]
<1>1. /\ pc = "waiting" /\ m.id = Request /\ m.kind # "method"
      /\ Give(x)
      /\ pc' \in {"notifying", "open"}
      /\ pc' = "notifying" => Request = 1
      /\ UNCHANGED <<next, expired, hasty, child, reading, listening, auth>>
  BY DEF Answered, Answers
<1>2. /\ messages' \in Seq(Lines \cup {EOF})
      /\ \A i \in 1..Len(messages') : Genuine(messages'[i])
      /\ EndIsKept'
      /\ m \in Lines /\ Genuine(m)
  BY TakeLine DEF Answered
<1>3. TypeOK /\ next >= 2 /\ Len(results) = next - 2 /\ next \in Int
  BY <1>1 DEF SessionInv, CountInv, TypeOK
<1>4. m.kind \in {"result", "error", "auth"} /\ m.of \in Ids /\ m.of = m.id
  BY <1>1, <1>2 DEF Lines, Genuine
<1> HIDE DEF m
<1>5. Request = Len(results) + 1 /\ m.of = Len(results) + 1
  BY <1>1, <1>3, <1>4 DEF Request
<1>6. \/ x = Own(Len(results) + 1)
      \/ x \in {[kind |-> k, of |-> Len(results) + 1] :
                   k \in {"error", "auth"}}
  BY <1>4, <1>5 DEF Own
<1>7. x \in Results
  BY <1>4, <1>5, <1>6, ResultTypes
<1>8. x # Failure("connection")
  BY <1>4 DEF Failure
<1>9. AnswerIsOwn
  BY DEF SessionInv
<1> HIDE DEF x
<1>10. /\ AnswerIsOwn' /\ results' \in Seq(Results)
       /\ Len(results') = Len(results) + 1
       /\ \A r \in 1..Len(results') :
             results'[r] = x \/ \E i \in 1..Len(results) :
                                   results'[r] = results[i]
  BY <1>1, <1>3, <1>6, <1>7, <1>9, GiveKeeps
<1>11. TypeOK'
  BY <1>1, <1>2, <1>3, <1>10 DEF TypeOK, Results, child
<1>12. CountInv'
  BY <1>1, <1>3, <1>5, <1>10 DEF CountInv
<1>13. StderrInv'
  BY <1>1, <1>8, <1>10 DEF SessionInv, StderrInv, child
<1>14. LinesInv'
  BY <1>1, <1>2 DEF SessionInv, LinesInv, child
<1>15. QED BY <1>2, <1>10, <1>11, <1>12, <1>13, <1>14 DEF SessionInv

LEMMA NotifyStep == ASSUME SessionInv, Notify PROVE SessionInv'
<1>1. /\ pc = "notifying"
      /\ \/ pc' = "open" /\ results' = results
         \/ pc' = "joining" /\ results' = <<>>
      /\ UNCHANGED <<next, expired, hasty, child, readers>>
  BY DEF Notify
<1>2. TypeOK /\ next = 2 /\ Len(results) = 1
  BY <1>1 DEF SessionInv, CountInv
<1>3. TypeOK'
  <2>1. results' \in Seq([kind : Outcomes, of : 0..MaxRequests]
                         \cup {Own(r) : r \in Ids})
    BY <1>1, <1>2, None DEF TypeOK
  <2>2. QED BY <1>1, <1>2, <2>1 DEF TypeOK, child, readers
<1>4. CountInv'
  BY <1>1, <1>2 DEF CountInv
<1>5. StderrInv' /\ AnswerIsOwn'
  BY <1>1 DEF SessionInv, StderrInv, AnswerIsOwn, child, readers
<1>6. LinesInv' /\ EndIsKept'
  BY <1>1 DEF SessionInv, LinesInv, EndIsKept, child, readers
<1>7. QED BY <1>3, <1>4, <1>5, <1>6 DEF SessionInv

(* A request fails with the outcome o.                                     *)
LEMMA FailureGiven ==
  ASSUME SessionInv, NEW o \in Outcomes \ {"error"}, Give(Failure(o)),
         pc \in {"waiting", "joining"}, pc' = "open",
         UNCHANGED <<next, expired, child, readers>>,
         hasty' \in BOOLEAN, hasty => hasty',
         o = "connection" => hasty' \/ (~alive /\ ~complaint)
  PROVE  SessionInv'
<1> DEFINE x == Failure(o)
<1>1. TypeOK /\ AnswerIsOwn /\ next \in Int /\ Len(results) = next - 2
  BY DEF SessionInv, CountInv, TypeOK
<1>2. x \in Results /\ x \in {Failure(p) : p \in Outcomes \ {"error"}}
  BY ResultTypes
<1>3. x = Failure("connection") => hasty' \/ (~alive /\ ~complaint)
  BY DEF Failure
<1> HIDE DEF x
<1>4. Give(x)
  BY DEF x
<1>5. /\ AnswerIsOwn' /\ results' \in Seq(Results)
      /\ Len(results') = Len(results) + 1
      /\ \A r \in 1..Len(results') :
            results'[r] = x \/ \E i \in 1..Len(results) :
                                  results'[r] = results[i]
  BY <1>1, <1>2, <1>4, GiveKeeps
<1>6. TypeOK'
  BY <1>1, <1>5 DEF TypeOK, Results, child, readers
<1>7. CountInv'
  BY <1>1, <1>5 DEF CountInv
<1>8. StderrInv'
  BY <1>3, <1>5 DEF SessionInv, StderrInv, child, readers
<1>9. LinesInv' /\ EndIsKept'
  BY DEF SessionInv, LinesInv, EndIsKept, child, readers
<1>10. QED BY <1>5, <1>6, <1>7, <1>8, <1>9 DEF SessionInv

LEMMA FailureSteps ==
  ASSUME SessionInv, TimedOut \/ ConnectionError \/ JoinTimesOut
  PROVE  SessionInv'
<1>1. "timeout" \in Outcomes \ {"error"} /\ "auth" \in Outcomes \ {"error"}
      /\ "connection" \in Outcomes \ {"error"}
  BY DEF Outcomes
<1>2. hasty \in BOOLEAN
  BY DEF SessionInv, TypeOK
<1>3. CASE TimedOut
  BY <1>1, <1>2, <1>3, FailureGiven DEF TimedOut
<1>4. CASE ConnectionError
  <2>1. ~alive /\ auth = complaint
    BY <1>4 DEF ConnectionError, Joined, SessionInv, StderrInv
  <2>2. CASE auth
    BY <1>1, <1>2, <1>4, <2>2, FailureGiven DEF ConnectionError
  <2>3. CASE ~auth
    BY <1>1, <1>2, <1>4, <2>1, <2>3, FailureGiven DEF ConnectionError
  <2>4. QED BY <2>2, <2>3
<1>5. CASE JoinTimesOut
  <2>1. hasty' = TRUE
    BY <1>5 DEF JoinTimesOut
  <2>2. CASE auth
    BY <1>1, <1>5, <2>1, <2>2, FailureGiven DEF JoinTimesOut
  <2>3. CASE ~auth
    BY <1>1, <1>5, <2>1, <2>3, FailureGiven DEF JoinTimesOut
  <2>4. QED BY <2>2, <2>3
<1>6. QED BY <1>3, <1>4, <1>5

-----------------------------------------------------------------------------
(* The steps of the threads and of the child.                              *)

(* The queue, stdout and the flags change as threads and child do it.      *)
LEMMA OthersStep ==
  ASSUME SessionInv, UNCHANGED client,
         stdin' \in Seq(Ids), stdout' \in Seq(Lines),
         messages' \in Seq(Lines \cup {EOF}), LinesInv',
         alive' \in BOOLEAN, alive' => alive,
         complaint' \in BOOLEAN, complaint' # complaint => alive,
         listening' \in BOOLEAN, reading' \in BOOLEAN,
         listening' => listening,
         auth' \in BOOLEAN, noise' \in 0..MaxNoise,
         listening' # listening => ~alive' /\ auth' = complaint',
         auth' # auth => listening,
         EndIsKept'
  PROVE  SessionInv'
<1>1. TypeOK'
  BY DEF SessionInv, TypeOK, client
<1>2. CountInv' /\ AnswerIsOwn'
  BY DEF SessionInv, TypeOK, CountInv, AnswerIsOwn, client
<1>3. StderrInv'
  BY DEF SessionInv, TypeOK, StderrInv, client
<1>4. QED BY <1>1, <1>2, <1>3 DEF SessionInv

LEMMA ReadLineStep == ASSUME SessionInv, ReadLine PROVE SessionInv'
<1>1. /\ reading /\ stdout # <<>>
      /\ messages' = Append(messages, Head(stdout))
      /\ stdout' = Tail(stdout)
      /\ UNCHANGED <<client, alive, stdin, complaint, noise,
                     reading, listening, auth>>
  BY DEF ReadLine
<1>2. TypeOK /\ LinesInv
  BY DEF SessionInv
<1>3. /\ Head(stdout) \in Lines /\ stdout' \in Seq(Lines)
      /\ Genuine(Head(stdout))
  BY <1>1, <1>2, OneLess DEF TypeOK, LinesInv
<1>4. messages' \in Seq(Lines \cup {EOF})
  BY <1>1, <1>2, <1>3, OneMore DEF TypeOK
<1>5. \A i \in 1..Len(stdout') : Genuine(stdout'[i])
  BY <1>1, <1>2, TailGenuine DEF TypeOK, LinesInv
<1>6. \A i \in 1..Len(messages') : Genuine(messages'[i])
  <2>1. Head(stdout) \in Lines \cup {EOF}
    BY <1>3
  <2>2. QED BY <1>1, <1>2, <1>3, <2>1, AppendGenuine DEF TypeOK, LinesInv
<1>7. LinesInv' /\ EndIsKept'
  BY <1>1, <1>5, <1>6 DEF LinesInv, EndIsKept
<1>8. QED BY <1>1, <1>2, <1>3, <1>4, <1>7, OthersStep DEF TypeOK

LEMMA ReadEndStep == ASSUME SessionInv, ReadEnd PROVE SessionInv'
<1>1. /\ messages' = Append(messages, EOF) /\ reading' = FALSE
      /\ UNCHANGED <<client, child, listening, auth>>
  BY DEF ReadEnd
<1>2. TypeOK /\ LinesInv
  BY DEF SessionInv
<1>3. EOF \in Lines \cup {EOF} /\ Genuine(EOF)
  BY DEF EOF, Genuine
<1>4. /\ messages' \in Seq(Lines \cup {EOF})
      /\ Len(messages') = Len(messages) + 1 /\ Len(messages) \in Nat
      /\ messages'[Len(messages) + 1] = EOF
  BY <1>1, <1>2, <1>3, OneMore DEF TypeOK
<1>5. LinesInv'
  BY <1>1, <1>2, <1>3, AppendGenuine DEF TypeOK, LinesInv, child
<1>6. EndIsKept'
  <2>1. Len(messages') # 0
    BY <1>4
  <2>2. QED BY <1>4, <2>1, None DEF EndIsKept
<1>7. QED BY <1>1, <1>2, <1>4, <1>5, <1>6, OthersStep DEF TypeOK, child

LEMMA ListenStep == ASSUME SessionInv, Listen PROVE SessionInv'
<1>1. /\ listening /\ auth' = complaint /\ listening' = alive
      /\ UNCHANGED <<client, child, messages, reading>>
  BY DEF Listen
<1>2. LinesInv' /\ EndIsKept'
  BY <1>1 DEF SessionInv, LinesInv, EndIsKept, child
<1>3. QED BY <1>1, <1>2, OthersStep DEF SessionInv, TypeOK, child

LEMMA WriteStep == ASSUME SessionInv, Reply \/ OutOfTurn PROVE SessionInv'
<1>1. TypeOK /\ LinesInv /\ EndIsKept
  BY DEF SessionInv
<1>2. /\ alive /\ stdin' \in Seq(Ids) /\ noise' \in 0..MaxNoise
      /\ UNCHANGED <<client, alive, complaint, readers>>
  <2>1. CASE Reply
    BY <1>1, <2>1, OneLess DEF Reply, TypeOK
  <2>2. CASE OutOfTurn
    BY <1>1, <2>2, AppServerAssumption DEF OutOfTurn, TypeOK
  <2>3. QED BY <2>1, <2>2
<1>3. PICK m \in Lines : stdout' = Append(stdout, m) /\ Genuine(m)
  <2>1. CASE Reply
    <3>1. Head(stdin) \in Ids
      BY <1>1, <2>1, OneLess DEF Reply, TypeOK
    <3>2. Head(stdin) \in 0..MaxRequests
      BY <3>1, AppServerAssumption DEF Ids
    <3>3. PICK k \in {"result", "error", "auth"} :
             stdout' = Append(stdout, [id |-> Head(stdin), kind |-> k,
                                       of |-> Head(stdin)])
      BY <2>1 DEF Reply
    <3>4. QED BY <3>1, <3>2, <3>3 DEF Lines, Genuine
  <2>2. CASE OutOfTurn
    BY <2>2 DEF OutOfTurn, Lines, Genuine
  <2>3. QED BY <2>1, <2>2
<1>4. stdout' \in Seq(Lines)
  BY <1>1, <1>3, OneMore DEF TypeOK
<1>5. LinesInv' /\ EndIsKept'
  <2>1. \A i \in 1..Len(stdout') : Genuine(stdout'[i])
    BY <1>1, <1>3, AppendGenuine DEF TypeOK, LinesInv
  <2>2. QED BY <1>1, <1>2, <2>1 DEF LinesInv, EndIsKept, readers
<1>6. QED BY <1>1, <1>2, <1>4, <1>5, OthersStep DEF TypeOK, readers

LEMMA OtherChildSteps ==
  ASSUME SessionInv, Ignore \/ Complain \/ Die
  PROVE  SessionInv'
<1>1. TypeOK /\ LinesInv /\ EndIsKept
  BY DEF SessionInv
<1>2. /\ stdin' \in Seq(Ids) /\ alive
      /\ alive' \in BOOLEAN /\ complaint' \in BOOLEAN
      /\ UNCHANGED <<client, stdout, noise, readers>>
  <2>1. CASE Ignore
    BY <1>1, <2>1, OneLess DEF Ignore, TypeOK
  <2>2. CASE Complain
    BY <1>1, <2>2 DEF Complain, TypeOK
  <2>3. CASE Die
    BY <1>1, <2>3 DEF Die, TypeOK
  <2>4. QED BY <2>1, <2>2, <2>3
<1>3. LinesInv' /\ EndIsKept'
  BY <1>1, <1>2 DEF LinesInv, EndIsKept, readers
<1>4. QED BY <1>1, <1>2, <1>3, OthersStep DEF TypeOK, readers

-----------------------------------------------------------------------------
(* The results.                                                            *)

LEMMA SessionStep == SessionInv /\ [Next]_vars => SessionInv'
<1> SUFFICES ASSUME SessionInv, [Next]_vars PROVE SessionInv'
  OBVIOUS
<1>1. CASE Client
  BY <1>1, SendStep, MoveSteps, SkipStep, AnsweredStep, NotifyStep,
     FailureSteps DEF Client
<1>2. CASE Expire \/ UNCHANGED vars
  <2>1. UNCHANGED <<pc, next, results, hasty, child, readers>>
    BY <1>2 DEF Expire, vars, client
  <2>2. expired' \in BOOLEAN
    BY <1>2 DEF Expire, vars, client, SessionInv, TypeOK
  <2>3. TypeOK'
    BY <2>1, <2>2 DEF SessionInv, TypeOK, child, readers
  <2>4. LinesInv' /\ CountInv' /\ StderrInv'
    BY <2>1 DEF SessionInv, LinesInv, CountInv, StderrInv, child, readers
  <2>5. AnswerIsOwn' /\ EndIsKept'
    BY <2>1 DEF SessionInv, AnswerIsOwn, EndIsKept, child, readers
  <2>6. QED BY <2>3, <2>4, <2>5 DEF SessionInv
<1>3. CASE ReadLine \/ ReadEnd \/ Listen
  BY <1>3, ReadLineStep, ReadEndStep, ListenStep
<1>4. CASE Child
  BY <1>4, WriteStep, OtherChildSteps DEF Child
<1>5. QED BY <1>1, <1>2, <1>3, <1>4 DEF Next

(* The inductive invariant of a session.                                   *)
THEOREM SessionInductive == Spec => []SessionInv
BY SessionInit, SessionStep, PTL DEF Spec

(* Every variable has its type.                                            *)
THEOREM SessionTypeCorrect == Spec => []TypeOK
<1>1. SessionInv => TypeOK
  BY DEF SessionInv
<1>2. QED BY <1>1, SessionInductive, PTL

(* What a request returns, or raises for the server, is the server's       *)
(* answer to that request (request).                                       *)
THEOREM AnswerAlwaysOwn == Spec => []AnswerIsOwn
<1>1. SessionInv => AnswerIsOwn
  BY DEF SessionInv
<1>2. QED BY <1>1, SessionInductive, PTL

(* The end of the stream stays in the queue (request, _read_stdout).       *)
THEOREM EndAlwaysKept == Spec => []EndIsKept
<1>1. SessionInv => EndIsKept
  BY DEF SessionInv
<1>2. QED BY <1>1, SessionInductive, PTL

(* A rejected login is not reported as a lost connection, unless waiting   *)
(* for stderr took too long (_connection_error).                           *)
THEOREM RejectionAlwaysReported == Spec => []RejectionReported
<1>1. SessionInv => RejectionReported
  BY DEF SessionInv, StderrInv, RejectionReported
<1>2. QED BY <1>1, SessionInductive, PTL
=============================================================================
