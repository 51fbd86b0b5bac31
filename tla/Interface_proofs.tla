--------------------------- MODULE Interface_proofs ---------------------------
(* Proofs about Procedures and Interface: how a failure reaches the caller,     *)
(* for every depth of calls, and where the requests of the clients arrive, for  *)
(* every name of a provider, a version, a kind and a procedure; where the       *)
(* references of a documentation lead, for any number of kinds and procedures;  *)
(* and that what holds of the parts of EngineInterface holds of it.             *)
EXTENDS EngineInterface, Validator_proofs, SequenceTheorems, TLAPS

------------------------------------------------------------------------------
(* Failures.  Only a call that was posted to a handler waits for an inner one, *)
(* so the call that a failure comes through is never a plain operation; and    *)
(* the type of an answer is decided by the last call it came through.          *)

\* Who is at work, and for which call
Turn ==
    /\ at = "client" <=> calls = <<>>
    /\ \A i \in 1..Len(calls) : calls[i] = "operation" => at = "engine" /\ i = Len(calls)
    /\ at = "engine" => reply = NoError

\* The type of the answer is that of the last call it came through
TypeOfLast ==
    reply # NoError =>
        reply.type = IF fault.through = <<>> THEN fault.type
                     ELSE IF Last(fault.through) = "procedure" THEN "procedure_invocation_error"
                     ELSE "on_action_error"

ProceduresInv == ProceduresTypeOK /\ Turn /\ TypeOfLast /\ CodeSurvives /\ CauseIsNearest

\* The records of exceptions
Exceptions ==
    [class : ErrorTypes, own : Statuses, causes : Seq(ErrorTypes)]

\* An exception is answered with an error of the engine.
LEMMA ResponseTyped ==
    ASSUME NEW e \in Exceptions
    PROVE  Response(e) \in Replies /\ StatusOf(e) \in Statuses /\ Response(e) # NoError
  <1>1. StatusOf(e) \in Statuses
    BY DEF StatusOf, Exceptions, Statuses
  <1>2. Response(e) \in Replies
    BY <1>1 DEF Response, Replies, Exceptions
  <1> QED BY <1>1, <1>2, ProceduresAssumption

\* What is left of the calls when the last one is answered.
LEMMA FrontOfCalls ==
    ASSUME NEW s \in Seq(Requests), s # <<>>
    PROVE  /\ Front(s) \in Seq(Requests) /\ Len(Front(s)) = Len(s) - 1
           /\ \A i \in 1..(Len(s) - 1) : Front(s)[i] = s[i]
           /\ Last(s) \in Requests /\ Last(s) = s[Len(s)]
           /\ Len(s) \in Nat /\ Len(s) # 0
           /\ Len(s) = 1 <=> Front(s) = <<>>
  <1>1. Len(s) \in Nat /\ Len(s) # 0 /\ Len(s) - 1 \in Nat
    OBVIOUS
  <1>2. /\ Front(s) = [i \in 1..(Len(s) - 1) |-> s[i]]
        /\ Last(s) = s[Len(s)]
    BY <1>1 DEF Front, Last
  <1>3. Front(s) \in Seq(Requests) /\ Len(Front(s)) = Len(s) - 1
    BY <1>1, <1>2
  <1>4. Len(s) = 1 <=> Front(s) = <<>>
    BY SMTT(60), <1>1, <1>3
  <1> QED BY <1>1, <1>2, <1>3, <1>4

\* The last of a list that grew, and what it has.
LEMMA LastOfAppend ==
    ASSUME NEW s \in Seq(Requests), NEW c \in Requests
    PROVE  /\ Append(s, c) \in Seq(Requests) /\ Append(s, c) # <<>>
           /\ Len(Append(s, c)) = Len(s) + 1 /\ Last(Append(s, c)) = c
           /\ Range(Append(s, c)) = Range(s) \cup {c}
           /\ Len(s) = 0 <=> s = <<>>
           /\ s # <<>> => Append(s, c)[Len(s)] = Last(s)
  <1>1. /\ Append(s, c) \in Seq(Requests) /\ Append(s, c) # <<>>
        /\ Len(Append(s, c)) = Len(s) + 1 /\ Len(s) \in Nat
        /\ Append(s, c)[Len(s) + 1] = c
        /\ \A i \in 1..Len(s) : Append(s, c)[i] = s[i]
        /\ DOMAIN Append(s, c) = 1..(Len(s) + 1) /\ DOMAIN s = 1..Len(s)
        /\ Len(s) = 0 <=> s = <<>>
    OBVIOUS
  <1>2. Range(Append(s, c)) = Range(s) \cup {c}
    <2>1. ASSUME NEW x \in Range(Append(s, c)) PROVE x \in Range(s) \cup {c}
      <3>1. PICK i \in 1..(Len(s) + 1) : x = Append(s, c)[i]
        BY <1>1 DEF Range
      <3>2. CASE i = Len(s) + 1
        BY <1>1, <3>1, <3>2
      <3>3. CASE i # Len(s) + 1
        <4>1. i \in 1..Len(s)
          BY <1>1, <3>3
        <4> QED BY <1>1, <3>1, <4>1 DEF Range
      <3> QED BY <3>2, <3>3
    <2>2. Range(s) \subseteq Range(Append(s, c))
      <3> SUFFICES ASSUME NEW i \in 1..Len(s) PROVE s[i] \in Range(Append(s, c))
        BY <1>1 DEF Range
      <3>1. i \in 1..(Len(s) + 1) /\ Append(s, c)[i] = s[i]
        BY <1>1
      <3> QED BY <1>1, <3>1 DEF Range
    <2>3. c \in Range(Append(s, c))
      <3>1. Len(s) + 1 \in 1..(Len(s) + 1)
        BY <1>1
      <3> QED BY <1>1, <3>1 DEF Range
    <2> QED BY <2>1, <2>2, <2>3
  <1>3. Last(Append(s, c)) = Append(s, c)[Len(Append(s, c))] /\ Last(s) = s[Len(s)]
    BY DEF Last
  <1>4. s # <<>> => Append(s, c)[Len(s)] = s[Len(s)]
    <2>1. s # <<>> => Len(s) \in 1..Len(s)
      BY <1>1
    <2> QED BY <1>1, <2>1
  <1> QED BY ZenonT(60), <1>1, <1>2, <1>3, <1>4

\* No call, no failure.
LEMMA ProceduresInitInv ==
    ASSUME ProceduresInit
    PROVE  ProceduresInv
  <1>1. ProceduresTypeOK
    BY ProceduresAssumption DEF ProceduresInit, ProceduresTypeOK
  <1>2. Turn
    BY DEF ProceduresInit, Turn
  <1>3. TypeOfLast /\ CodeSurvives /\ CauseIsNearest
    BY DEF ProceduresInit, TypeOfLast, CodeSurvives, CauseIsNearest
  <1> QED BY <1>1, <1>2, <1>3 DEF ProceduresInv

\* An answer ends the last call and gives the turn to who made it.
LEMMA AnswersKeeps ==
    ASSUME ProceduresTypeOK, Turn, at # "client", NEW r, Answers(r)
    PROVE  /\ calls' \in Seq(Requests) /\ Len(calls') <= MaxDepth
           /\ at' \in {"client", "handler"} /\ Turn' /\ reply' = r
           /\ calls # <<>> /\ Last(calls) \in Requests
           /\ at = "handler" => Last(calls) # "operation"
  <1>1. calls # <<>> /\ calls \in Seq(Requests) /\ Len(calls) <= MaxDepth /\ MaxDepth \in Nat
    BY ProceduresAssumption DEF ProceduresTypeOK, Turn
  <1>2. /\ Front(calls) \in Seq(Requests) /\ Len(Front(calls)) = Len(calls) - 1
        /\ \A i \in 1..(Len(calls) - 1) : Front(calls)[i] = calls[i]
        /\ Last(calls) \in Requests /\ Last(calls) = calls[Len(calls)]
        /\ Len(calls) \in Nat /\ Len(calls) # 0
        /\ Len(calls) = 1 <=> Front(calls) = <<>>
    BY <1>1, FrontOfCalls
  <1>3. calls' = Front(calls) /\ reply' = r /\ at' = IF Len(calls) = 1 THEN "client" ELSE "handler"
    BY DEF Answers
  <1>4. \A i \in 1..(Len(calls) - 1) : i \in 1..Len(calls) /\ i # Len(calls)
    BY <1>2
  <1>5. \A i \in 1..Len(calls') : calls'[i] # "operation"
    BY <1>2, <1>3, <1>4 DEF Turn
  <1>6. Turn'
    BY <1>2, <1>3, <1>5 DEF Turn
  <1>7. at = "handler" => Last(calls) # "operation"
    <2>1. Len(calls) \in 1..Len(calls)
      BY <1>2
    <2> QED BY <1>2, <2>1 DEF Turn
  <1> QED BY <1>1, <1>2, <1>3, <1>6, <1>7

\* An exception of the engine, of whichever class, is a failure that came
\* through no call yet.
LEMMA RaiseKeeps ==
    ASSUME ProceduresInv, at # "client", NEW e \in Exceptions, Raise(e)
    PROVE  ProceduresInv'
  <1>1. /\ Answers(Response(e))
        /\ fault' = [status |-> StatusOf(e), type |-> Response(e).type, through |-> <<>>]
    BY DEF Raise
  <1>2. /\ calls' \in Seq(Requests) /\ Len(calls') <= MaxDepth
        /\ at' \in {"client", "handler"} /\ Turn' /\ reply' = Response(e)
    BY <1>1, AnswersKeeps DEF ProceduresInv
  <1>3. Response(e) \in Replies /\ StatusOf(e) \in Statuses /\ Response(e) # NoError
    BY ResponseTyped
  <1>4. fault' \in Faults /\ fault' # NoError
    <2>1. Response(e).type \in ErrorTypes \cup {NoError} /\ <<>> \in Seq(Requests)
      BY <1>3 DEF Replies
    <2>2. fault' \in Faults
      BY <1>1, <1>3, <2>1 DEF Faults
    <2> QED BY <2>2, ProceduresAssumption
  <1>5. ProceduresTypeOK'
    BY <1>2, <1>3, <1>4 DEF ProceduresTypeOK
  <1>6. fault'.through = <<>> /\ fault'.type = reply'.type /\ fault'.status = reply'.status
    BY <1>1, <1>2 DEF Response
  <1>7. TypeOfLast' /\ CauseIsNearest'
    BY <1>6 DEF TypeOfLast, CauseIsNearest
  <1>8. CodeSurvives'
    <2>1. Range(<<>>) = {}
      BY DEF Range
    <2> QED BY <1>6, <2>1 DEF CodeSurvives
  <1> QED BY <1>2, <1>5, <1>7, <1>8 DEF ProceduresInv

\* A good answer tells of no failure.
LEMMA GoodAnswerKeeps ==
    ASSUME ProceduresInv, at # "client", reply = NoError, Answers(NoError), fault' = fault
    PROVE  ProceduresInv'
  <1>1. /\ calls' \in Seq(Requests) /\ Len(calls') <= MaxDepth
        /\ at' \in {"client", "handler"} /\ Turn' /\ reply' = NoError
    BY AnswersKeeps DEF ProceduresInv
  <1>2. ProceduresTypeOK'
    BY <1>1 DEF ProceduresInv, ProceduresTypeOK
  <1>3. TypeOfLast' /\ CodeSurvives' /\ CauseIsNearest'
    BY <1>1 DEF TypeOfLast, CodeSurvives, CauseIsNearest
  <1> QED BY <1>1, <1>2, <1>3 DEF ProceduresInv

\* The failure of an inner call is forgotten, or there was none.
LEMMA NoFailureKeeps ==
    ASSUME ProceduresInv, reply' = NoError, fault' = NoError,
           calls' \in Seq(Requests), Len(calls') <= MaxDepth,
           at' \in {"client", "engine", "handler"}, Turn'
    PROVE  ProceduresInv'
  BY DEF ProceduresInv, ProceduresTypeOK, TypeOfLast, CodeSurvives, CauseIsNearest

\* The statuses and classes that are thrown are those of exceptions.
LEMMA ThrownTyped ==
    /\ \A class \in ErrorTypes : Simple(class) \in Exceptions
    /\ \A call \in Requests, status \in Statuses :
          AxiosFailure(call, Invocation(status, NoError)) \in Exceptions
    /\ \A call \in Requests, r \in Replies :
          AxiosFailure(call, Invocation(r.status, r)) \in Exceptions
    /\ \A call \in Requests : Refusals(call) \subseteq Exceptions
    /\ \A call \in Requests : call # "operation" => Misresults(call) \subseteq Exceptions
  <1>1. \A class \in ErrorTypes : Simple(class) \in Exceptions /\ Simple(class).class = class
    BY DEF Simple, Exception, Exceptions, Statuses
  <1>2. \A t \in ErrorTypes : <<t>> \in Seq(ErrorTypes)
    OBVIOUS
  <1>3. "papiea_error" \in ErrorTypes /\ "on_action_error" \in ErrorTypes
        /\ "procedure_invocation_error" \in ErrorTypes /\ "validation_error" \in ErrorTypes
    BY DEF ErrorTypes, Anything
  <1>4. \A inner \in Replies \cup {NoError} : ConvertError(inner).class \in ErrorTypes
    <2> TAKE inner \in Replies \cup {NoError}
    <2>1. CASE inner = NoError \/ inner.type = NoError
      BY <1>1, <1>3, <2>1 DEF ConvertError
    <2>2. CASE ~ (inner = NoError \/ inner.type = NoError)
      <3>1. inner.type \in ErrorTypes
        BY <2>2 DEF Replies
      <3> QED BY <2>2, <3>1 DEF ConvertError, Exception
    <2> QED BY <2>1, <2>2
  <1>5. \A call \in Requests, inner \in Replies \cup {NoError}, status \in Statuses :
            AxiosFailure(call, Invocation(status, inner)) \in Exceptions
    <2> TAKE call \in Requests, inner \in Replies \cup {NoError}, status \in Statuses
    <2> DEFINE t == ConvertError(inner).class
    <2>1. t \in ErrorTypes /\ <<t>> \in Seq(ErrorTypes)
      BY <1>2, <1>4
    <2> HIDE DEF t
    <2>2. Invocation(status, inner).status = status /\ Invocation(status, inner).inner = inner
      BY DEF Invocation
    <2>3. Exception("procedure_invocation_error", status, <<t>>) \in Exceptions
      BY <1>3, <2>1 DEF Exception, Exceptions
    <2> QED BY <1>1, <1>3, <2>2, <2>3 DEF AxiosFailure, t
  <1>6. \A r \in Replies : r.status \in Statuses
    BY DEF Replies
  <1>7. 500 \in Statuses /\ 400 \in Statuses
    BY DEF Statuses
  <1>8. /\ BadInput \in Exceptions
        /\ Exception("procedure_invocation_error", 500, <<"validation_error">>) \in Exceptions
        /\ Exception("on_action_error", 500, <<"validation_error">>) \in Exceptions
    BY <1>2, <1>3, <1>7 DEF BadInput, Exception, Exceptions
  <1>9. \A call \in Requests : Refusals(call) \subseteq Exceptions
    BY <1>1, <1>8 DEF Requests, Refusals, ErrorTypes, Anything
  <1>10. \A call \in Requests : call # "operation" => Misresults(call) \subseteq Exceptions
    BY <1>1, <1>8 DEF Requests, Misresults, ErrorTypes, Anything
  <1> QED BY <1>1, <1>5, <1>6, <1>9, <1>10, ProceduresAssumption

\* A handler lets a failure through: a procedure keeps its status and hides its
\* type, a constructor or a destructor hides both.
LEMMA PassOnKeeps ==
    ASSUME ProceduresInv, PassOn
    PROVE  ProceduresInv'
  <1> DEFINE last == Last(calls)
             e == AxiosFailure(last, Invocation(reply.status, reply))
  <1>1. /\ at = "handler" /\ reply # NoError /\ Answers(Response(e))
        /\ fault' = [fault EXCEPT !.through = Append(@, last)]
        /\ reply \in Replies /\ fault \in Faults
        /\ ProceduresTypeOK /\ Turn /\ TypeOfLast /\ CodeSurvives
    BY DEF PassOn, Handling, ProceduresInv, ProceduresTypeOK
  <1>2. /\ calls' \in Seq(Requests) /\ Len(calls') <= MaxDepth
        /\ at' \in {"client", "handler"} /\ Turn' /\ reply' = Response(e)
        /\ last \in Requests /\ last # "operation"
    BY <1>1, AnswersKeeps
  <1>3. e \in Exceptions
    BY <1>1, <1>2, ThrownTyped
  <1>4. Response(e) \in Replies /\ Response(e) # NoError
    BY <1>3, ResponseTyped
  <1>5. IF last = "procedure"
        THEN /\ Response(e).status = reply.status
             /\ Response(e).type = "procedure_invocation_error"
             /\ Response(e).causes = <<IF reply.type = NoError THEN "papiea_error" ELSE reply.type>>
        ELSE /\ Response(e).status = 500 /\ Response(e).type = "on_action_error"
    <2>1. Invocation(reply.status, reply).status = reply.status
          /\ Invocation(reply.status, reply).inner = reply
      BY DEF Invocation
    <2>2. ConvertError(reply).class = IF reply.type = NoError THEN "papiea_error" ELSE reply.type
      BY <1>1 DEF ConvertError, Simple, Exception
    <2>3. CASE last = "procedure"
      <3>1. e = [class |-> "procedure_invocation_error", own |-> reply.status,
                 causes |-> <<ConvertError(reply).class>>]
        BY <2>1, <2>3 DEF AxiosFailure, Exception
      <3>2. StatusOf(e) = reply.status
        BY <3>1 DEF StatusOf
      <3> HIDE DEF e
      <3> QED BY <2>2, <2>3, <3>1, <3>2 DEF Response
    <2>4. CASE last # "procedure"
      <3>1. e = [class |-> "on_action_error", own |-> 500, causes |-> <<>>]
        BY <2>4 DEF AxiosFailure, Simple, Exception
      <3>2. StatusOf(e) = 500
        BY <3>1 DEF StatusOf
      <3> HIDE DEF e
      <3> QED BY <2>4, <3>1, <3>2 DEF Response
    <2> QED BY <2>3, <2>4
  <1> HIDE DEF e, last
  <1>6. fault.through \in Seq(Requests)
    BY <1>1 DEF Faults
  <1>7. /\ fault'.through = Append(fault.through, last)
        /\ fault'.status = fault.status /\ fault'.type = fault.type /\ fault' \in Faults
    <2>1. Append(fault.through, last) \in Seq(Requests)
      BY <1>2, <1>6
    <2> QED BY <1>1, <2>1 DEF Faults
  <1>8. /\ fault'.through # <<>> /\ Len(fault'.through) = Len(fault.through) + 1
        /\ Last(fault'.through) = last
        /\ Range(fault'.through) = Range(fault.through) \cup {last}
        /\ Len(fault.through) = 0 <=> fault.through = <<>>
        /\ fault.through # <<>> => fault'.through[Len(fault.through)] = Last(fault.through)
        /\ Len(fault.through) \in Nat
    BY <1>2, <1>6, <1>7, LastOfAppend
  <1>9. ProceduresTypeOK'
    BY <1>2, <1>4, <1>7, ProceduresAssumption DEF ProceduresTypeOK
  <1>10. TypeOfLast'
    BY <1>2, <1>5, <1>8 DEF TypeOfLast
  <1>11. CodeSurvives'
    <2>1. reply.status = IF Range(fault.through) \subseteq {"procedure"} THEN fault.status ELSE 500
      BY <1>1 DEF CodeSurvives
    <2>2. Range(fault'.through) \subseteq {"procedure"}
          <=> Range(fault.through) \subseteq {"procedure"} /\ last = "procedure"
      BY <1>8
    <2> QED BY <1>2, <1>5, <1>7, <2>1, <2>2 DEF CodeSurvives
  <1>12. CauseIsNearest'
    <2> SUFFICES ASSUME last = "procedure"
                 PROVE  LET n == Len(fault'.through)
                            raised == IF n = 1 THEN fault'.type
                                      ELSE IF fault'.through[n - 1] = "procedure"
                                      THEN "procedure_invocation_error"
                                      ELSE "on_action_error"
                        IN  reply'.causes = <<IF raised = NoError THEN "papiea_error" ELSE raised>>
      BY <1>8 DEF CauseIsNearest
    <2>1. reply'.causes = <<IF reply.type = NoError THEN "papiea_error" ELSE reply.type>>
      BY <1>2, <1>5
    <2>2. CASE fault.through = <<>>
      <3>1. Len(fault'.through) = 1 /\ reply.type = fault'.type
        BY <1>1, <1>7, <1>8, <2>2 DEF TypeOfLast
      <3> QED BY <2>1, <3>1
    <2>3. CASE fault.through # <<>>
      <3>1. Len(fault'.through) # 1 /\ Len(fault'.through) - 1 = Len(fault.through)
        BY <1>8, <2>3
      <3>2. reply.type = IF fault'.through[Len(fault'.through) - 1] = "procedure"
                         THEN "procedure_invocation_error" ELSE "on_action_error"
        BY <1>1, <1>8, <2>3, <3>1 DEF TypeOfLast
      <3> QED BY <2>1, <3>1, <3>2
    <2> QED BY <2>2, <2>3
  <1> QED BY <1>2, <1>9, <1>10, <1>11, <1>12 DEF ProceduresInv

\* Each step keeps the invariant.
LEMMA ProceduresNextKeeps ==
    ASSUME ProceduresInv, [ProceduresNext]_procedureVars
    PROVE  ProceduresInv'
  <1>1. ProceduresTypeOK /\ Turn /\ calls \in Seq(Requests) /\ Len(calls) <= MaxDepth
    BY DEF ProceduresInv, ProceduresTypeOK
  <1>2. calls # <<>> => Last(calls) \in Requests /\ Last(calls) = calls[Len(calls)]
                        /\ Len(calls) \in 1..Len(calls)
    <2>1. calls # <<>> => Len(calls) \in 1..Len(calls)
      BY <1>1
    <2> QED BY <1>1, <2>1, FrontOfCalls
  <1>3. at # "client" => calls # <<>>
    BY <1>1 DEF Turn
  <1>4. CASE UNCHANGED procedureVars
    BY <1>4 DEF procedureVars, ProceduresInv, ProceduresTypeOK, Turn, TypeOfLast, CodeSurvives,
                CauseIsNearest
  <1>5. ASSUME NEW request \in Requests, Call(request) PROVE ProceduresInv'
    <2>1. /\ calls' = Append(calls, request) /\ Len(calls) < MaxDepth /\ at' = "engine"
          /\ at \in {"client", "handler"}
          /\ reply' = NoError /\ fault' = NoError
      BY <1>1, <1>5 DEF Call, ProceduresTypeOK
    <2>2. /\ calls' \in Seq(Requests) /\ calls' # <<>> /\ Len(calls') = Len(calls) + 1
          /\ Len(calls) \in Nat
          /\ \A i \in 1..Len(calls) : calls'[i] = calls[i]
      BY <1>1, <2>1
    <2>3. Len(calls') <= MaxDepth
      BY <2>1, <2>2, ProceduresAssumption
    <2>4. ASSUME NEW i \in 1..Len(calls'), calls'[i] = "operation" PROVE i = Len(calls')
      <3>1. CASE i \in 1..Len(calls)
        BY <1>1, <2>1, <2>2, <2>4, <3>1 DEF Turn
      <3> QED BY <2>2, <3>1
    <2>5. Turn'
      BY <2>1, <2>2, <2>4 DEF Turn
    <2> QED BY <2>1, <2>2, <2>3, <2>5, NoFailureKeeps
  <1>6. CASE Refuse
    <2>1. PICK e \in Refusals(Last(calls)) : at = "engine" /\ Raise(e)
      BY <1>6 DEF Refuse
    <2>2. e \in Exceptions
      BY <1>2, <1>3, <2>1, ThrownTyped
    <2> QED BY <2>1, <2>2, RaiseKeeps
  <1>7. CASE Operate
    BY <1>1, <1>7, GoodAnswerKeeps DEF Operate, Turn
  <1>8. CASE Post
    <2>1. /\ at = "engine" /\ Last(calls) # "operation" /\ at' = "handler"
          /\ calls' = calls /\ reply = NoError /\ reply' = NoError /\ fault' = NoError
      BY <1>1, <1>8 DEF Post, Turn, ProceduresTypeOK
    <2>2. Turn'
      BY <1>1, <1>2, <1>3, <2>1 DEF Turn
    <2> QED BY <1>1, <2>1, <2>2, NoFailureKeeps
  <1>9. CASE Unreachable
    <2>1. 500 \in Statuses
      BY DEF Statuses
    <2> QED BY <1>2, <1>3, <1>9, <2>1, ThrownTyped, RaiseKeeps DEF Unreachable
  <1>10. CASE PassOn
    BY <1>10, PassOnKeeps
  <1>11. CASE Swallow
    BY <1>1, <1>11, NoFailureKeeps DEF Swallow, Handling, Turn
  <1>12. CASE Throw
    <2>1. PICK status \in OwnStatuses \cup {500} :
              Raise(AxiosFailure(Last(calls), Invocation(status, NoError)))
      BY <1>12 DEF Throw
    <2>2. status \in Statuses /\ at = "handler"
      BY <1>12, ProceduresAssumption DEF Statuses, Throw, Handling
    <2> QED BY <1>2, <1>3, <2>1, <2>2, ThrownTyped, RaiseKeeps
  <1>13. CASE Return
    <2>1. at = "handler" /\ reply = NoError
      BY <1>13 DEF Return, Handling
    <2>2. Last(calls) # "operation"
      BY <1>1, <1>2, <1>3, <2>1 DEF Turn
    <2>3. CASE Answers(NoError) /\ UNCHANGED fault
      BY <2>1, <2>3, GoodAnswerKeeps
    <2>4. ASSUME NEW e \in Misresults(Last(calls)), Raise(e) PROVE ProceduresInv'
      BY <1>2, <1>3, <2>1, <2>2, <2>4, ThrownTyped, RaiseKeeps
    <2> QED BY <1>13, <2>3, <2>4 DEF Return
  <1>14. CASE Again
    BY <1>1, <1>14, NoFailureKeeps DEF Again, Turn
  <1> QED BY <1>4, <1>5, <1>6, <1>7, <1>8, <1>9, <1>10, <1>11, <1>12, <1>13, <1>14
             DEF ProceduresNext

\* The variables of Procedures have their types.
THEOREM ProceduresTypeCorrect == ProceduresSpec => []ProceduresTypeOK
  <1>1. ProceduresInv => ProceduresTypeOK
    BY DEF ProceduresInv
  <1> QED
    BY <1>1, ProceduresInitInv, ProceduresNextKeeps, PTL DEF ProceduresSpec

\* A failure that handlers let through keeps its status, however deep it was
\* raised, if it came through procedures only.
THEOREM CodeCorrect == ProceduresSpec => []CodeSurvives
  <1>1. ProceduresInv => CodeSurvives
    BY DEF ProceduresInv
  <1> QED
    BY <1>1, ProceduresInitInv, ProceduresNextKeeps, PTL DEF ProceduresSpec

\* The cause of the failure of a procedure is what happened one call below.
THEOREM CauseCorrect == ProceduresSpec => []CauseIsNearest
  <1>1. ProceduresInv => CauseIsNearest
    BY DEF ProceduresInv
  <1> QED
    BY <1>1, ProceduresInitInv, ProceduresNextKeeps, PTL DEF ProceduresSpec

\* Two lists, one after the other.
LEMMA Joined ==
    ASSUME NEW S
    PROVE  \A a, b \in Seq(S) :
               /\ a \o b \in Seq(S)
               /\ Len(a \o b) = Len(a) + Len(b)
               /\ \A i \in 1..Len(a) : (a \o b)[i] = a[i]
               /\ \A i \in 1..Len(b) : (a \o b)[Len(a) + i] = b[i]
  <1> SUFFICES ASSUME NEW a \in Seq(S), NEW b \in Seq(S)
               PROVE  /\ a \o b \in Seq(S)
                      /\ Len(a \o b) = Len(a) + Len(b)
                      /\ \A i \in 1..Len(a) : (a \o b)[i] = a[i]
                      /\ \A i \in 1..Len(b) : (a \o b)[Len(a) + i] = b[i]
    OBVIOUS
  <1>1. /\ a \o b \in Seq(S) /\ Len(a \o b) = Len(a) + Len(b)
        /\ Len(a) \in Nat /\ Len(b) \in Nat
    BY ConcatProperties
  <1>2. \A i \in 1..Len(a) : (a \o b)[i] = a[i]
    OBVIOUS
  <1>3. \A i \in 1..Len(b) : (a \o b)[Len(a) + i] = b[i]
    <2> TAKE i \in 1..Len(b)
    <2>1. Len(a) + i \in 1..(Len(a) + Len(b)) /\ Len(a) + i > Len(a) /\ Len(a) + i - Len(a) = i
      OBVIOUS
    <2> QED BY <2>1
  <1> QED BY <1>1, <1>2, <1>3

\* What two lists hold, one after the other.
LEMMA JoinedHolds ==
    ASSUME NEW S
    PROVE  \A a, b \in Seq(S) : a \o b \in Seq(S) /\ ToSet(a \o b) = ToSet(a) \cup ToSet(b)
  <1> SUFFICES ASSUME NEW a \in Seq(S), NEW b \in Seq(S)
               PROVE  a \o b \in Seq(S) /\ ToSet(a \o b) = ToSet(a) \cup ToSet(b)
    OBVIOUS
  <1> DEFINE ab == a \o b
  <1>1. /\ ab \in Seq(S) /\ Len(ab) = Len(a) + Len(b)
        /\ \A i \in 1..Len(a) : ab[i] = a[i]
        /\ \A i \in 1..Len(b) : ab[Len(a) + i] = b[i]
    BY Joined
  <1> HIDE DEF ab
  <1>2. /\ Len(a) \in Nat /\ Len(b) \in Nat
        /\ DOMAIN a = 1..Len(a) /\ DOMAIN b = 1..Len(b) /\ DOMAIN ab = 1..(Len(a) + Len(b))
    BY <1>1
  <1>3. ASSUME NEW i \in DOMAIN ab PROVE ab[i] \in ToSet(a) \cup ToSet(b)
    <2>1. CASE i \in 1..Len(a)
      BY <1>1, <1>2, <2>1 DEF ToSet
    <2>2. CASE i > Len(a)
      <3>1. i - Len(a) \in 1..Len(b) /\ Len(a) + (i - Len(a)) = i
        BY <1>2, <2>2
      <3>2. ab[Len(a) + (i - Len(a))] = b[i - Len(a)]
        BY <1>1, <3>1
      <3> QED BY <1>2, <3>1, <3>2 DEF ToSet
    <2> QED BY <1>2, <2>1, <2>2
  <1>4. ASSUME NEW i \in DOMAIN a PROVE a[i] \in ToSet(ab)
    <2>1. i \in DOMAIN ab /\ ab[i] = a[i]
      BY <1>1, <1>2
    <2> QED BY <2>1 DEF ToSet
  <1>5. ASSUME NEW i \in DOMAIN b PROVE b[i] \in ToSet(ab)
    <2>1. Len(a) + i \in DOMAIN ab /\ ab[Len(a) + i] = b[i]
      BY <1>1, <1>2
    <2> QED BY <2>1 DEF ToSet
  <1>6. ToSet(ab) = ToSet(a) \cup ToSet(b)
    BY <1>3, <1>4, <1>5 DEF ToSet
  <1> QED BY <1>1, <1>6 DEF ab

\* When a list is another with a third behind it.
LEMMA JoinedIs ==
    ASSUME NEW S, NEW a \in Seq(S), NEW b \in Seq(S), NEW c \in Seq(S),
           Len(c) = Len(a) + Len(b),
           \A i \in 1..Len(a) : c[i] = a[i], \A i \in 1..Len(b) : c[Len(a) + i] = b[i]
    PROVE  a \o b = c
  <1>1. /\ a \o b \in Seq(S)
        /\ Len(a \o b) = Len(a) + Len(b)
        /\ \A i \in 1..Len(a) : (a \o b)[i] = a[i]
        /\ \A i \in 1..Len(b) : (a \o b)[Len(a) + i] = b[i]
    BY Joined
  <1> DEFINE ab == a \o b
  <1> HIDE DEF ab
  <1>2. \A i \in 1..Len(ab) : ab[i] = c[i]
    <2> TAKE i \in 1..Len(ab)
    <2>1. Len(ab) = Len(a) + Len(b) /\ Len(a) \in Nat /\ Len(b) \in Nat
      BY <1>1 DEF ab
    <2>2. CASE i \in 1..Len(a)
      BY <1>1, <2>2 DEF ab
    <2>3. CASE i > Len(a)
      <3>1. PICK j \in 1..Len(b) : i = Len(a) + j
        <4>1. i - Len(a) \in 1..Len(b) /\ i = Len(a) + (i - Len(a))
          BY <2>1, <2>3
        <4> QED BY <4>1
      <3>2. ab[Len(a) + j] = b[j] /\ c[Len(a) + j] = b[j]
        BY <1>1 DEF ab
      <3> QED BY <3>1, <3>2
    <2> QED BY <2>1, <2>2, <2>3
  <1>3. ab \in Seq(S) /\ Len(ab) = Len(c)
    BY <1>1 DEF ab
  <1>4. ab = c
    BY <1>2, <1>3, SeqEqual
  <1> QED BY <1>4 DEF ab

\* A path of four segments that goes on.
LEMMA LongerPath ==
    ASSUME NEW a, NEW b, NEW c, NEW d, NEW x, NEW y, NEW z
    PROVE  /\ <<a, b, c, d>> \o <<x>> = <<a, b, c, d, x>>
           /\ <<a, b, c, d>> \o <<x, y>> = <<a, b, c, d, x, y>>
           /\ <<a, b, c, d>> \o <<x, y, z>> = <<a, b, c, d, x, y, z>>
  <1> DEFINE S == {a, b, c, d, x, y, z}
             four == <<a, b, c, d>>
  <1>0. /\ four \in Seq(S) /\ Len(four) = 4
        /\ four[1] = a /\ four[2] = b /\ four[3] = c /\ four[4] = d
    OBVIOUS
  <1>1. four \o <<x>> = <<a, b, c, d, x>>
    <2> DEFINE more == <<x>>
               all == <<a, b, c, d, x>>
    <2>1. /\ more \in Seq(S) /\ Len(more) = 1 /\ more[1] = x
          /\ all \in Seq(S) /\ Len(all) = 5
          /\ all[1] = a /\ all[2] = b /\ all[3] = c /\ all[4] = d /\ all[5] = x
      OBVIOUS
    <2> HIDE DEF S, four, more, all
    <2>2. /\ \A i \in 1..Len(four) : all[i] = four[i]
          /\ \A i \in 1..Len(more) : all[Len(four) + i] = more[i]
          /\ Len(all) = Len(four) + Len(more)
      BY <1>0, <2>1
    <2>3. four \o more = all
      BY <1>0, <2>1, <2>2, JoinedIs
    <2> QED BY <2>3 DEF more, all
  <1>2. four \o <<x, y>> = <<a, b, c, d, x, y>>
    <2> DEFINE more == <<x, y>>
               all == <<a, b, c, d, x, y>>
    <2>1. /\ more \in Seq(S) /\ Len(more) = 2 /\ more[1] = x /\ more[2] = y
          /\ all \in Seq(S) /\ Len(all) = 6
          /\ all[1] = a /\ all[2] = b /\ all[3] = c /\ all[4] = d /\ all[5] = x /\ all[6] = y
      OBVIOUS
    <2> HIDE DEF S, four, more, all
    <2>2. /\ \A i \in 1..Len(four) : all[i] = four[i]
          /\ \A i \in 1..Len(more) : all[Len(four) + i] = more[i]
          /\ Len(all) = Len(four) + Len(more)
      BY <1>0, <2>1
    <2>3. four \o more = all
      BY <1>0, <2>1, <2>2, JoinedIs
    <2> QED BY <2>3 DEF more, all
  <1>3. four \o <<x, y, z>> = <<a, b, c, d, x, y, z>>
    <2> DEFINE more == <<x, y, z>>
               all == <<a, b, c, d, x, y, z>>
    <2>1. /\ more \in Seq(S) /\ Len(more) = 3 /\ more[1] = x /\ more[2] = y /\ more[3] = z
          /\ all \in Seq(S) /\ Len(all) = 7
          /\ all[1] = a /\ all[2] = b /\ all[3] = c /\ all[4] = d /\ all[5] = x /\ all[6] = y
          /\ all[7] = z
      OBVIOUS
    <2> HIDE DEF S, four, more, all
    <2>2. /\ \A i \in 1..Len(four) : all[i] = four[i]
          /\ \A i \in 1..Len(more) : all[Len(four) + i] = more[i]
          /\ Len(all) = Len(four) + Len(more)
      BY <1>0, <2>1
    <2>3. four \o more = all
      BY <1>0, <2>1, <2>2, JoinedIs
    <2> QED BY <2>3 DEF more, all
  <1> QED BY <1>1, <1>2, <1>3

\* The four tables, one after the other.
LEMMA TablesJoined ==
    /\ DOMAIN AllRoutes = 1..34
    /\ \A i \in 1..4 : AllRoutes[i] = LoginRoutes[i]
    /\ \A i \in 1..14 : AllRoutes[4 + i] = ProviderRoutes[i]
    /\ \A i \in 1..13 : AllRoutes[18 + i] = EntityRoutes[i]
  <1>1. /\ Len(LoginRoutes) = 4 /\ Len(ProviderRoutes) = 14
        /\ Len(EntityRoutes) = 13 /\ Len(DocsRoutes) = 3
    BY DEF LoginRoutes, ProviderRoutes, EntityRoutes, DocsRoutes
  <1> DEFINE S == {LoginRoutes[i] : i \in 1..4} \cup {ProviderRoutes[i] : i \in 1..14}
                  \cup {EntityRoutes[i] : i \in 1..13} \cup {DocsRoutes[i] : i \in 1..3}
  <1>2. LoginRoutes \in Seq(S)
    <2>1. LoginRoutes = [i \in 1..4 |-> LoginRoutes[i]]
      BY DEF LoginRoutes
    <2> QED BY <2>1
  <1>3. ProviderRoutes \in Seq(S)
    <2>1. ProviderRoutes = [i \in 1..14 |-> ProviderRoutes[i]]
      BY DEF ProviderRoutes
    <2> QED BY <2>1
  <1>4. EntityRoutes \in Seq(S)
    <2>1. EntityRoutes = [i \in 1..13 |-> EntityRoutes[i]]
      BY DEF EntityRoutes
    <2> QED BY <2>1
  <1>5. DocsRoutes \in Seq(S)
    <2>1. DocsRoutes = [i \in 1..3 |-> DocsRoutes[i]]
      BY DEF DocsRoutes
    <2> QED BY <2>1
  <1> HIDE DEF S
  <1>j. \A x, y \in Seq(S) :
               /\ x \o y \in Seq(S)
               /\ Len(x \o y) = Len(x) + Len(y)
               /\ \A i \in 1..Len(x) : (x \o y)[i] = x[i]
               /\ \A i \in 1..Len(y) : (x \o y)[Len(x) + i] = y[i]
    BY Joined
  <1>n. 4 \in Nat /\ 14 \in Nat /\ 18 \in Nat /\ 13 \in Nat /\ 31 \in Nat /\ 3 \in Nat
        /\ 4 + 14 = 18 /\ 18 + 13 = 31 /\ 31 + 3 = 34
    OBVIOUS
  <1>6. /\ LoginRoutes \o ProviderRoutes \in Seq(S)
        /\ Len(LoginRoutes \o ProviderRoutes) = 4 + 14
        /\ \A i \in 1..4 : (LoginRoutes \o ProviderRoutes)[i] = LoginRoutes[i]
        /\ \A i \in 1..14 : (LoginRoutes \o ProviderRoutes)[4 + i] = ProviderRoutes[i]
    <2>1. /\ LoginRoutes \o ProviderRoutes \in Seq(S)
          /\ Len(LoginRoutes \o ProviderRoutes) = Len(LoginRoutes) + Len(ProviderRoutes)
          /\ \A i \in 1..Len(LoginRoutes) : (LoginRoutes \o ProviderRoutes)[i] = LoginRoutes[i]
          /\ \A i \in 1..Len(ProviderRoutes) :
                 (LoginRoutes \o ProviderRoutes)[Len(LoginRoutes) + i] = ProviderRoutes[i]
      BY <1>1, <1>2, <1>3, <1>j
    <2> QED BY <1>1, <2>1, Zenon
  <1>7. Len(LoginRoutes \o ProviderRoutes) = 18
    BY <1>6, <1>n, Zenon
  <1> DEFINE ab == LoginRoutes \o ProviderRoutes
  <1>8. /\ ab \o EntityRoutes \in Seq(S) /\ Len(ab \o EntityRoutes) = 18 + 13
        /\ \A i \in 1..18 : (ab \o EntityRoutes)[i] = ab[i]
        /\ \A i \in 1..13 : (ab \o EntityRoutes)[18 + i] = EntityRoutes[i]
    <2>1. ab \in Seq(S) /\ Len(ab) = 18
      BY <1>6, <1>7
    <2> HIDE DEF ab
    <2>2. /\ ab \o EntityRoutes \in Seq(S)
          /\ Len(ab \o EntityRoutes) = Len(ab) + Len(EntityRoutes)
          /\ \A i \in 1..Len(ab) : (ab \o EntityRoutes)[i] = ab[i]
          /\ \A i \in 1..Len(EntityRoutes) : (ab \o EntityRoutes)[Len(ab) + i] = EntityRoutes[i]
      BY <1>4, <1>5, <2>1, <1>j
    <2> QED BY <1>1, <2>1, <2>2, Zenon
  <1> DEFINE abc == ab \o EntityRoutes
  <1>9. Len(abc) = 31
    BY <1>8, <1>n, Zenon
  <1>10. /\ abc \o DocsRoutes \in Seq(S) /\ Len(abc \o DocsRoutes) = 31 + 3
         /\ \A i \in 1..31 : (abc \o DocsRoutes)[i] = abc[i]
    <2>1. abc \in Seq(S) /\ Len(abc) = 31
      BY <1>8, <1>9
    <2> HIDE DEF abc
    <2>2. /\ abc \o DocsRoutes \in Seq(S) /\ Len(abc \o DocsRoutes) = Len(abc) + Len(DocsRoutes)
          /\ \A i \in 1..Len(abc) : (abc \o DocsRoutes)[i] = abc[i]
          /\ \A i \in 1..Len(DocsRoutes) : (abc \o DocsRoutes)[Len(abc) + i] = DocsRoutes[i]
      BY <1>5, <2>1, <1>j, ZenonT(60)
    <2> QED BY <1>1, <2>1, <2>2, Zenon
  <1> DEFINE all == abc \o DocsRoutes
  <1>11. \A i \in 1..4 : ab[i] = LoginRoutes[i]
    BY <1>6
  <1>12. \A i \in 1..14 : ab[4 + i] = ProviderRoutes[i]
    BY <1>6
  <1>13. \A i \in 1..18 : abc[i] = ab[i]
    BY <1>8
  <1>14. \A i \in 1..13 : abc[18 + i] = EntityRoutes[i]
    BY <1>8
  <1>15. \A i \in 1..31 : all[i] = abc[i]
    BY <1>10
  <1>16. all \in Seq(S) /\ Len(all) = 34
    BY <1>10, <1>n, Zenon
  <1> HIDE DEF ab, abc, all
  <1>17. \A i \in 1..4 : all[i] = LoginRoutes[i]
    <2> TAKE i \in 1..4
    <2>1. i \in 1..18 /\ i \in 1..31
      OBVIOUS
    <2> QED BY <2>1, <1>11, <1>13, <1>15, Zenon
  <1>18. \A i \in 1..14 : all[4 + i] = ProviderRoutes[i]
    <2> TAKE i \in 1..14
    <2>1. 4 + i \in 1..18 /\ 4 + i \in 1..31
      OBVIOUS
    <2> QED BY <2>1, <1>12, <1>13, <1>15, Zenon
  <1>19. \A i \in 1..13 : all[18 + i] = EntityRoutes[i]
    <2> TAKE i \in 1..13
    <2>1. 18 + i \in 1..31
      OBVIOUS
    <2> QED BY <2>1, <1>14, <1>15, Zenon
  <1>20. all = AllRoutes
    BY DEF all, abc, ab, AllRoutes
  <1>21. DOMAIN all = 1..34
    BY <1>16
  <1> QED BY <1>17, <1>18, <1>19, <1>20, <1>21, Zenon

\* What is served is what the first route that matches says.
LEMMA ServedByFirst ==
    ASSUME NEW r, NEW i \in DOMAIN AllRoutes, Matches(AllRoutes[i], r),
           \A j \in DOMAIN AllRoutes : j < i => ~ Matches(AllRoutes[j], r)
    PROVE  Served(r) = IF CheckRequest(AllRoutes[i], r) THEN AllRoutes[i].handler
                       ELSE "bad_request"
  <1> DEFINE matching == {j \in DOMAIN AllRoutes : Matches(AllRoutes[j], r)}
             first == CHOOSE j \in matching : \A k \in matching : j <= k
  <1>1. DOMAIN AllRoutes = 1..34
    BY TablesJoined
  <1>2. i \in matching /\ \A k \in matching : i <= k
    BY <1>1
  <1>3. first \in matching /\ \A k \in matching : first <= k
    BY <1>2
  <1>4. first = i
    <2>1. first \in 1..34 /\ i \in 1..34 /\ first <= i /\ i <= first
      BY <1>1, <1>2, <1>3, Zenon
    <2> HIDE DEF first
    <2> QED BY <2>1
  <1>5. RouteOf(AllRoutes, r) = AllRoutes[i]
    BY <1>4 DEF RouteOf
  <1>6. IsRouted(r)
    BY DEF IsRouted
  <1> QED BY <1>5, <1>6 DEF Served

\* A request that a route of entity_routes.ts matches has its method and its length.
LEMMA EntityCandidates ==
    ASSUME NEW r, NEW i \in 1..13, Matches(EntityRoutes[i], r)
    PROVE  \/ i = 1 /\ r.method = "POST" /\ Len(r.path) = 4
           \/ i = 2 /\ r.method = "GET" /\ Len(r.path) = 3
           \/ i = 3 /\ r.method = "GET" /\ Len(r.path) = 2
           \/ i = 4 /\ r.method = "POST" /\ Len(r.path) = 3
           \/ i = 5 /\ r.method = "GET" /\ Len(r.path) = 4
           \/ i = 6 /\ r.method = "GET" /\ Len(r.path) = 5
           \/ i = 7 /\ r.method = "POST" /\ Len(r.path) = 5
           \/ i = 8 /\ r.method = "PUT" /\ Len(r.path) = 5
           \/ i = 9 /\ r.method = "POST" /\ Len(r.path) = 4
           \/ i = 10 /\ r.method = "DELETE" /\ Len(r.path) = 5
           \/ i = 11 /\ r.method = "POST" /\ Len(r.path) = 7
           \/ i = 12 /\ r.method = "POST" /\ Len(r.path) = 6
           \/ i = 13 /\ r.method = "POST" /\ Len(r.path) = 5
  <1>1. /\ Len(EntityRoutes[1].pattern) = 4 /\ Len(EntityRoutes[2].pattern) = 3
        /\ Len(EntityRoutes[3].pattern) = 2 /\ Len(EntityRoutes[4].pattern) = 3
        /\ Len(EntityRoutes[5].pattern) = 4 /\ Len(EntityRoutes[6].pattern) = 5
        /\ Len(EntityRoutes[7].pattern) = 5 /\ Len(EntityRoutes[8].pattern) = 5
        /\ Len(EntityRoutes[9].pattern) = 4 /\ Len(EntityRoutes[10].pattern) = 5
        /\ Len(EntityRoutes[11].pattern) = 7 /\ Len(EntityRoutes[12].pattern) = 6
        /\ Len(EntityRoutes[13].pattern) = 5
    BY DEF EntityRoutes, Route
  <1>2. /\ EntityRoutes[1].methods = {"POST"} /\ EntityRoutes[2].methods = {"GET"}
        /\ EntityRoutes[3].methods = {"GET"} /\ EntityRoutes[4].methods = {"POST"}
        /\ EntityRoutes[5].methods = {"GET"} /\ EntityRoutes[6].methods = {"GET"}
        /\ EntityRoutes[7].methods = {"POST"} /\ EntityRoutes[8].methods = {"PUT"}
        /\ EntityRoutes[9].methods = {"POST"} /\ EntityRoutes[10].methods = {"DELETE"}
        /\ EntityRoutes[11].methods = {"POST"} /\ EntityRoutes[12].methods = {"POST"}
        /\ EntityRoutes[13].methods = {"POST"}
    BY DEF EntityRoutes, Route
  <1>3. \A j \in 1..13 : EntityRoutes[j].exact
    BY DEF EntityRoutes, Route
  <1>4. i = 1 \/ i = 2 \/ i = 3 \/ i = 4 \/ i = 5 \/ i = 6 \/ i = 7
        \/ i = 8 \/ i = 9 \/ i = 10 \/ i = 11 \/ i = 12 \/ i = 13
    OBVIOUS
  <1>5. r.method \in EntityRoutes[i].methods /\ Len(EntityRoutes[i].pattern) = Len(r.path)
    BY <1>3 DEF Matches
  <1> QED BY <1>1, <1>2, <1>4, <1>5

\* So with provider_routes.ts.
LEMMA ProviderCandidates ==
    ASSUME NEW r, NEW i \in 1..14, Matches(ProviderRoutes[i], r)
    PROVE  \/ i = 1 /\ r.method = "POST" /\ Len(r.path) = 1
           \/ i = 2 /\ r.method = "GET" /\ Len(r.path) = 1
           \/ i = 3 /\ r.method = "GET" /\ Len(r.path) = 3
           \/ i = 4 /\ r.method = "DELETE" /\ Len(r.path) = 3
           \/ i = 5 /\ r.method = "GET" /\ Len(r.path) = 2
           \/ i = 6 /\ r.method = "POST" /\ Len(r.path) = 4
           \/ i = 7 /\ r.method = "PATCH" /\ Len(r.path) = 4
           \/ i = 8 /\ r.method = "POST" /\ Len(r.path) = 4
           \/ i = 9 /\ r.method = "POST" /\ Len(r.path) = 4
           \/ i = 10 /\ r.method = "POST" /\ Len(r.path) = 4
           \/ i = 11 /\ r.method = "GET" /\ Len(r.path) = 4
           \/ i = 12 /\ r.method = "POST" /\ Len(r.path) = 4
           \/ i = 13 /\ r.method = "PUT" /\ Len(r.path) = 4
           \/ i = 14 /\ r.method = "POST" /\ Len(r.path) = 5
  <1>1. /\ Len(ProviderRoutes[1].pattern) = 1 /\ Len(ProviderRoutes[2].pattern) = 1
        /\ Len(ProviderRoutes[3].pattern) = 3 /\ Len(ProviderRoutes[4].pattern) = 3
        /\ Len(ProviderRoutes[5].pattern) = 2 /\ Len(ProviderRoutes[6].pattern) = 4
        /\ Len(ProviderRoutes[7].pattern) = 4 /\ Len(ProviderRoutes[8].pattern) = 4
        /\ Len(ProviderRoutes[9].pattern) = 4 /\ Len(ProviderRoutes[10].pattern) = 4
        /\ Len(ProviderRoutes[11].pattern) = 4 /\ Len(ProviderRoutes[12].pattern) = 4
        /\ Len(ProviderRoutes[13].pattern) = 4 /\ Len(ProviderRoutes[14].pattern) = 5
    BY DEF ProviderRoutes, Route
  <1>2. /\ ProviderRoutes[1].methods = {"POST"} /\ ProviderRoutes[2].methods = {"GET"}
        /\ ProviderRoutes[3].methods = {"GET"} /\ ProviderRoutes[4].methods = {"DELETE"}
        /\ ProviderRoutes[5].methods = {"GET"} /\ ProviderRoutes[6].methods = {"POST"}
        /\ ProviderRoutes[7].methods = {"PATCH"} /\ ProviderRoutes[8].methods = {"POST"}
        /\ ProviderRoutes[9].methods = {"POST"} /\ ProviderRoutes[10].methods = {"POST"}
        /\ ProviderRoutes[11].methods = {"GET"} /\ ProviderRoutes[12].methods = {"POST"}
        /\ ProviderRoutes[13].methods = {"PUT"} /\ ProviderRoutes[14].methods = {"POST"}
    BY DEF ProviderRoutes, Route
  <1>3. \A j \in 1..14 : ProviderRoutes[j].exact
    BY DEF ProviderRoutes, Route
  <1>4. r.method \in ProviderRoutes[i].methods /\ Len(ProviderRoutes[i].pattern) = Len(r.path)
    BY <1>3 DEF Matches
  <1>5. CASE i \in 1..7
    <2>1. i = 1 \/ i = 2 \/ i = 3 \/ i = 4 \/ i = 5 \/ i = 6 \/ i = 7
      BY <1>5
    <2> QED BY <1>1, <1>2, <1>4, <2>1
  <1>6. CASE i \in 8..14
    <2>1. i = 8 \/ i = 9 \/ i = 10 \/ i = 11 \/ i = 12 \/ i = 13 \/ i = 14
      BY <1>6
    <2> QED BY <1>1, <1>2, <1>4, <2>1
  <1> QED BY <1>5, <1>6

\* The first segments of the routes.
LEMMA FirstSegments ==
    /\ \A i \in 1..4 : LoginRoutes[i].pattern[1] = {"provider"}
                       /\ 1 \in DOMAIN LoginRoutes[i].pattern
    /\ \A i \in 1..14 : ProviderRoutes[i].pattern[1] = {"provider"}
                        /\ 1 \in DOMAIN ProviderRoutes[i].pattern
    /\ \A i \in 1..13 : EntityRoutes[i].pattern[1] = {"services"}
                        /\ 1 \in DOMAIN EntityRoutes[i].pattern
  <1>1. \A i \in 1..4 : LoginRoutes[i].pattern[1] = {"provider"}
                        /\ 1 \in DOMAIN LoginRoutes[i].pattern
    BY DEF LoginRoutes, Use, Provider
  <1>2. \A i \in 1..14 : ProviderRoutes[i].pattern[1] = {"provider"}
                         /\ 1 \in DOMAIN ProviderRoutes[i].pattern
    BY DEF ProviderRoutes, Route, Provider
  <1>3. \A i \in 1..13 : EntityRoutes[i].pattern[1] = {"services"}
                         /\ 1 \in DOMAIN EntityRoutes[i].pattern
    BY DEF EntityRoutes, Route, Services
  <1> QED BY <1>1, <1>2, <1>3

\* A path that begins with services is decided by entity_routes.ts.
LEMMA EntityServed ==
    ASSUME NEW r, r.path[1] = "services", NEW i \in 1..13, Matches(EntityRoutes[i], r),
           \A j \in 1..13 : j < i => ~ Matches(EntityRoutes[j], r)
    PROVE  Served(r) = IF CheckRequest(EntityRoutes[i], r) THEN EntityRoutes[i].handler
                       ELSE "bad_request"
  <1>1. /\ 18 + i \in DOMAIN AllRoutes /\ AllRoutes[18 + i] = EntityRoutes[i]
        /\ DOMAIN AllRoutes = 1..34
    BY TablesJoined
  <1>2. ASSUME NEW j \in 1..34, j < 18 + i PROVE ~ Matches(AllRoutes[j], r)
    <2>1. CASE j \in 1..4
      <3>1. AllRoutes[j].pattern[1] = {"provider"} /\ 1 \in DOMAIN AllRoutes[j].pattern
        BY <2>1, TablesJoined, FirstSegments
      <3> QED BY <3>1 DEF Matches
    <2>2. CASE j \in 5..18
      <3>1. PICK k \in 1..14 : j = 4 + k
        <4>1. j - 4 \in 1..14 /\ j = 4 + (j - 4)
          BY <2>2
        <4> QED BY <4>1
      <3>2. AllRoutes[j].pattern[1] = {"provider"} /\ 1 \in DOMAIN AllRoutes[j].pattern
        BY <3>1, TablesJoined, FirstSegments
      <3> QED BY <3>2 DEF Matches
    <2>3. CASE j \in 19..34
      <3>1. PICK k \in 1..13 : j = 18 + k /\ k < i
        <4>1. j - 18 \in 1..13 /\ j = 18 + (j - 18) /\ j - 18 < i
          BY <1>2, <2>3
        <4> QED BY <4>1
      <3> QED BY <3>1, TablesJoined
    <2> QED BY <2>1, <2>2, <2>3
  <1> QED BY <1>1, <1>2, ServedByFirst

\* A path that begins with provider is decided by the login, then by
\* provider_routes.ts.
LEMMA ProviderServed ==
    ASSUME NEW r, NEW i \in 1..14, Matches(ProviderRoutes[i], r),
           \A j \in 1..4 : ~ Matches(LoginRoutes[j], r),
           \A j \in 1..14 : j < i => ~ Matches(ProviderRoutes[j], r)
    PROVE  Served(r) = IF CheckRequest(ProviderRoutes[i], r) THEN ProviderRoutes[i].handler
                       ELSE "bad_request"
  <1>1. /\ 4 + i \in DOMAIN AllRoutes /\ AllRoutes[4 + i] = ProviderRoutes[i]
        /\ DOMAIN AllRoutes = 1..34
    BY TablesJoined
  <1>2. ASSUME NEW j \in 1..34, j < 4 + i PROVE ~ Matches(AllRoutes[j], r)
    <2>1. CASE j \in 1..4
      BY <2>1, TablesJoined
    <2>2. CASE j \in 5..34
      <3>1. PICK k \in 1..14 : j = 4 + k /\ k < i
        <4>1. j - 4 \in 1..14 /\ j = 4 + (j - 4) /\ j - 4 < i
          BY <1>2, <2>2
        <4> QED BY <4>1
      <3> QED BY <3>1, TablesJoined
    <2> QED BY <2>1, <2>2
  <1> QED BY <1>1, <1>2, ServedByFirst

------------------------------------------------------------------------------
(* The requests on entities, one by one                                        *)

\* A creation; of a kind named check_permission it is taken for a check.
LEMMA CreateServed ==
    ASSUME NEW p \in Segment, NEW v \in Segment, NEW k \in Segment, NEW r,
           r.method = "POST", r.path = <<"services", p, v, k>>, r.query = {},
           r.body \subseteq Params
    PROVE  Served(r) = IF k = "check_permission" THEN "check_permission" ELSE "create_entity"
  <1>1. /\ Len(r.path) = 4 /\ r.path[1] = "services" /\ r.path[2] = p /\ r.path[3] = v
        /\ r.path[4] = k
    OBVIOUS
  <1>2. ASSUME NEW j \in 1..13, Matches(EntityRoutes[j], r) PROVE j = 1 \/ j = 9
    BY <1>1, <1>2, EntityCandidates
  <1>3. CASE k = "check_permission"
    <2>1. /\ EntityRoutes[1].methods = {"POST"} /\ EntityRoutes[1].exact
          /\ EntityRoutes[1].pattern = <<Services, Segment, Segment, {"check_permission"}>>
          /\ EntityRoutes[1].query = {} /\ EntityRoutes[1].body = Params
          /\ EntityRoutes[1].handler = "check_permission"
      BY DEF EntityRoutes, Route
    <2>2. Matches(EntityRoutes[1], r)
      BY <1>1, <1>3, <2>1 DEF Matches, Services
    <2>3. Matches(EntityRoutes[1], r) /\ CheckRequest(EntityRoutes[1], r)
      BY <2>1, <2>2 DEF CheckRequest
    <2> QED BY <1>1, <1>3, <2>1, <2>3, EntityServed
  <1>4. CASE k # "check_permission"
    <2>1. /\ EntityRoutes[9].methods = {"POST"} /\ EntityRoutes[9].exact
          /\ EntityRoutes[9].pattern = <<Services, Segment, Segment, Segment>>
          /\ EntityRoutes[9].query = {} /\ EntityRoutes[9].body = Params
          /\ EntityRoutes[9].handler = "create_entity"
      BY DEF EntityRoutes, Route
    <2>2. Matches(EntityRoutes[9], r)
      BY <1>1, <1>4, <2>1 DEF Matches, Services
    <2>3. Matches(EntityRoutes[9], r) /\ CheckRequest(EntityRoutes[9], r)
      BY <2>1, <2>2 DEF CheckRequest
    <2>4. ~ Matches(EntityRoutes[1], r)
      BY <1>1, <1>4 DEF EntityRoutes, Route, Matches
    <2>5. \A j \in 1..13 : j < 9 => ~ Matches(EntityRoutes[j], r)
      BY <1>2, <2>4
    <2> QED BY <1>1, <1>4, <2>1, <2>3, <2>5, EntityServed
  <1> QED BY <1>3, <1>4

\* A read of an entity.
LEMMA GetServed ==
    ASSUME NEW p \in Segment, NEW v \in Segment, NEW k \in Segment, NEW u \in Segment, NEW r,
           r.method = "GET", r.path = <<"services", p, v, k, u>>,
           r.query = {}, r.body \subseteq Params
    PROVE  Served(r) = "get_entity"
  <1>1. /\ Len(r.path) = 5 /\ r.path[1] = "services" /\ r.path[2] = p
        /\ r.path[3] = v /\ r.path[4] = k /\ r.path[5] = u
    OBVIOUS
  <1>2. /\ EntityRoutes[6].methods = {"GET"} /\ EntityRoutes[6].exact
        /\ EntityRoutes[6].pattern = <<Services, Segment, Segment, Segment, Segment>>
        /\ EntityRoutes[6].query = {}
        /\ EntityRoutes[6].body = Params
        /\ EntityRoutes[6].handler = "get_entity"
    BY DEF EntityRoutes, Route
  <1>3. Matches(EntityRoutes[6], r)
    BY <1>1, <1>2 DEF Matches, Services
  <1>4. CheckRequest(EntityRoutes[6], r)
    BY <1>2 DEF CheckRequest
  <1>5. ASSUME NEW j \in 1..13, Matches(EntityRoutes[j], r) PROVE j = 6
    BY <1>1, <1>5, EntityCandidates
  <1> QED BY <1>1, <1>2, <1>3, <1>4, <1>5, EntityServed

\* An update of a spec.
LEMMA UpdateServed ==
    ASSUME NEW p \in Segment, NEW v \in Segment, NEW k \in Segment, NEW u \in Segment, NEW r,
           r.method = "PUT", r.path = <<"services", p, v, k, u>>,
           r.query = {}, r.body \subseteq {"metadata", "spec"}
    PROVE  Served(r) = "update_entity"
  <1>1. /\ Len(r.path) = 5 /\ r.path[1] = "services" /\ r.path[2] = p
        /\ r.path[3] = v /\ r.path[4] = k /\ r.path[5] = u
    OBVIOUS
  <1>2. /\ EntityRoutes[8].methods = {"PUT"} /\ EntityRoutes[8].exact
        /\ EntityRoutes[8].pattern = <<Services, Segment, Segment, Segment, Segment>>
        /\ EntityRoutes[8].query = {}
        /\ EntityRoutes[8].body = {"metadata", "spec"}
        /\ EntityRoutes[8].handler = "update_entity"
    BY DEF EntityRoutes, Route
  <1>3. Matches(EntityRoutes[8], r)
    BY <1>1, <1>2 DEF Matches, Services
  <1>4. CheckRequest(EntityRoutes[8], r)
    BY <1>2 DEF CheckRequest
  <1>5. ASSUME NEW j \in 1..13, Matches(EntityRoutes[j], r) PROVE j = 8
    BY <1>1, <1>5, EntityCandidates
  <1> QED BY <1>1, <1>2, <1>3, <1>4, <1>5, EntityServed

\* A deletion.
LEMMA DeleteServed ==
    ASSUME NEW p \in Segment, NEW v \in Segment, NEW k \in Segment, NEW u \in Segment, NEW r,
           r.method = "DELETE", r.path = <<"services", p, v, k, u>>,
           r.query = {}, r.body \subseteq Params
    PROVE  Served(r) = "delete_entity"
  <1>1. /\ Len(r.path) = 5 /\ r.path[1] = "services" /\ r.path[2] = p
        /\ r.path[3] = v /\ r.path[4] = k /\ r.path[5] = u
    OBVIOUS
  <1>2. /\ EntityRoutes[10].methods = {"DELETE"} /\ EntityRoutes[10].exact
        /\ EntityRoutes[10].pattern = <<Services, Segment, Segment, Segment, Segment>>
        /\ EntityRoutes[10].query = {}
        /\ EntityRoutes[10].body = Params
        /\ EntityRoutes[10].handler = "delete_entity"
    BY DEF EntityRoutes, Route
  <1>3. Matches(EntityRoutes[10], r)
    BY <1>1, <1>2 DEF Matches, Services
  <1>4. CheckRequest(EntityRoutes[10], r)
    BY <1>2 DEF CheckRequest
  <1>5. ASSUME NEW j \in 1..13, Matches(EntityRoutes[j], r) PROVE j = 10
    BY <1>1, <1>5, EntityCandidates
  <1> QED BY <1>1, <1>2, <1>3, <1>4, <1>5, EntityServed

\* A filter in the query.
LEMMA GetFilterServed ==
    ASSUME NEW p \in Segment, NEW v \in Segment, NEW k \in Segment, NEW r,
           r.method = "GET", r.path = <<"services", p, v, k>>,
           r.query \subseteq Paging \cup {"spec", "status", "metadata", "exact", "deleted"},
           r.body \subseteq Params
    PROVE  Served(r) = "filter_entity"
  <1>1. /\ Len(r.path) = 4 /\ r.path[1] = "services" /\ r.path[2] = p
        /\ r.path[3] = v /\ r.path[4] = k
    OBVIOUS
  <1>2. /\ EntityRoutes[5].methods = {"GET"} /\ EntityRoutes[5].exact
        /\ EntityRoutes[5].pattern = <<Services, Segment, Segment, Segment>>
        /\ EntityRoutes[5].query
             = Paging \cup {"spec", "status", "metadata", "exact", "deleted"}
        /\ EntityRoutes[5].body = Params
        /\ EntityRoutes[5].handler = "filter_entity"
    BY DEF EntityRoutes, Route
  <1>3. Matches(EntityRoutes[5], r)
    BY <1>1, <1>2 DEF Matches, Services
  <1>4. CheckRequest(EntityRoutes[5], r)
    BY <1>2 DEF CheckRequest
  <1>5. ASSUME NEW j \in 1..13, Matches(EntityRoutes[j], r) PROVE j = 5
    BY <1>1, <1>5, EntityCandidates
  <1> QED BY <1>1, <1>2, <1>3, <1>4, <1>5, EntityServed

\* A filter in the body, also of a kind named procedure.
LEMMA FilterServed ==
    ASSUME NEW p \in Segment, NEW v \in Segment, NEW k \in Segment, NEW r,
           r.method = "POST", r.path = <<"services", p, v, k, "filter">>,
           r.query \subseteq Paging \cup {"exact", "deleted"},
           r.body \subseteq Paging \cup {"spec", "status", "metadata"}
    PROVE  Served(r) = "filter_entity"
  <1>1. /\ Len(r.path) = 5 /\ r.path[1] = "services" /\ r.path[2] = p
        /\ r.path[3] = v /\ r.path[4] = k /\ r.path[5] = "filter"
    OBVIOUS
  <1>2. /\ EntityRoutes[7].methods = {"POST"} /\ EntityRoutes[7].exact
        /\ EntityRoutes[7].pattern = <<Services, Segment, Segment, Segment, {"filter"}>>
        /\ EntityRoutes[7].query = Paging \cup {"exact", "deleted"}
        /\ EntityRoutes[7].body = Paging \cup {"spec", "status", "metadata"}
        /\ EntityRoutes[7].handler = "filter_entity"
    BY DEF EntityRoutes, Route
  <1>3. Matches(EntityRoutes[7], r)
    BY <1>1, <1>2 DEF Matches, Services
  <1>4. CheckRequest(EntityRoutes[7], r)
    BY <1>2 DEF CheckRequest
  <1>5. ASSUME NEW j \in 1..13, Matches(EntityRoutes[j], r) PROVE j = 7 \/ j = 13
    BY <1>1, <1>5, EntityCandidates
  <1> QED BY <1>1, <1>2, <1>3, <1>4, <1>5, EntityServed

\* A call of an entity procedure.
LEMMA EntityProcedureServed ==
    ASSUME NEW p \in Segment, NEW v \in Segment, NEW k \in Segment, NEW u \in Segment,
           NEW n \in Segment, NEW r,
           r.method = "POST", r.path = <<"services", p, v, k, u, "procedure", n>>,
           r.query = {}, r.body \subseteq Params
    PROVE  Served(r) = "entity_procedure"
  <1>1. /\ Len(r.path) = 7 /\ r.path[1] = "services" /\ r.path[2] = p
        /\ r.path[3] = v /\ r.path[4] = k /\ r.path[5] = u /\ r.path[6] = "procedure"
        /\ r.path[7] = n
    OBVIOUS
  <1>2. /\ EntityRoutes[11].methods = {"POST"} /\ EntityRoutes[11].exact
        /\ EntityRoutes[11].pattern
             = <<Services, Segment, Segment, Segment, Segment, {"procedure"}, Segment>>
        /\ EntityRoutes[11].query = {}
        /\ EntityRoutes[11].body = Params
        /\ EntityRoutes[11].handler = "entity_procedure"
    BY DEF EntityRoutes, Route
  <1>3. Matches(EntityRoutes[11], r)
    BY <1>1, <1>2 DEF Matches, Services
  <1>4. CheckRequest(EntityRoutes[11], r)
    BY <1>2 DEF CheckRequest
  <1>5. ASSUME NEW j \in 1..13, Matches(EntityRoutes[j], r) PROVE j = 11
    BY <1>1, <1>5, EntityCandidates
  <1> QED BY <1>1, <1>2, <1>3, <1>4, <1>5, EntityServed

\* A call of a kind procedure.
LEMMA KindProcedureServed ==
    ASSUME NEW p \in Segment, NEW v \in Segment, NEW k \in Segment, NEW n \in Segment, NEW r,
           r.method = "POST", r.path = <<"services", p, v, k, "procedure", n>>,
           r.query = {}, r.body \subseteq Params
    PROVE  Served(r) = "kind_procedure"
  <1>1. /\ Len(r.path) = 6 /\ r.path[1] = "services" /\ r.path[2] = p
        /\ r.path[3] = v /\ r.path[4] = k /\ r.path[5] = "procedure" /\ r.path[6] = n
    OBVIOUS
  <1>2. /\ EntityRoutes[12].methods = {"POST"} /\ EntityRoutes[12].exact
        /\ EntityRoutes[12].pattern
             = <<Services, Segment, Segment, Segment, {"procedure"}, Segment>>
        /\ EntityRoutes[12].query = {}
        /\ EntityRoutes[12].body = Params
        /\ EntityRoutes[12].handler = "kind_procedure"
    BY DEF EntityRoutes, Route
  <1>3. Matches(EntityRoutes[12], r)
    BY <1>1, <1>2 DEF Matches, Services
  <1>4. CheckRequest(EntityRoutes[12], r)
    BY <1>2 DEF CheckRequest
  <1>5. ASSUME NEW j \in 1..13, Matches(EntityRoutes[j], r) PROVE j = 12
    BY <1>1, <1>5, EntityCandidates
  <1> QED BY <1>1, <1>2, <1>3, <1>4, <1>5, EntityServed

\* A call of a provider procedure, unless its name is that of the filter.
LEMMA ProviderProcedureServed ==
    ASSUME NEW p \in Segment, NEW v \in Segment, NEW n \in Segment, NEW r,
           r.method = "POST", r.path = <<"services", p, v, "procedure", n>>,
           r.query = {}, r.body \subseteq Params, n # "filter"
    PROVE  Served(r) = "provider_procedure"
  <1>1. /\ Len(r.path) = 5 /\ r.path[1] = "services" /\ r.path[2] = p
        /\ r.path[3] = v /\ r.path[4] = "procedure" /\ r.path[5] = n
    OBVIOUS
  <1>2. /\ EntityRoutes[13].methods = {"POST"} /\ EntityRoutes[13].exact
        /\ EntityRoutes[13].pattern = <<Services, Segment, Segment, {"procedure"}, Segment>>
        /\ EntityRoutes[13].query = {}
        /\ EntityRoutes[13].body = Params
        /\ EntityRoutes[13].handler = "provider_procedure"
    BY DEF EntityRoutes, Route
  <1>3. Matches(EntityRoutes[13], r)
    BY <1>1, <1>2 DEF Matches, Services
  <1>4. CheckRequest(EntityRoutes[13], r)
    BY <1>2 DEF CheckRequest
  <1>5. ASSUME NEW j \in 1..13, Matches(EntityRoutes[j], r) PROVE j = 7 \/ j = 13
    BY <1>1, <1>5, EntityCandidates
  <1>6. ~ Matches(EntityRoutes[7], r)
    BY <1>1 DEF EntityRoutes, Route, Matches
  <1> QED BY <1>1, <1>2, <1>3, <1>4, <1>5, <1>6, EntityServed

\* A read of a watcher.
LEMMA WatcherServed ==
    ASSUME NEW u \in Segment, NEW r,
           r.method = "GET", r.path = <<"services", "intent_watcher", u>>,
           r.query = {}, r.body \subseteq Params
    PROVE  Served(r) = "get_intent_watcher"
  <1>1. /\ Len(r.path) = 3 /\ r.path[1] = "services" /\ r.path[2] = "intent_watcher"
        /\ r.path[3] = u
    OBVIOUS
  <1>2. /\ EntityRoutes[2].methods = {"GET"} /\ EntityRoutes[2].exact
        /\ EntityRoutes[2].pattern = <<Services, {"intent_watcher"}, Segment>>
        /\ EntityRoutes[2].query = {}
        /\ EntityRoutes[2].body = Params
        /\ EntityRoutes[2].handler = "get_intent_watcher"
    BY DEF EntityRoutes, Route
  <1>3. Matches(EntityRoutes[2], r)
    BY <1>1, <1>2 DEF Matches, Services
  <1>4. CheckRequest(EntityRoutes[2], r)
    BY <1>2 DEF CheckRequest
  <1>5. ASSUME NEW j \in 1..13, Matches(EntityRoutes[j], r) PROVE j = 2
    BY <1>1, <1>5, EntityCandidates
  <1> QED BY <1>1, <1>2, <1>3, <1>4, <1>5, EntityServed

\* A filter of watchers.
LEMMA WatcherFilterServed ==
    ASSUME NEW r,
           r.method = "POST", r.path = <<"services", "intent_watcher", "filter">>,
           r.query = {}, r.body \subseteq {"entity_ref", "created_at", "status"}
    PROVE  Served(r) = "filter_intent_watcher"
  <1>1. /\ Len(r.path) = 3 /\ r.path[1] = "services" /\ r.path[2] = "intent_watcher"
        /\ r.path[3] = "filter"
    OBVIOUS
  <1>2. /\ EntityRoutes[4].methods = {"POST"} /\ EntityRoutes[4].exact
        /\ EntityRoutes[4].pattern = <<Services, {"intent_watcher"}, {"filter"}>>
        /\ EntityRoutes[4].query = Paging
        /\ EntityRoutes[4].body = {"entity_ref", "created_at", "status"}
        /\ EntityRoutes[4].handler = "filter_intent_watcher"
    BY DEF EntityRoutes, Route
  <1>3. Matches(EntityRoutes[4], r)
    BY <1>1, <1>2 DEF Matches, Services
  <1>4. CheckRequest(EntityRoutes[4], r)
    BY <1>2 DEF CheckRequest
  <1>5. ASSUME NEW j \in 1..13, Matches(EntityRoutes[j], r) PROVE j = 4
    BY <1>1, <1>5, EntityCandidates
  <1> QED BY <1>1, <1>2, <1>3, <1>4, <1>5, EntityServed

\* A check of a permission.
LEMMA CheckServed ==
    ASSUME NEW p \in Segment, NEW v \in Segment, NEW r,
           r.method = "POST", r.path = <<"services", p, v, "check_permission">>,
           r.query = {}, r.body \subseteq Params
    PROVE  Served(r) = "check_permission"
  <1>1. /\ Len(r.path) = 4 /\ r.path[1] = "services" /\ r.path[2] = p
        /\ r.path[3] = v /\ r.path[4] = "check_permission"
    OBVIOUS
  <1>2. /\ EntityRoutes[1].methods = {"POST"} /\ EntityRoutes[1].exact
        /\ EntityRoutes[1].pattern = <<Services, Segment, Segment, {"check_permission"}>>
        /\ EntityRoutes[1].query = {}
        /\ EntityRoutes[1].body = Params
        /\ EntityRoutes[1].handler = "check_permission"
    BY DEF EntityRoutes, Route
  <1>3. Matches(EntityRoutes[1], r)
    BY <1>1, <1>2 DEF Matches, Services
  <1>4. CheckRequest(EntityRoutes[1], r)
    BY <1>2 DEF CheckRequest
  <1>5. ASSUME NEW j \in 1..13, Matches(EntityRoutes[j], r) PROVE j = 1 \/ j = 9
    <2>1. Len(r.path) = 4 /\ r.method = "POST"
      BY <1>1
    <2> QED BY <1>5, <2>1, EntityCandidates, SMTT(60)
  <1> QED BY <1>1, <1>2, <1>3, <1>4, <1>5, EntityServed

------------------------------------------------------------------------------
(* The requests on providers.  The login comes first, and takes every path that *)
(* begins with provider, auth and callback.                                     *)

\* Apart from that, it takes only paths of five segments.
LEMMA NotLogin ==
    ASSUME NEW r, Len(r.path) = 4, r.path[2] # "auth" \/ r.path[3] # "callback"
    PROVE  \A j \in 1..4 : ~ Matches(LoginRoutes[j], r)
  <1>1. /\ Len(LoginRoutes[1].pattern) = 5 /\ Len(LoginRoutes[2].pattern) = 5
        /\ Len(LoginRoutes[3].pattern) = 5
        /\ LoginRoutes[4].pattern = <<Provider, {"auth"}, {"callback"}>>
    BY DEF LoginRoutes, Use
  <1>2. ~ Matches(LoginRoutes[1], r) /\ ~ Matches(LoginRoutes[2], r)
        /\ ~ Matches(LoginRoutes[3], r)
    BY <1>1 DEF Matches
  <1>3. ~ Matches(LoginRoutes[4], r)
    BY <1>1 DEF Matches
  <1> QED BY <1>2, <1>3

\* The last segments of the routes that have the length and the method of a new key.
LEMMA FourthSegments ==
    /\ \A j \in {6, 8, 9, 10} : 4 \in DOMAIN ProviderRoutes[j].pattern
    /\ ProviderRoutes[6].pattern[4] = {"update_status"}
    /\ ProviderRoutes[8].pattern[4] = {"update_progress"}
    /\ ProviderRoutes[9].pattern[4] = {"power"}
    /\ ProviderRoutes[10].pattern[4] = {"auth"}
  <1>1. /\ ProviderRoutes[6].pattern = <<Provider, Segment, Segment, {"update_status"}>>
        /\ ProviderRoutes[8].pattern = <<Provider, Segment, Segment, {"update_progress"}>>
        /\ ProviderRoutes[9].pattern = <<Provider, Segment, Segment, {"power"}>>
        /\ ProviderRoutes[10].pattern = <<Provider, Segment, Segment, {"auth"}>>
    BY DEF ProviderRoutes, Route
  <1> QED BY <1>1

\* What is shadowed by the callback of the login never gets to its handler.
LEMMA Shadowed ==
    ASSUME NEW r, Len(r.path) = 4, r.path[1] = "provider", r.path[2] = "auth",
           r.path[3] = "callback", r.method \in Methods
    PROVE  Served(r) \in {"callback", "bad_request"}
  <1>1. /\ LoginRoutes[4].methods = Methods /\ LoginRoutes[4].exact = FALSE
        /\ LoginRoutes[4].pattern = <<Provider, {"auth"}, {"callback"}>>
        /\ LoginRoutes[4].handler = "callback"
        /\ Len(LoginRoutes[1].pattern) = 5 /\ Len(LoginRoutes[2].pattern) = 5
        /\ Len(LoginRoutes[3].pattern) = 5
    BY DEF LoginRoutes, Use
  <1>2. Matches(LoginRoutes[4], r)
    BY <1>1 DEF Matches, Provider
  <1>3. ~ Matches(LoginRoutes[1], r) /\ ~ Matches(LoginRoutes[2], r)
        /\ ~ Matches(LoginRoutes[3], r)
    BY <1>1 DEF Matches
  <1>4. /\ 4 \in DOMAIN AllRoutes /\ AllRoutes[4] = LoginRoutes[4]
        /\ \A j \in DOMAIN AllRoutes : j < 4 => ~ Matches(AllRoutes[j], r)
    BY <1>3, TablesJoined
  <1> QED BY <1>1, <1>2, <1>4, ServedByFirst

\* The information about the user.
LEMMA UserInfoServed ==
    ASSUME NEW p \in Segment, NEW v \in Segment, NEW r,
           r.method = "GET", r.path = <<"provider", p, v, "auth", "user_info">>,
           r.query = {}, r.body = {}
    PROVE  Served(r) = "user_info"
  <1>1. /\ Len(r.path) = 5 /\ r.path[1] = "provider" /\ r.path[2] = p /\ r.path[3] = v
        /\ r.path[4] = "auth" /\ r.path[5] = "user_info"
    OBVIOUS
  <1>2. /\ LoginRoutes[1].methods = Methods /\ LoginRoutes[1].exact = FALSE
        /\ LoginRoutes[1].pattern = <<Provider, Segment, Segment, {"auth"}, {"user_info"}>>
        /\ LoginRoutes[1].query = Params /\ LoginRoutes[1].body = Params
        /\ LoginRoutes[1].handler = "user_info"
    BY DEF LoginRoutes, Use
  <1>3. Matches(LoginRoutes[1], r)
    BY <1>1, <1>2 DEF Matches, Provider, Methods
  <1>4. CheckRequest(LoginRoutes[1], r)
    BY <1>2 DEF CheckRequest
  <1>5. /\ 1 \in DOMAIN AllRoutes /\ AllRoutes[1] = LoginRoutes[1]
        /\ \A j \in DOMAIN AllRoutes : j < 1 => ~ Matches(AllRoutes[j], r)
    BY TablesJoined
  <1> QED BY <1>2, <1>3, <1>4, <1>5, ServedByFirst

\* A registration.
LEMMA RegisterServed ==
    ASSUME NEW r, r.method = "POST", r.path = <<"provider">>, r.query = {},
           r.body \subseteq Params
    PROVE  Served(r) = "register_provider"
  <1>1. Len(r.path) = 1 /\ r.path[1] = "provider"
    OBVIOUS
  <1>2. /\ ProviderRoutes[1].methods = {"POST"} /\ ProviderRoutes[1].exact
        /\ ProviderRoutes[1].pattern = <<Provider>>
        /\ ProviderRoutes[1].query = {} /\ ProviderRoutes[1].body = Params
        /\ ProviderRoutes[1].handler = "register_provider"
    BY DEF ProviderRoutes, Route
  <1>3. Matches(ProviderRoutes[1], r)
    BY <1>1, <1>2 DEF Matches, Provider
  <1>4. CheckRequest(ProviderRoutes[1], r)
    BY <1>2 DEF CheckRequest
  <1>5. \A j \in 1..4 : ~ Matches(LoginRoutes[j], r)
    <2>1. /\ Len(LoginRoutes[1].pattern) = 5 /\ Len(LoginRoutes[2].pattern) = 5
          /\ Len(LoginRoutes[3].pattern) = 5 /\ Len(LoginRoutes[4].pattern) = 3
      BY DEF LoginRoutes, Use
    <2>2. /\ ~ Matches(LoginRoutes[1], r) /\ ~ Matches(LoginRoutes[2], r)
          /\ ~ Matches(LoginRoutes[3], r) /\ ~ Matches(LoginRoutes[4], r)
      BY <1>1, <2>1 DEF Matches
    <2> QED BY <2>2
  <1>6. \A j \in 1..14 : j < 1 => ~ Matches(ProviderRoutes[j], r)
    OBVIOUS
  <1> QED BY <1>2, <1>3, <1>4, <1>5, <1>6, ProviderServed

\* A whole status.
LEMMA ReplaceStatusServed ==
    ASSUME NEW p \in Segment, NEW v \in Segment, NEW r,
           r.method = "POST", r.path = <<"provider", p, v, "update_status">>,
           r.query = {}, r.body \subseteq {"metadata", "status"},
           p # "auth" \/ v # "callback"
    PROVE  Served(r) = "replace_status"
  <1>1. /\ Len(r.path) = 4 /\ r.path[1] = "provider" /\ r.path[2] = p
        /\ r.path[3] = v /\ r.path[4] = "update_status"
    OBVIOUS
  <1>2. /\ ProviderRoutes[6].methods = {"POST"} /\ ProviderRoutes[6].exact
        /\ ProviderRoutes[6].pattern = <<Provider, Segment, Segment, {"update_status"}>>
        /\ ProviderRoutes[6].query = {}
        /\ ProviderRoutes[6].body = {"context", "metadata", "status"}
        /\ ProviderRoutes[6].handler = "replace_status"
    BY DEF ProviderRoutes, Route
  <1>3. Matches(ProviderRoutes[6], r)
    BY <1>1, <1>2 DEF Matches, Provider
  <1>4. CheckRequest(ProviderRoutes[6], r)
    BY <1>2 DEF CheckRequest
  <1>5. ASSUME NEW j \in 1..14, Matches(ProviderRoutes[j], r)
        PROVE  j = 6 \/ j = 8 \/ j = 9 \/ j = 10 \/ j = 12
    BY <1>1, <1>5, ProviderCandidates
  <1>6. \A j \in 1..4 : ~ Matches(LoginRoutes[j], r)
    BY <1>1, NotLogin
  <1>8. \A j \in 1..14 : j < 6 => ~ Matches(ProviderRoutes[j], r)
    BY <1>5
  <1> QED BY <1>2, <1>3, <1>4, <1>6, <1>8, ProviderServed

\* A partial status.
LEMMA UpdateStatusServed ==
    ASSUME NEW p \in Segment, NEW v \in Segment, NEW r,
           r.method = "PATCH", r.path = <<"provider", p, v, "update_status">>,
           r.query = {}, r.body \subseteq {"metadata", "status"},
           p # "auth" \/ v # "callback"
    PROVE  Served(r) = "update_status"
  <1>1. /\ Len(r.path) = 4 /\ r.path[1] = "provider" /\ r.path[2] = p
        /\ r.path[3] = v /\ r.path[4] = "update_status"
    OBVIOUS
  <1>2. /\ ProviderRoutes[7].methods = {"PATCH"} /\ ProviderRoutes[7].exact
        /\ ProviderRoutes[7].pattern = <<Provider, Segment, Segment, {"update_status"}>>
        /\ ProviderRoutes[7].query = {}
        /\ ProviderRoutes[7].body = {"context", "metadata", "status"}
        /\ ProviderRoutes[7].handler = "update_status"
    BY DEF ProviderRoutes, Route
  <1>3. Matches(ProviderRoutes[7], r)
    BY <1>1, <1>2 DEF Matches, Provider
  <1>4. CheckRequest(ProviderRoutes[7], r)
    BY <1>2 DEF CheckRequest
  <1>5. ASSUME NEW j \in 1..14, Matches(ProviderRoutes[j], r) PROVE j = 7
    BY <1>1, <1>5, ProviderCandidates
  <1>6. \A j \in 1..4 : ~ Matches(LoginRoutes[j], r)
    BY <1>1, NotLogin
  <1>8. \A j \in 1..14 : j < 7 => ~ Matches(ProviderRoutes[j], r)
    BY <1>5
  <1> QED BY <1>2, <1>3, <1>4, <1>6, <1>8, ProviderServed

\* A list of keys.
LEMMA FilterKeysServed ==
    ASSUME NEW p \in Segment, NEW v \in Segment, NEW r,
           r.method = "GET", r.path = <<"provider", p, v, "s2skey">>,
           r.query = {}, r.body \subseteq Params,
           p # "auth" \/ v # "callback"
    PROVE  Served(r) = "filter_keys"
  <1>1. /\ Len(r.path) = 4 /\ r.path[1] = "provider" /\ r.path[2] = p
        /\ r.path[3] = v /\ r.path[4] = "s2skey"
    OBVIOUS
  <1>2. /\ ProviderRoutes[11].methods = {"GET"} /\ ProviderRoutes[11].exact
        /\ ProviderRoutes[11].pattern = <<Provider, Segment, Segment, {"s2skey"}>>
        /\ ProviderRoutes[11].query = {"deleted"}
        /\ ProviderRoutes[11].body = Params
        /\ ProviderRoutes[11].handler = "filter_keys"
    BY DEF ProviderRoutes, Route
  <1>3. Matches(ProviderRoutes[11], r)
    BY <1>1, <1>2 DEF Matches, Provider
  <1>4. CheckRequest(ProviderRoutes[11], r)
    BY <1>2 DEF CheckRequest
  <1>5. ASSUME NEW j \in 1..14, Matches(ProviderRoutes[j], r) PROVE j = 11
    BY <1>1, <1>5, ProviderCandidates
  <1>6. \A j \in 1..4 : ~ Matches(LoginRoutes[j], r)
    BY <1>1, NotLogin
  <1>8. \A j \in 1..14 : j < 11 => ~ Matches(ProviderRoutes[j], r)
    BY <1>5
  <1> QED BY <1>2, <1>3, <1>4, <1>6, <1>8, ProviderServed

\* A new key.
LEMMA CreateKeyServed ==
    ASSUME NEW p \in Segment, NEW v \in Segment, NEW r,
           r.method = "POST", r.path = <<"provider", p, v, "s2skey">>,
           r.query = {}, r.body \subseteq {"name", "user_info"},
           p # "auth" \/ v # "callback"
    PROVE  Served(r) = "create_key"
  <1>1. /\ Len(r.path) = 4 /\ r.path[1] = "provider" /\ r.path[2] = p
        /\ r.path[3] = v /\ r.path[4] = "s2skey"
    OBVIOUS
  <1>2. /\ ProviderRoutes[12].methods = {"POST"} /\ ProviderRoutes[12].exact
        /\ ProviderRoutes[12].pattern = <<Provider, Segment, Segment, {"s2skey"}>>
        /\ ProviderRoutes[12].query = {}
        /\ ProviderRoutes[12].body = {"user_info", "name", "owner", "key"}
        /\ ProviderRoutes[12].handler = "create_key"
    BY DEF ProviderRoutes, Route
  <1>3. Matches(ProviderRoutes[12], r)
    BY <1>1, <1>2 DEF Matches, Provider
  <1>4. CheckRequest(ProviderRoutes[12], r)
    BY <1>2 DEF CheckRequest
  <1>5. ASSUME NEW j \in 1..14, Matches(ProviderRoutes[j], r)
        PROVE  j = 6 \/ j = 8 \/ j = 9 \/ j = 10 \/ j = 12
    BY <1>1, <1>5, ProviderCandidates
  <1>6. \A j \in 1..4 : ~ Matches(LoginRoutes[j], r)
    BY <1>1, NotLogin
  <1>7. /\ ~ Matches(ProviderRoutes[6], r)
        /\ ~ Matches(ProviderRoutes[8], r)
        /\ ~ Matches(ProviderRoutes[9], r)
        /\ ~ Matches(ProviderRoutes[10], r)
    BY <1>1, FourthSegments DEF Matches
  <1>8. \A j \in 1..14 : j < 12 => ~ Matches(ProviderRoutes[j], r)
    BY <1>5, <1>7
  <1> QED BY <1>2, <1>3, <1>4, <1>6, <1>8, ProviderServed

\* The end of a key, refused for the name it gives the key.
LEMMA DeactivateRefused ==
    ASSUME NEW p \in Segment, NEW v \in Segment, NEW r,
           r.method = "PUT", r.path = <<"provider", p, v, "s2skey">>,
           r.query = {}, r.body = {"key", "active"},
           p # "auth" \/ v # "callback"
    PROVE  Served(r) = "bad_request"
  <1>1. /\ Len(r.path) = 4 /\ r.path[1] = "provider" /\ r.path[2] = p
        /\ r.path[3] = v /\ r.path[4] = "s2skey"
    OBVIOUS
  <1>2. /\ ProviderRoutes[13].methods = {"PUT"} /\ ProviderRoutes[13].exact
        /\ ProviderRoutes[13].pattern = <<Provider, Segment, Segment, {"s2skey"}>>
        /\ ProviderRoutes[13].query = {}
        /\ ProviderRoutes[13].body = {"active", "uuid"}
        /\ ProviderRoutes[13].handler = "inactivate_key"
    BY DEF ProviderRoutes, Route
  <1>3. Matches(ProviderRoutes[13], r)
    BY <1>1, <1>2 DEF Matches, Provider
  <1>4. ~ CheckRequest(ProviderRoutes[13], r)
    BY <1>2 DEF CheckRequest
  <1>5. ASSUME NEW j \in 1..14, Matches(ProviderRoutes[j], r) PROVE j = 13
    BY <1>1, <1>5, ProviderCandidates
  <1>6. \A j \in 1..4 : ~ Matches(LoginRoutes[j], r)
    BY <1>1, NotLogin
  <1>8. \A j \in 1..14 : j < 13 => ~ Matches(ProviderRoutes[j], r)
    BY <1>5
  <1> QED BY <1>2, <1>3, <1>4, <1>6, <1>8, ProviderServed

------------------------------------------------------------------------------
(* What becomes of a request: it reaches the handler it is meant for, and what *)
(* it names is found there, unless its names are reserved.                     *)

Got(r) == IF Found(Served(r), r.path) THEN Served(r) ELSE "not_found"

Arrives(r) == (Got(r) = r.want) <=> ~ Reserved(r)

\* Answers are made so.
LEMMA Answered ==
    ASSUME NEW by, NEW r
    PROVE  Answer(by, r).by = by /\ Answer(by, r).request = r /\ Answer(by, r).got = Got(r)
  BY DEF Answer, Got

\* What the handlers look up.
LEMMA Lookups ==
    ASSUME NEW path
    PROVE  /\ \A h \in {"filter_entity", "create_entity", "update_entity", "get_entity",
                        "delete_entity"} : Found(h, path) <=> KindsNamed(path[4]) # {}
           /\ Found("kind_procedure", path)
              <=> \E kind \in KindsNamed(path[4]) : Has(kind.kprocs, path[6])
           /\ Found("entity_procedure", path)
              <=> \E kind \in KindsNamed(path[4]) : Has(kind.eprocs, path[7])
           /\ Found("provider_procedure", path) <=> Has(provider.procs, path[5])
           /\ \A h \in {"check_permission", "get_intent_watcher", "filter_intent_watcher",
                        "user_info", "filter_keys", "create_key", "register_provider",
                        "update_status", "replace_status"} : Found(h, path)
  <1>1. \A h \in {"filter_entity", "create_entity", "update_entity", "get_entity",
                  "delete_entity"} : Found(h, path) <=> KindsNamed(path[4]) # {}
    BY DEF Found
  <1>2. /\ Found("kind_procedure", path)
           <=> \E kind \in KindsNamed(path[4]) : Has(kind.kprocs, path[6])
        /\ Found("entity_procedure", path)
           <=> \E kind \in KindsNamed(path[4]) : Has(kind.eprocs, path[7])
        /\ Found("provider_procedure", path) <=> Has(provider.procs, path[5])
    BY DEF Found
  <1>3. \A h \in {"check_permission", "get_intent_watcher", "filter_intent_watcher",
                  "user_info", "filter_keys", "create_key", "register_provider",
                  "update_status", "replace_status"} : Found(h, path)
    BY DEF Found
  <1> QED BY <1>1, <1>2, <1>3

\* The segments of a description.
LEMMA Segments ==
    ASSUME NEW d \in Descriptions
    PROVE  /\ d.prefix \in Segment /\ d.version \in Segment /\ Uuid \in Segment
           /\ "procedure" \in Segment
           /\ \A kind \in ToSet(d.kinds) :
                /\ kind.name \in Segment
                /\ \A proc \in ToSet(kind.kprocs) : proc.name \in Segment
                /\ \A proc \in ToSet(kind.eprocs) : proc.name \in Segment
           /\ \A proc \in ToSet(d.procs) : proc.name \in Segment
  BY SegmentsAssumption

\* A creation arrives, unless the kind is named check_permission.
LEMMA CreateArrives ==
    ASSUME provider \in Descriptions, NEW kind \in ToSet(provider.kinds), NEW r,
           r.want = "create_entity", r.method = "POST",
           r.path = <<"services", provider.prefix, provider.version, kind.name>>,
           r.query = {}, r.body \subseteq {"spec", "metadata"}
    PROVE  Arrives(r)
  <1>1. r.path[1] = "services" /\ r.path[4] = kind.name
    OBVIOUS
  <1>2. r.body \subseteq Params
    BY ParamsAssumption
  <1>3. Served(r) = IF kind.name = "check_permission" THEN "check_permission"
                    ELSE "create_entity"
    BY <1>2, Segments, CreateServed
  <1>4. Reserved(r) <=> kind.name = "check_permission"
    BY <1>1 DEF Reserved
  <1>5. Found("create_entity", r.path)
    BY <1>1, Lookups DEF KindsNamed
  <1> QED BY <1>3, <1>4, <1>5 DEF Arrives, Got

\* So do the requests on one entity.
LEMMA OneEntityArrives ==
    ASSUME provider \in Descriptions, NEW kind \in ToSet(provider.kinds), NEW r,
           <<r.want, r.method>> \in {<<"get_entity", "GET">>, <<"update_entity", "PUT">>,
                                     <<"delete_entity", "DELETE">>},
           r.path = <<"services", provider.prefix, provider.version, kind.name, Uuid>>,
           r.query = {}, r.body \subseteq {"spec", "metadata"}
    PROVE  Arrives(r)
  <1>1. r.path[1] = "services" /\ r.path[4] = kind.name
    OBVIOUS
  <1>2. r.body \subseteq Params
    BY ParamsAssumption
  <1>3. Served(r) = r.want
    <2>1. CASE r.want = "get_entity" /\ r.method = "GET"
      BY <1>2, <2>1, Segments, GetServed
    <2>2. CASE r.want = "update_entity" /\ r.method = "PUT"
      BY <2>2, Segments, UpdateServed
    <2>3. CASE r.want = "delete_entity" /\ r.method = "DELETE"
      BY <1>2, <2>3, Segments, DeleteServed
    <2> QED BY <2>1, <2>2, <2>3
  <1>4. ~ Reserved(r)
    BY <1>1 DEF Reserved
  <1>5. Found(r.want, r.path)
    BY <1>1, Lookups DEF KindsNamed
  <1> QED BY <1>3, <1>4, <1>5 DEF Arrives, Got

\* So does a filter.
LEMMA FilterArrives ==
    ASSUME provider \in Descriptions, NEW kind \in ToSet(provider.kinds), NEW r,
           r.want = "filter_entity",
           \/ /\ r.method = "POST"
              /\ r.path = <<"services", provider.prefix, provider.version, kind.name, "filter">>
              /\ r.query \subseteq {"offset", "limit", "exact", "deleted"}
              /\ r.body \subseteq {"spec", "status", "metadata"}
           \/ /\ r.method = "GET"
              /\ r.path = <<"services", provider.prefix, provider.version, kind.name>>
              /\ r.query \subseteq {"offset", "limit", "spec"}
              /\ r.body = {}
    PROVE  Arrives(r)
  <1>1. r.path[1] = "services" /\ r.path[4] = kind.name
    OBVIOUS
  <1>2. Served(r) = "filter_entity"
    <2>1. CASE /\ r.method = "POST"
               /\ r.path = <<"services", provider.prefix, provider.version, kind.name,
                             "filter">>
               /\ r.query \subseteq {"offset", "limit", "exact", "deleted"}
               /\ r.body \subseteq {"spec", "status", "metadata"}
      <3>1. /\ r.query \subseteq Paging \cup {"exact", "deleted"}
            /\ r.body \subseteq Paging \cup {"spec", "status", "metadata"}
        BY <2>1 DEF Paging
      <3> QED BY <2>1, <3>1, Segments, FilterServed
    <2>2. CASE /\ r.method = "GET"
               /\ r.path = <<"services", provider.prefix, provider.version, kind.name>>
               /\ r.query \subseteq {"offset", "limit", "spec"} /\ r.body = {}
      <3>1. /\ r.query \subseteq Paging \cup {"spec", "status", "metadata", "exact", "deleted"}
            /\ r.body \subseteq Params
        BY <2>2 DEF Paging
      <3> QED BY <2>2, <3>1, Segments, GetFilterServed
    <2> QED BY <2>1, <2>2
  <1>3. ~ Reserved(r)
    BY <1>1 DEF Reserved
  <1>4. Found(r.want, r.path)
    BY <1>1, Lookups DEF KindsNamed
  <1> QED BY <1>2, <1>3, <1>4 DEF Arrives, Got

\* So do the calls of procedures, unless one of the provider is named filter.
LEMMA KindProcedureArrives ==
    ASSUME provider \in Descriptions, NEW kind \in ToSet(provider.kinds),
           NEW proc \in ToSet(kind.kprocs), NEW r,
           r.want = "kind_procedure", r.method = "POST",
           r.path = <<"services", provider.prefix, provider.version, kind.name, "procedure",
                      proc.name>>,
           r.query = {}, r.body = {}
    PROVE  Arrives(r)
  <1>1. r.path[1] = "services" /\ r.path[4] = kind.name /\ r.path[6] = proc.name
    OBVIOUS
  <1>2. Served(r) = "kind_procedure"
    BY Segments, KindProcedureServed
  <1>3. ~ Reserved(r)
    BY <1>1 DEF Reserved
  <1>4. Found("kind_procedure", r.path)
    BY <1>1, Lookups DEF KindsNamed, Has
  <1> QED BY <1>2, <1>3, <1>4 DEF Arrives, Got

\* Of an entity.
LEMMA EntityProcedureArrives ==
    ASSUME provider \in Descriptions, NEW kind \in ToSet(provider.kinds),
           NEW proc \in ToSet(kind.eprocs), NEW r,
           r.want = "entity_procedure", r.method = "POST",
           r.path = <<"services", provider.prefix, provider.version, kind.name, Uuid,
                      "procedure", proc.name>>,
           r.query = {}, r.body = {}
    PROVE  Arrives(r)
  <1>1. r.path[1] = "services" /\ r.path[4] = kind.name /\ r.path[7] = proc.name
    OBVIOUS
  <1>2. Served(r) = "entity_procedure"
    <2>1. /\ provider.prefix \in Segment /\ provider.version \in Segment
          /\ kind.name \in Segment /\ Uuid \in Segment
          /\ proc.name \in Segment
      BY Segments
    <2>2. r.body \subseteq Params
      OBVIOUS
    <2> DEFINE p == provider.prefix
               v == provider.version
               k == kind.name
               n == proc.name
    <2>3. /\ p \in Segment /\ v \in Segment /\ k \in Segment /\ n \in Segment
          /\ r.path = <<"services", p, v, k, Uuid, "procedure", n>>
      BY <2>1
    <2> HIDE DEF p, v, k, n
    <2>4. ASSUME NEW a \in Segment, NEW b \in Segment, NEW c \in Segment, NEW u \in Segment,
                 NEW m \in Segment, r.path = <<"services", a, b, c, u, "procedure", m>>
          PROVE  Served(r) = "entity_procedure"
      BY <2>2, <2>4, EntityProcedureServed
    <2> QED BY <2>1, <2>3, <2>4, Zenon
  <1>3. ~ Reserved(r)
    BY <1>1 DEF Reserved
  <1>4. Found("entity_procedure", r.path)
    BY <1>1, Lookups DEF KindsNamed, Has
  <1> QED BY <1>2, <1>3, <1>4 DEF Arrives, Got

\* Of a provider: a call of filter is taken for a filter of the kind procedure.
LEMMA ProviderProcedureArrives ==
    ASSUME provider \in Descriptions, NEW proc \in ToSet(provider.procs), NEW r,
           r.want = "provider_procedure", r.method = "POST",
           r.path = <<"services", provider.prefix, provider.version, "procedure", proc.name>>,
           r.query = {}, r.body = {}
    PROVE  Arrives(r)
  <1>1. r.path[1] = "services" /\ r.path[5] = proc.name
    OBVIOUS
  <1>2. Reserved(r) <=> proc.name = "filter"
    BY <1>1 DEF Reserved
  <1>3. CASE proc.name = "filter"
    <2>1. r.path = <<"services", provider.prefix, provider.version, "procedure", "filter">>
      BY <1>3
    <2>2. Served(r) = "filter_entity"
      BY <2>1, Segments, FilterServed
    <2> QED BY <1>2, <1>3, <2>2 DEF Arrives, Got
  <1>4. CASE proc.name # "filter"
    <2>1. Served(r) = "provider_procedure"
      BY <1>4, Segments, ProviderProcedureServed
    <2>2. Found("provider_procedure", r.path)
      BY <1>1, Lookups DEF Has
    <2> QED BY <1>2, <1>4, <2>1, <2>2 DEF Arrives, Got
  <1> QED BY <1>3, <1>4

\* So do the requests on providers, but for the prefix auth with the version callback;
\* and the deactivation of a key arrives nowhere.
LEMMA ProviderArrives ==
    ASSUME NEW p \in Segment, NEW v \in Segment, NEW r,
           r = DeactivateKey(p, v) \/ r \in SdkClient(p, v)
    PROVE  (Got(r) = r.want) <=> ~ Reserved(r) /\ r.want # "inactivate_key"
  <1>1. CASE r = Request("user_info", "GET", <<"provider", p, v, "auth", "user_info">>, {}, {})
    <2>1. /\ r.want = "user_info" /\ r.method = "GET" /\ r.query = {} /\ r.body = {}
          /\ r.path = <<"provider", p, v, "auth", "user_info">>
      BY <1>1 DEF Request
    <2>2. Served(r) = "user_info"
      BY <2>1, UserInfoServed
    <2>3. ~ Reserved(r)
      BY <2>1 DEF Reserved
    <2> QED BY <2>1, <2>2, <2>3, Lookups DEF Got
  <1>2. CASE r = Request("register_provider", "POST", <<"provider">>, {}, {"kinds", "prefix"})
    <2>1. /\ r.want = "register_provider" /\ r.method = "POST" /\ r.query = {}
          /\ r.body \subseteq Params /\ r.path = <<"provider">>
      BY <1>2, ParamsAssumption DEF Request
    <2>2. Served(r) = "register_provider"
      BY <2>1, RegisterServed
    <2>3. ~ Reserved(r)
      BY <2>1 DEF Reserved
    <2> QED BY <2>1, <2>2, <2>3, Lookups DEF Got
  <1>3. CASE r = Request("check_permission", "POST",
                         <<"services", p, v, "check_permission">>, {}, {})
    <2>1. /\ r.want = "check_permission" /\ r.method = "POST" /\ r.query = {}
          /\ r.body \subseteq Params
          /\ r.path = <<"services", p, v, "check_permission">>
      BY <1>3 DEF Request
    <2>2. Served(r) = "check_permission"
      BY <2>1, CheckServed
    <2>3. ~ Reserved(r)
      BY <2>1 DEF Reserved
    <2> QED BY <2>1, <2>2, <2>3, Lookups DEF Got
  <1>4. ASSUME \/ r = DeactivateKey(p, v)
               \/ r = Request("filter_keys", "GET", <<"provider", p, v, "s2skey">>, {}, {})
               \/ r = Request("create_key", "POST", <<"provider", p, v, "s2skey">>, {},
                              {"name", "user_info"})
               \/ r = Request("update_status", "PATCH", <<"provider", p, v, "update_status">>,
                              {}, {"metadata", "status"})
               \/ r = Request("replace_status", "POST", <<"provider", p, v, "update_status">>,
                              {}, {"metadata", "status"})
        PROVE  (Got(r) = r.want) <=> ~ Reserved(r) /\ r.want # "inactivate_key"
    <2>1. /\ r.want \in {"inactivate_key", "filter_keys", "create_key", "update_status",
                         "replace_status"}
          /\ r.method \in Methods
          /\ Len(r.path) = 4 /\ r.path[1] = "provider" /\ r.path[2] = p /\ r.path[3] = v
      BY <1>4 DEF Request, DeactivateKey, Methods
    <2>2. Reserved(r) <=> p = "auth" /\ v = "callback"
      BY <2>1 DEF Reserved
    <2>3. CASE p = "auth" /\ v = "callback"
      <3>1. Served(r) \in {"callback", "bad_request"}
        BY <2>1, <2>3, Shadowed
      <3> QED BY <2>1, <2>2, <2>3, <3>1 DEF Got
    <2>4. CASE p # "auth" \/ v # "callback"
      <3>1. CASE r = DeactivateKey(p, v)
        <4>1. /\ r.want = "inactivate_key" /\ r.method = "PUT" /\ r.query = {}
              /\ r.body = {"key", "active"}
              /\ r.path = <<"provider", p, v, "s2skey">>
          BY <3>1 DEF Request, DeactivateKey
        <4>2. Served(r) = "bad_request"
          BY <2>4, <4>1, DeactivateRefused
        <4> QED BY <4>1, <4>2 DEF Got
      <3>2. CASE r = Request("filter_keys", "GET", <<"provider", p, v, "s2skey">>, {}, {})
        <4>1. /\ r.want = "filter_keys" /\ r.method = "GET" /\ r.query = {}
              /\ r.body \subseteq Params
              /\ r.path = <<"provider", p, v, "s2skey">>
          BY <3>2 DEF Request
        <4>2. Served(r) = "filter_keys"
          BY <2>4, <4>1, FilterKeysServed
        <4> QED BY <2>2, <2>4, <4>1, <4>2, Lookups DEF Got
      <3>3. CASE r = Request("create_key", "POST", <<"provider", p, v, "s2skey">>, {},
                             {"name", "user_info"})
        <4>1. /\ r.want = "create_key" /\ r.method = "POST" /\ r.query = {}
              /\ r.body \subseteq {"name", "user_info"}
              /\ r.path = <<"provider", p, v, "s2skey">>
          BY <3>3 DEF Request
        <4>2. Served(r) = "create_key"
          BY <2>4, <4>1, CreateKeyServed
        <4> QED BY <2>2, <2>4, <4>1, <4>2, Lookups DEF Got
      <3>4. CASE r = Request("update_status", "PATCH", <<"provider", p, v, "update_status">>,
                             {}, {"metadata", "status"})
        <4>1. /\ r.want = "update_status" /\ r.method = "PATCH" /\ r.query = {}
              /\ r.body \subseteq {"metadata", "status"}
              /\ r.path = <<"provider", p, v, "update_status">>
          BY <3>4 DEF Request
        <4>2. Served(r) = "update_status"
          BY <2>4, <4>1, UpdateStatusServed
        <4> QED BY <2>2, <2>4, <4>1, <4>2, Lookups DEF Got
      <3>5. CASE r = Request("replace_status", "POST", <<"provider", p, v, "update_status">>,
                             {}, {"metadata", "status"})
        <4>1. /\ r.want = "replace_status" /\ r.method = "POST" /\ r.query = {}
              /\ r.body \subseteq {"metadata", "status"}
              /\ r.path = <<"provider", p, v, "update_status">>
          BY <3>5 DEF Request
        <4>2. Served(r) = "replace_status"
          BY <2>4, <4>1, ReplaceStatusServed
        <4> QED BY <2>2, <2>4, <4>1, <4>2, Lookups DEF Got
      <3> QED BY <1>4, <3>1, <3>2, <3>3, <3>4, <3>5
    <2> QED BY <2>3, <2>4
  <1> QED BY <1>1, <1>2, <1>3, <1>4 DEF SdkClient

\* And the requests on watchers.
LEMMA WatchersArrive ==
    ASSUME NEW r \in WatcherClient(Uuid)
    PROVE  (Got(r) = r.want) <=> ~ Reserved(r) /\ r.want # "inactivate_key"
  <1>1. CASE r = Request("get_intent_watcher", "GET", <<"services", "intent_watcher", Uuid>>,
                         {}, {})
    <2>1. /\ r.want = "get_intent_watcher" /\ r.method = "GET" /\ r.query = {}
          /\ r.body \subseteq Params
          /\ r.path = <<"services", "intent_watcher", Uuid>>
      BY <1>1 DEF Request
    <2>2. Served(r) = "get_intent_watcher"
      BY <2>1, SegmentsAssumption, WatcherServed
    <2>3. ~ Reserved(r)
      BY <2>1 DEF Reserved
    <2> QED BY <2>1, <2>2, <2>3, Lookups DEF Got
  <1>2. CASE r = Request("filter_intent_watcher", "POST",
                         <<"services", "intent_watcher", "filter">>, {}, {"entity_ref"})
    <2>1. /\ r.want = "filter_intent_watcher" /\ r.method = "POST" /\ r.query = {}
          /\ r.body \subseteq {"entity_ref", "created_at", "status"}
          /\ r.path = <<"services", "intent_watcher", "filter">>
      BY <1>2 DEF Request
    <2>2. Served(r) = "filter_intent_watcher"
      BY <2>1, WatcherFilterServed
    <2>3. ~ Reserved(r)
      BY <2>1 DEF Reserved
    <2> QED BY <2>1, <2>2, <2>3, Lookups DEF Got
  <1> QED BY <1>1, <1>2 DEF WatcherClient

\* The requests of the clients arrive, for every provider.
LEMMA ClientArrives ==
    ASSUME provider \in Descriptions, NEW r \in Clients(provider)
    PROVE  (Got(r) = r.want) <=> ~ Reserved(r) /\ r.want # "inactivate_key"
  <1>1. CASE r \in WatcherClient(Uuid)
    BY <1>1, WatchersArrive
  <1>2. CASE \/ r \in SdkClient(provider.prefix, provider.version)
             \/ r = DeactivateKey(provider.prefix, provider.version)
    BY <1>2, Segments, ProviderArrives
  <1>3. CASE \E kind \in ToSet(provider.kinds) :
                 r \in EntityClient(provider.prefix, provider.version, kind.name, Uuid)
    <2>1. PICK kind \in ToSet(provider.kinds) :
              r \in EntityClient(provider.prefix, provider.version, kind.name, Uuid)
      BY <1>3
    <2> DEFINE p == provider.prefix
               v == provider.version
               k == kind.name
    <2>2. Arrives(r) /\ r.want # "inactivate_key"
      <3>1. CASE r = Request("create_entity", "POST", <<"services", p, v, k>>, {},
                             {"spec", "metadata"})
        <4>1. /\ r.want = "create_entity" /\ r.method = "POST"
              /\ r.path = <<"services", p, v, k>>
              /\ r.query = {} /\ r.body \subseteq {"spec", "metadata"}
          BY <3>1 DEF Request
        <4> QED BY <4>1, CreateArrives
      <3>2. CASE \/ r = Request("update_entity", "PUT", Entity(p, v, k, Uuid), {},
                                {"spec", "metadata"})
                 \/ r = Request("get_entity", "GET", Entity(p, v, k, Uuid), {}, {})
                 \/ r = Request("delete_entity", "DELETE", Entity(p, v, k, Uuid), {}, {})
        <4>1. /\ <<r.want, r.method>> \in {<<"get_entity", "GET">>, <<"update_entity", "PUT">>,
                                           <<"delete_entity", "DELETE">>}
              /\ r.path = <<"services", p, v, k, Uuid>> /\ r.query = {}
              /\ r.body \subseteq {"spec", "metadata"}
          BY <3>2 DEF Request, Entity
        <4> QED BY <4>1, OneEntityArrives
      <3>3. CASE \/ r = Request("filter_entity", "POST", Entity(p, v, k, "filter"),
                                {"exact", "deleted"}, {"spec", "status", "metadata"})
                 \/ r = Request("filter_entity", "POST", Entity(p, v, k, "filter"),
                                {"limit", "offset"}, {"spec"})
        <4>1. /\ r.want = "filter_entity" /\ r.method = "POST"
              /\ r.path = <<"services", p, v, k, "filter">>
              /\ r.query \subseteq {"offset", "limit", "exact", "deleted"}
              /\ r.body \subseteq {"spec", "status", "metadata"}
          BY <3>3 DEF Request, Entity
        <4> QED BY <4>1, FilterArrives
      <3> QED BY <2>1, <3>1, <3>2, <3>3 DEF EntityClient
    <2> QED BY <2>2 DEF Arrives
  <1>4. ASSUME NEW kind \in ToSet(provider.kinds), r \in ProcedureClient(provider, kind)
        PROVE  Arrives(r) /\ r.want # "inactivate_key"
    <2> DEFINE p == provider.prefix
               v == provider.version
               k == kind.name
    <2>1. ASSUME NEW proc \in ToSet(kind.eprocs), r = InvokeEntityProcedure(p, v, k, Uuid, proc.name)
          PROVE  Arrives(r) /\ r.want # "inactivate_key"
      <3>1. /\ r.want = "entity_procedure" /\ r.method = "POST" /\ r.query = {} /\ r.body = {}
            /\ r.path = <<"services", p, v, k, Uuid, "procedure", proc.name>>
        BY <2>1 DEF InvokeEntityProcedure, Request
      <3> QED BY <3>1, EntityProcedureArrives
    <2>2. ASSUME NEW proc \in ToSet(kind.kprocs), r = InvokeKindProcedure(p, v, k, proc.name)
          PROVE  Arrives(r) /\ r.want # "inactivate_key"
      <3>1. /\ r.want = "kind_procedure" /\ r.method = "POST" /\ r.query = {} /\ r.body = {}
            /\ r.path = <<"services", p, v, k, "procedure", proc.name>>
        BY <2>2 DEF InvokeKindProcedure, Request
      <3> QED BY <3>1, KindProcedureArrives
    <2> QED BY <1>4, <2>1, <2>2 DEF ProcedureClient
  <1>5. ASSUME NEW proc \in ToSet(provider.procs),
               r = InvokeProviderProcedure(provider.prefix, provider.version, proc.name)
        PROVE  Arrives(r) /\ r.want # "inactivate_key"
    <2>1. /\ r.want = "provider_procedure" /\ r.method = "POST" /\ r.query = {} /\ r.body = {}
          /\ r.path = <<"services", provider.prefix, provider.version, "procedure", proc.name>>
      BY <1>5 DEF InvokeProviderProcedure, Request
    <2> QED BY <2>1, ProviderProcedureArrives
  <1>6. \/ r \in WatcherClient(Uuid)
        \/ r \in SdkClient(provider.prefix, provider.version)
        \/ r = DeactivateKey(provider.prefix, provider.version)
        \/ \E kind \in ToSet(provider.kinds) :
               r \in EntityClient(provider.prefix, provider.version, kind.name, Uuid)
                     \cup ProcedureClient(provider, kind)
        \/ \E proc \in ToSet(provider.procs) :
               r = InvokeProviderProcedure(provider.prefix, provider.version, proc.name)
    <2> DEFINE Requested(kind) ==
                  EntityClient(provider.prefix, provider.version, kind.name, Uuid)
                  \cup ProcedureClient(provider, kind)
               perKind == {Requested(kind) : kind \in ToSet(provider.kinds)}
               perProc == {InvokeProviderProcedure(provider.prefix, provider.version, proc.name) :
                               proc \in ToSet(provider.procs)}
    <2>1. r \in UNION perKind => \E requests \in perKind : r \in requests
      OBVIOUS
    <2>2. \A requests \in perKind : \E kind \in ToSet(provider.kinds) : requests = Requested(kind)
      OBVIOUS
    <2>3. r \in perProc => \E proc \in ToSet(provider.procs) :
              r = InvokeProviderProcedure(provider.prefix, provider.version, proc.name)
      OBVIOUS
    <2>4. \/ r \in WatcherClient(Uuid)
          \/ r \in SdkClient(provider.prefix, provider.version)
          \/ r = DeactivateKey(provider.prefix, provider.version)
          \/ r \in UNION perKind
          \/ r \in perProc
      BY Zenon DEF Clients
    <2> HIDE DEF perKind, perProc
    <2> QED BY <2>1, <2>2, <2>3, <2>4
  <1> QED BY <1>1, <1>2, <1>3, <1>4, <1>5, <1>6 DEF Arrives

\* So do the requests that the documentation of the provider describes.
LEMMA DocumentedArrives ==
    ASSUME provider \in Descriptions, NEW op \in Ops(provider)
    PROVE  Arrives(op.request)
  <1> DEFINE r == op.request
             p == provider.prefix
             v == provider.version
  <1>1. ASSUME NEW proc \in ToSet(provider.procs), op = CallProviderProcedure(provider, proc)
        PROVE  Arrives(r)
    <2>1. /\ r.want = "provider_procedure" /\ r.method = "POST" /\ r.query = {} /\ r.body = {}
          /\ r.path = <<"services", p, v, "procedure", proc.name>>
      BY <1>1 DEF CallProviderProcedure, Op, Request
    <2> HIDE DEF r
    <2> QED BY <2>1, ProviderProcedureArrives
  <1>2. ASSUME NEW kind \in ToSet(provider.kinds), op \in KindOps(provider, kind)
        PROVE  Arrives(r)
    <2> DEFINE k == kind.name
    <2>0. /\ \A x : Services4(provider, kind) \o <<x>> = <<"services", p, v, k, x>>
          /\ \A x, y : Services4(provider, kind) \o <<x, y>> = <<"services", p, v, k, x, y>>
          /\ \A x, y, z : Services4(provider, kind) \o <<x, y, z>>
                         = <<"services", p, v, k, x, y, z>>
          /\ Services4(provider, kind) = <<"services", p, v, k>>
      <3>1. Services4(provider, kind) = <<"services", p, v, k>>
        BY DEF Services4
      <3>2. /\ \A x : <<"services", p, v, k>> \o <<x>> = <<"services", p, v, k, x>>
            /\ \A x, y : <<"services", p, v, k>> \o <<x, y>> = <<"services", p, v, k, x, y>>
            /\ \A x, y, z : <<"services", p, v, k>> \o <<x, y, z>>
                           = <<"services", p, v, k, x, y, z>>
        <4>1. ASSUME NEW x, NEW y, NEW z
              PROVE  /\ <<"services", p, v, k>> \o <<x>> = <<"services", p, v, k, x>>
                     /\ <<"services", p, v, k>> \o <<x, y>> = <<"services", p, v, k, x, y>>
                     /\ <<"services", p, v, k>> \o <<x, y, z>>
                        = <<"services", p, v, k, x, y, z>>
          <5> HIDE DEF p, v, k
          <5> QED BY LongerPath
        <4> QED BY <4>1, Zenon
      <3> QED BY <3>1, <3>2, Zenon
    <2>1. CASE op = GetKind(provider, kind)
      <3>1. /\ r.want = "filter_entity" /\ r.method = "GET"
            /\ r.query \subseteq {"offset", "limit", "spec"}
            /\ r.body = {} /\ r.path = <<"services", p, v, k>>
        BY <2>0, <2>1 DEF GetKind, Op, Request
      <3> HIDE DEF r
      <3> QED BY <3>1, FilterArrives
    <2>2. CASE op = PostKindFilter(provider, kind)
      <3>1. /\ r.want = "filter_entity" /\ r.method = "POST"
            /\ r.query \subseteq {"offset", "limit", "exact", "deleted"}
            /\ r.body \subseteq {"spec", "status", "metadata"}
            /\ r.path = <<"services", p, v, k, "filter">>
        BY <2>0, <2>2 DEF PostKindFilter, Op, Request
      <3> HIDE DEF r
      <3> QED BY <3>1, FilterArrives
    <2>3. CASE \/ op = GetKindEntity(provider, kind) \/ op = DeleteKindEntity(provider, kind)
               \/ op = PutKindEntity(provider, kind)
      <3>1. /\ <<r.want, r.method>> \in {<<"get_entity", "GET">>, <<"update_entity", "PUT">>,
                                         <<"delete_entity", "DELETE">>}
            /\ r.query = {} /\ r.body \subseteq {"spec", "metadata"}
        BY <2>3 DEF GetKindEntity, DeleteKindEntity, PutKindEntity, Op, Request
      <3>2. r.path = <<"services", p, v, k, Uuid>>
        BY <2>0, <2>3 DEF GetKindEntity, DeleteKindEntity, PutKindEntity, Op, Request
      <3> HIDE DEF r
      <3> QED BY <3>1, <3>2, OneEntityArrives
    <2>4. CASE \/ op = PostKind(provider, kind)
               \/ \E proc \in Constructors(kind) :
                      op = CallConstructorProcedure(provider, kind, proc)
      <3>1. /\ r.want = "create_entity" /\ r.method = "POST" /\ r.query = {}
            /\ r.body \subseteq {"spec", "metadata"} /\ r.path = <<"services", p, v, k>>
        BY <2>0, <2>4 DEF PostKind, CallConstructorProcedure, Op, Request
      <3> HIDE DEF r
      <3> QED BY <3>1, CreateArrives
    <2>5. ASSUME NEW proc \in ToSet(kind.kprocs), op = CallKindProcedure(provider, kind, proc)
          PROVE  Arrives(r)
      <3>1. /\ r.want = "kind_procedure" /\ r.method = "POST" /\ r.query = {} /\ r.body = {}
            /\ r.path = <<"services", p, v, k, "procedure", proc.name>>
        BY <2>0, <2>5 DEF CallKindProcedure, Op, Request
      <3> HIDE DEF r
      <3> QED BY <3>1, KindProcedureArrives
    <2>6. ASSUME NEW proc \in ToSet(kind.eprocs), op = CallEntityProcedure(provider, kind, proc)
          PROVE  Arrives(r)
      <3>1. /\ r.want = "entity_procedure" /\ r.method = "POST" /\ r.query = {} /\ r.body = {}
            /\ r.path = <<"services", p, v, k, Uuid, "procedure", proc.name>>
        BY <2>0, <2>6 DEF CallEntityProcedure, Op, Request
      <3> HIDE DEF r
      <3> QED BY <3>1, EntityProcedureArrives
    <2> QED BY <1>2, <2>1, <2>2, <2>3, <2>4, <2>5, <2>6 DEF KindOps
  <1>3. \/ \E kind \in ToSet(provider.kinds) : op \in KindOps(provider, kind)
        \/ \E proc \in ToSet(provider.procs) : op = CallProviderProcedure(provider, proc)
    <2> DEFINE perKind == {KindOps(provider, kind) : kind \in ToSet(provider.kinds)}
    <2>1. op \in UNION perKind => \E ops \in perKind : op \in ops
      OBVIOUS
    <2>2. \A ops \in perKind : \E kind \in ToSet(provider.kinds) : ops = KindOps(provider, kind)
      OBVIOUS
    <2>3. \/ op \in UNION perKind
          \/ op \in {CallProviderProcedure(provider, proc) : proc \in ToSet(provider.procs)}
      BY Zenon DEF Ops
    <2> HIDE DEF perKind
    <2> QED BY <2>1, <2>2, <2>3
  <1> QED BY <1>1, <1>2, <1>3

------------------------------------------------------------------------------
(* The schemas of a documentation.  They are lists of lists, of as many kinds   *)
(* and procedures as a provider has; what counts is which entries they hold,    *)
(* and that the last of a name is found.                                        *)

\* Induction over the places of a list.
LEMMA IndexInduction ==
    ASSUME NEW n \in Nat, NEW G \in SUBSET (1..n),
           \A i \in 1..n : (i # 1 => i - 1 \in G) => i \in G
    PROVE  G = 1..n
  <1> DEFINE missing == (1..n) \ G
  <1>1. SUFFICES ASSUME missing # {} PROVE FALSE
    OBVIOUS
  <1>2. missing \in SUBSET Nat
    OBVIOUS
  <1>3. PICK m \in missing : \A k \in missing : m <= k
    <2> HIDE DEF missing
    <2> QED BY <1>1, <1>2, SmallestOf
  <1>4. m # 1 => m - 1 \in G
    BY <1>3
  <1> QED BY <1>3, <1>4

\* What lists of lists hold when they are made one.
LEMMA Flattened ==
    ASSUME NEW E, NEW ss \in Seq(Seq(E))
    PROVE  /\ FlattenSeq(ss) \in Seq(E)
           /\ ToSet(FlattenSeq(ss)) = UNION {ToSet(ss[j]) : j \in DOMAIN ss}
  <1>1. CASE Len(ss) = 0
    <2>1. ss \in Seq(E) /\ DOMAIN ss = {}
      BY <1>1
    <2>2. FlattenSeq(ss) = ss
      BY <1>1 DEF FlattenSeq
    <2> QED BY <2>1, <2>2 DEF ToSet
  <1>2. CASE Len(ss) # 0
    <2> DEFINE S == 1..Len(ss)
               T == Seq(E)
               At(g, i) == IF i = 1 THEN ss[i] ELSE g[i - 1] \o ss[i]
               Step(g) == [i \in S |-> At(g, i)]
               D == [g \in [S -> T] |-> Step(g)]
               rank == [i \in S |-> i]
    <2>1. /\ Len(ss) \in Nat /\ 1 \in S /\ Len(ss) \in S /\ DOMAIN ss = S
          /\ \A i \in S : ss[i] \in T /\ i \in Nat /\ (i # 1 => i - 1 \in S)
      BY <1>2
    <2>2. rank \in [S -> Nat] /\ \A i \in S : rank[i] = i
      BY <2>1
    <2>3. \A a, b \in T : a \o b \in T /\ ToSet(a \o b) = ToSet(a) \cup ToSet(b)
      BY JoinedHolds
    <2>4. ASSUME NEW g \in [S -> T], NEW i \in S PROVE At(g, i) \in T
      <3> HIDE DEF S, T
      <3> QED BY <2>1, <2>3
    <2>5. D \in [[S -> T] -> [S -> T]]
      <3> HIDE DEF At, S, T
      <3> QED BY <2>4
    <2>6. Contracts(D, S, T, rank)
      <3>1. ASSUME NEW g \in [S -> T], NEW h \in [S -> T], NEW i \in S,
                   \A j \in S : rank[j] < rank[i] => g[j] = h[j]
            PROVE  D[g][i] = D[h][i]
        <4>1. D[g][i] = At(g, i) /\ D[h][i] = At(h, i)
          <5> HIDE DEF At, S, T
          <5> QED OBVIOUS
        <4>2. i # 1 => i - 1 \in S /\ rank[i - 1] < rank[i]
          BY <2>1, <2>2
        <4>3. i # 1 => g[i - 1] = h[i - 1]
          <5> HIDE DEF S, T, rank
          <5> QED BY <3>1, <4>2
        <4>4. At(g, i) = At(h, i)
          BY <4>3
        <4> HIDE DEF At, D
        <4> QED BY <4>1, <4>4
      <3> HIDE DEF D, S, T, rank
      <3> QED BY <2>2, <2>5, <3>1 DEF Contracts
    <2>7. PICK h \in [S -> T] : h = D[h]
      <3>1. T # {}
        <4>1. ss[1] \in T
          BY <2>1
        <4> QED BY <4>1
      <3> HIDE DEF D, S, T, rank
      <3> QED BY <2>6, <3>1, SolutionExists
    <2>8. h = Step(h)
      <3> HIDE DEF Step, S, T
      <3> QED BY <2>7
    <2> DEFINE f == CHOOSE g : g = Step(g)
    <2>9. f = Step(f)
      <3> HIDE DEF Step
      <3> QED BY <2>8
    <2>10. FlattenSeq(ss) = f[Len(ss)]
      BY <1>2 DEF FlattenSeq
    <2> HIDE DEF f
    <2>11. \A i \in S : f[i] = At(f, i)
      <3> HIDE DEF At, S
      <3> QED BY <2>9
    <2> DEFINE Holds(i) == /\ f[i] \in T
                           /\ ToSet(f[i]) = UNION {ToSet(ss[j]) : j \in 1..i}
               G == {i \in S : Holds(i)}
    <2>12. ASSUME NEW i \in S, i # 1 => Holds(i - 1) PROVE Holds(i)
      <3>1. CASE i = 1
        <4>1. f[i] = ss[1] /\ ss[1] \in T
          BY <2>1, <2>11, <3>1
        <4>2. 1..i = {1}
          BY <3>1
        <4> QED BY <4>1, <4>2
      <3>2. CASE i # 1
        <4>1. f[i] = f[i - 1] \o ss[i] /\ ss[i] \in T /\ f[i - 1] \in T
          BY <2>1, <2>11, <2>12, <3>2
        <4>2. f[i] \in T /\ ToSet(f[i]) = ToSet(f[i - 1]) \cup ToSet(ss[i])
          <5> HIDE DEF T
          <5> QED BY <2>3, <4>1
        <4>3. 1..i = (1..(i - 1)) \cup {i}
          BY <2>1, <3>2
        <4>4. UNION {ToSet(ss[j]) : j \in 1..i}
              = (UNION {ToSet(ss[j]) : j \in 1..(i - 1)}) \cup ToSet(ss[i])
          <5>1. \A x : (\E j \in 1..i : x \in ToSet(ss[j]))
                       <=> (\E j \in 1..(i - 1) : x \in ToSet(ss[j])) \/ x \in ToSet(ss[i])
            BY <4>3
          <5> QED BY <5>1
        <4> HIDE DEF T
        <4> QED BY <2>12, <3>2, <4>2, <4>4
      <3> QED BY <3>1, <3>2
    <2>13. G = S
      <3>1. ASSUME NEW i \in S, i # 1 => i - 1 \in G PROVE i \in G
        <4>1. i # 1 => Holds(i - 1)
          BY <3>1
        <4> HIDE DEF Holds
        <4> QED BY <2>12, <4>1
      <3>2. G \in SUBSET (1..Len(ss))
        OBVIOUS
      <3> HIDE DEF G
      <3> QED BY <2>1, <3>1, <3>2, IndexInduction
    <2>14. Holds(Len(ss))
      <3> HIDE DEF Holds, S
      <3> QED BY <2>1, <2>13
    <2> QED BY <2>1, <2>10, <2>14
  <1> QED BY <1>1, <1>2

\* The lists of every member of a list, made one.
LEMMA FlattenedMap ==
    ASSUME NEW E, NEW s, NEW f, NEW ss, ss \in Seq(Seq(E)), DOMAIN ss = DOMAIN s,
           \A i \in DOMAIN s : ss[i] = f[s[i]]
    PROVE  /\ FlattenSeq(ss) \in Seq(E)
           /\ \A e : e \in ToSet(FlattenSeq(ss)) <=> \E x \in ToSet(s) : e \in ToSet(f[x])
  <1>1. /\ FlattenSeq(ss) \in Seq(E)
        /\ ToSet(FlattenSeq(ss)) = UNION {ToSet(ss[i]) : i \in DOMAIN ss}
    BY Flattened
  <1>2. \A e : e \in UNION {ToSet(ss[i]) : i \in DOMAIN ss} <=> \E i \in DOMAIN s : e \in ToSet(ss[i])
    OBVIOUS
  <1>3. \A i \in DOMAIN s : s[i] \in ToSet(s)
    BY DEF ToSet
  <1>4. ASSUME NEW e PROVE (\E i \in DOMAIN s : e \in ToSet(ss[i]))
                           <=> (\E x \in ToSet(s) : e \in ToSet(f[x]))
    <2>1. ASSUME NEW x \in ToSet(s), e \in ToSet(f[x])
          PROVE  \E i \in DOMAIN s : e \in ToSet(ss[i])
      <3>1. PICK i \in DOMAIN s : s[i] = x
        BY DEF ToSet
      <3> QED BY <2>1, <3>1
    <2>2. ASSUME NEW i \in DOMAIN s, e \in ToSet(ss[i])
          PROVE  \E x \in ToSet(s) : e \in ToSet(f[x])
      BY <1>3, <2>2
    <2> QED BY <2>1, <2>2
  <1> QED BY <1>1, <1>2, <1>4

\* The entries of a procedure, of a kind and of a description
EntriesOf(base, whose, proc) ==
    {Entry(Input(base, proc), <<"argument", whose>>), Entry(Output(base, proc), <<"result", whose>>)}

StructureEntries(kind) ==
    {Entry(<<<<kind.key>>, piece>>, <<piece, kind.key>>) : piece \in {"Spec", "Status", "Metadata"}}
    \cup {Entry(OneWord(kind.key), <<"structure", kind.key>>)}

KindEntries(d, kind) ==
    (UNION {EntriesOf(KindBase(d, kind, proc), OfProcedure("kind", kind, proc), proc) :
                proc \in ToSet(kind.kprocs)})
    \cup (UNION {EntriesOf(KindBase(d, kind, proc), OfProcedure("entity", kind, proc), proc) :
                     proc \in ToSet(kind.eprocs)})
    \cup StructureEntries(kind)

FirstEntries == {Entry(OneWord(word), <<word>>) : word \in {"Error", "Metadata", "Nothing"}}

Entries(d) ==
    FirstEntries
    \cup (UNION {KindEntries(d, kind) : kind \in ToSet(d.kinds)})
    \cup (UNION {EntriesOf(ProviderBase(d, proc), OfProvider(proc), proc) : proc \in ToSet(d.procs)})

\* A list of two holds these two.
LEMMA SchemasOfProcedure ==
    ASSUME NEW base, NEW whose, NEW proc, NEW E, EntriesOf(base, whose, proc) \subseteq E
    PROVE  /\ ProcedureSchemas(base, whose, proc) \in Seq(E)
           /\ ToSet(ProcedureSchemas(base, whose, proc)) = EntriesOf(base, whose, proc)
  <1> DEFINE a == Entry(Input(base, proc), <<"argument", whose>>)
             b == Entry(Output(base, proc), <<"result", whose>>)
  <1>1. ProcedureSchemas(base, whose, proc) = <<a, b>> /\ EntriesOf(base, whose, proc) = {a, b}
    BY DEF ProcedureSchemas, EntriesOf
  <1> HIDE DEF a, b
  <1>2. <<a, b>> \in Seq(E) /\ ToSet(<<a, b>>) = {a, b}
    BY <1>1 DEF ToSet
  <1> QED BY <1>1, <1>2

\* The list of a structure, likewise.
LEMMA SchemasOfStructure ==
    ASSUME NEW kind, NEW E, StructureEntries(kind) \subseteq E
    PROVE  StructureSchemas(kind) \in Seq(E) /\ ToSet(StructureSchemas(kind)) = StructureEntries(kind)
  <1> DEFINE a == Entry(<<<<kind.key>>, "Spec">>, <<"Spec", kind.key>>)
             b == Entry(<<<<kind.key>>, "Status">>, <<"Status", kind.key>>)
             c == Entry(OneWord(kind.key), <<"structure", kind.key>>)
             d == Entry(<<<<kind.key>>, "Metadata">>, <<"Metadata", kind.key>>)
  <1>1. StructureSchemas(kind) = <<a, b, c, d>> /\ StructureEntries(kind) = {a, b, c, d}
    BY DEF StructureSchemas, StructureEntries
  <1> HIDE DEF a, b, c, d
  <1>2. <<a, b, c, d>> \in Seq(E) /\ ToSet(<<a, b, c, d>>) = {a, b, c, d}
    BY <1>1 DEF ToSet
  <1> QED BY <1>1, <1>2

\* The first three, likewise.
LEMMA SchemasOfAll ==
    ASSUME NEW E, FirstEntries \subseteq E
    PROVE  FirstSchemas \in Seq(E) /\ ToSet(FirstSchemas) = FirstEntries
  <1> DEFINE a == Entry(OneWord("Error"), <<"Error">>)
             b == Entry(OneWord("Metadata"), <<"Metadata">>)
             c == Entry(OneWord("Nothing"), <<"Nothing">>)
  <1>1. FirstSchemas = <<a, b, c>> /\ FirstEntries = {a, b, c}
    BY DEF FirstSchemas, FirstEntries
  <1> HIDE DEF a, b, c
  <1>2. <<a, b, c>> \in Seq(E) /\ ToSet(<<a, b, c>>) = {a, b, c}
    BY <1>1 DEF ToSet
  <1> QED BY <1>1, <1>2

\* The schemas of a kind.
LEMMA SchemasOfKind ==
    ASSUME NEW d, NEW kind, kind.kprocs \in Seq(ToSet(kind.kprocs)),
           kind.eprocs \in Seq(ToSet(kind.eprocs)), NEW E, KindEntries(d, kind) \subseteq E
    PROVE  /\ KindSchemas(d, kind) \in Seq(E)
           /\ ToSet(KindSchemas(d, kind)) = KindEntries(d, kind)
  <1> DEFINE Of(class, proc) ==
                 ProcedureSchemas(KindBase(d, kind, proc), OfProcedure(class, kind, proc), proc)
             Holds(class, proc) ==
                 EntriesOf(KindBase(d, kind, proc), OfProcedure(class, kind, proc), proc)
             List(class, procs) == FlattenSeq([i \in DOMAIN procs |-> Of(class, procs[i])])
             All(class, procs) == UNION {Holds(class, proc) : proc \in ToSet(procs)}
  <1>1. ASSUME NEW class, NEW procs, procs \in Seq(ToSet(procs)), All(class, procs) \subseteq E
        PROVE  List(class, procs) \in Seq(E) /\ ToSet(List(class, procs)) = All(class, procs)
    <2> DEFINE of == [proc \in ToSet(procs) |-> Of(class, proc)]
               lists == [i \in DOMAIN procs |-> Of(class, procs[i])]
    <2>1. \A proc \in ToSet(procs) : Of(class, proc) \in Seq(E) /\ ToSet(Of(class, proc)) = Holds(class, proc)
      <3> TAKE proc \in ToSet(procs)
      <3>1. Holds(class, proc) \subseteq E
        <4> HIDE DEF Holds
        <4> QED BY <1>1
      <3> QED BY <3>1, SchemasOfProcedure
    <2> HIDE DEF Of, Holds
    <2>2. of \in [ToSet(procs) -> Seq(E)] /\ \A proc \in ToSet(procs) : of[proc] = Of(class, proc)
      BY <2>1
    <2>3. lists \in Seq(Seq(E)) /\ DOMAIN lists = DOMAIN procs
      <3>1. DOMAIN procs = 1..Len(procs) /\ Len(procs) \in Nat
        BY <1>1
      <3>2. \A i \in DOMAIN procs : Of(class, procs[i]) \in Seq(E)
        BY <2>1 DEF ToSet
      <3>3. lists \in [1..Len(procs) -> Seq(E)]
        BY <3>1, <3>2
      <3> QED BY <3>1, <3>3
    <2>4. \A i \in DOMAIN procs : lists[i] = of[procs[i]]
      BY DEF ToSet
    <2> HIDE DEF of, lists
    <2>5. /\ FlattenSeq(lists) \in Seq(E)
          /\ \A e : e \in ToSet(FlattenSeq(lists)) <=> \E proc \in ToSet(procs) : e \in ToSet(of[proc])
      BY <2>3, <2>4, FlattenedMap, ZenonT(60)
    <2>6. \A e : e \in All(class, procs) <=> \E proc \in ToSet(procs) : e \in Holds(class, proc)
      OBVIOUS
    <2>7. ToSet(FlattenSeq(lists)) = All(class, procs)
      <3>1. \A proc \in ToSet(procs) : ToSet(of[proc]) = Holds(class, proc)
        BY <2>1, <2>2
      <3> HIDE DEF All
      <3>2. \A e : e \in ToSet(FlattenSeq(lists)) <=> e \in All(class, procs)
        BY <2>5, <2>6, <3>1
      <3> QED BY <3>2
    <2> QED BY <2>5, <2>7 DEF lists
  <1> DEFINE k == List("kind", kind.kprocs)
             e == List("entity", kind.eprocs)
             s == StructureSchemas(kind)
  <1>2. KindSchemas(d, kind) = k \o e \o s
    BY DEF KindSchemas
  <1>3. KindEntries(d, kind) = All("kind", kind.kprocs) \cup All("entity", kind.eprocs)
                               \cup StructureEntries(kind)
    BY DEF KindEntries
  <1> HIDE DEF List, All
  <1>4. k \in Seq(E) /\ ToSet(k) = All("kind", kind.kprocs)
    BY <1>1, <1>3
  <1>5. e \in Seq(E) /\ ToSet(e) = All("entity", kind.eprocs)
    BY <1>1, <1>3
  <1>6. s \in Seq(E) /\ ToSet(s) = StructureEntries(kind)
    BY <1>3, SchemasOfStructure
  <1> HIDE DEF k, e, s
  <1>7. k \o e \in Seq(E) /\ ToSet(k \o e) = ToSet(k) \cup ToSet(e)
    BY <1>4, <1>5, JoinedHolds
  <1> DEFINE ke == k \o e
  <1>8. ke \o s \in Seq(E) /\ ToSet(ke \o s) = ToSet(ke) \cup ToSet(s)
    <2>1. ke \in Seq(E)
      BY <1>7
    <2> HIDE DEF ke
    <2> QED BY <1>6, <2>1, JoinedHolds
  <1> QED BY <1>2, <1>3, <1>4, <1>5, <1>6, <1>7, <1>8

\* The schemas of a description.
LEMMA AssignedIs ==
    ASSUME NEW d \in Descriptions
    PROVE  Assigned(d) \in Seq(Entries(d)) /\ ToSet(Assigned(d)) = Entries(d)
  <1> DEFINE E == Entries(d)
             kinds == d.kinds
             procs == d.procs
             ofKind == [kind \in ToSet(kinds) |-> KindSchemas(d, kind)]
             ofProc == [proc \in ToSet(procs) |-> ProviderSchemas(d, proc)]
             Holds(proc) == EntriesOf(ProviderBase(d, proc), OfProvider(proc), proc)
             allKinds == UNION {KindEntries(d, kind) : kind \in ToSet(kinds)}
             allProcs == UNION {Holds(proc) : proc \in ToSet(procs)}
             kindLists == [i \in DOMAIN kinds |-> KindSchemas(d, kinds[i])]
             procLists == [i \in DOMAIN procs |-> ProviderSchemas(d, procs[i])]
  <1>1. E = FirstEntries \cup allKinds \cup allProcs
    BY DEF Entries
  <1>2. /\ DOMAIN kinds = 1..Len(kinds) /\ Len(kinds) \in Nat
        /\ DOMAIN procs = 1..Len(procs) /\ Len(procs) \in Nat
        /\ \A kind \in ToSet(kinds) : /\ kind.kprocs \in Seq(ToSet(kind.kprocs))
                                      /\ kind.eprocs \in Seq(ToSet(kind.eprocs))
    BY ListsAssumption
  <1>3. \A e : e \in allKinds <=> \E kind \in ToSet(kinds) : e \in KindEntries(d, kind)
    OBVIOUS
  <1>4. \A e : e \in allProcs <=> \E proc \in ToSet(procs) : e \in Holds(proc)
    OBVIOUS
  <1>5. \A kind \in ToSet(kinds) : /\ KindSchemas(d, kind) \in Seq(E)
                                   /\ ToSet(KindSchemas(d, kind)) = KindEntries(d, kind)
    <2> TAKE kind \in ToSet(kinds)
    <2>1. KindEntries(d, kind) \subseteq E
      <3> HIDE DEF E, allKinds
      <3> QED BY <1>1, <1>3
    <2> HIDE DEF E
    <2> QED BY <1>2, <2>1, SchemasOfKind
  <1>6. \A proc \in ToSet(procs) : /\ ProviderSchemas(d, proc) \in Seq(E)
                                   /\ ToSet(ProviderSchemas(d, proc)) = Holds(proc)
    <2> TAKE proc \in ToSet(procs)
    <2>1. Holds(proc) \subseteq E
      <3> HIDE DEF E, allProcs, Holds
      <3> QED BY <1>1, <1>4
    <2> HIDE DEF E
    <2> QED BY <2>1, SchemasOfProcedure DEF ProviderSchemas
  <1> HIDE DEF E, Holds, allKinds, allProcs
  <1>7. kindLists \in Seq(Seq(E)) /\ DOMAIN kindLists = DOMAIN kinds
    <2>1. kindLists \in [1..Len(kinds) -> Seq(E)]
      BY <1>2, <1>5 DEF ToSet
    <2> QED BY <1>2, <2>1
  <1>8. procLists \in Seq(Seq(E)) /\ DOMAIN procLists = DOMAIN procs
    <2>1. procLists \in [1..Len(procs) -> Seq(E)]
      BY <1>2, <1>6 DEF ToSet
    <2> QED BY <1>2, <2>1
  <1>9. /\ \A i \in DOMAIN kinds : kindLists[i] = ofKind[kinds[i]]
        /\ \A i \in DOMAIN procs : procLists[i] = ofProc[procs[i]]
    BY DEF ToSet
  <1>10. /\ \A kind \in ToSet(kinds) : ofKind[kind] = KindSchemas(d, kind)
         /\ \A proc \in ToSet(procs) : ofProc[proc] = ProviderSchemas(d, proc)
    OBVIOUS
  <1>11. Assigned(d) = FirstSchemas \o FlattenSeq(kindLists) \o FlattenSeq(procLists)
    BY DEF Assigned
  <1> HIDE DEF kinds, procs, kindLists, procLists, ofKind, ofProc
  <1>12. FlattenSeq(kindLists) \in Seq(E) /\ ToSet(FlattenSeq(kindLists)) = allKinds
    <2>1. /\ FlattenSeq(kindLists) \in Seq(E)
          /\ \A e : e \in ToSet(FlattenSeq(kindLists))
                    <=> \E kind \in ToSet(kinds) : e \in ToSet(ofKind[kind])
      <3>1. \A i \in DOMAIN kinds : kindLists[i] = ofKind[kinds[i]]
        BY <1>9
      <3>2. kindLists \in Seq(Seq(E)) /\ DOMAIN kindLists = DOMAIN kinds
        BY <1>7
      <3> QED BY ONLY <3>1, <3>2, FlattenedMap, ZenonT(60)
    <2>2. \A kind \in ToSet(kinds) : ToSet(ofKind[kind]) = KindEntries(d, kind)
      BY <1>5, <1>10
    <2>3. \A e : e \in ToSet(FlattenSeq(kindLists)) <=> e \in allKinds
      BY <1>3, <2>1, <2>2
    <2> QED BY <2>1, <2>3
  <1>13. FlattenSeq(procLists) \in Seq(E) /\ ToSet(FlattenSeq(procLists)) = allProcs
    <2>1. /\ FlattenSeq(procLists) \in Seq(E)
          /\ \A e : e \in ToSet(FlattenSeq(procLists))
                    <=> \E proc \in ToSet(procs) : e \in ToSet(ofProc[proc])
      <3>1. \A i \in DOMAIN procs : procLists[i] = ofProc[procs[i]]
        BY <1>9
      <3>2. procLists \in Seq(Seq(E)) /\ DOMAIN procLists = DOMAIN procs
        BY <1>8
      <3> QED BY ONLY <3>1, <3>2, FlattenedMap, ZenonT(60)
    <2>2. \A proc \in ToSet(procs) : ToSet(ofProc[proc]) = Holds(proc)
      BY <1>6, <1>10
    <2>3. \A e : e \in ToSet(FlattenSeq(procLists)) <=> e \in allProcs
      BY <1>4, <2>1, <2>2
    <2> QED BY <2>1, <2>3
  <1>14. FirstSchemas \in Seq(E) /\ ToSet(FirstSchemas) = FirstEntries
    BY <1>1, SchemasOfAll
  <1> DEFINE first == FirstSchemas
             middle == FlattenSeq(kindLists)
             last == FlattenSeq(procLists)
             two == first \o middle
  <1>15. two \in Seq(E) /\ ToSet(two) = FirstEntries \cup allKinds
    <2> HIDE DEF first, middle
    <2>1. first \in Seq(E) /\ middle \in Seq(E)
          /\ ToSet(first) = FirstEntries /\ ToSet(middle) = allKinds
      BY <1>12, <1>14 DEF first, middle
    <2> QED BY <2>1, JoinedHolds
  <1>16. two \o last \in Seq(E) /\ ToSet(two \o last) = ToSet(two) \cup ToSet(last)
    <2>1. last \in Seq(E)
      BY <1>13
    <2> HIDE DEF two, last
    <2> QED BY <1>15, <2>1, JoinedHolds
  <1> QED BY <1>1, <1>11, <1>13, <1>15, <1>16 DEF E

\* Some numbers up to another have a largest one.
LEMMA LargestOf ==
    ASSUME NEW n \in Nat, NEW T \in SUBSET (1..n), T # {}
    PROVE  \E m \in T : \A k \in T : k <= m
  <1> DEFINE back == {n - k : k \in T}
  <1>1. back \in SUBSET Nat /\ back # {}
    <2>1. \A k \in T : n - k \in Nat
      OBVIOUS
    <2> QED BY <2>1
  <1>2. PICK b \in back : \A c \in back : b <= c
    <2> HIDE DEF back
    <2> QED BY <1>1, SmallestOf
  <1>3. PICK m \in T : b = n - m
    BY <1>2
  <1>4. \A k \in T : n - m <= n - k
    BY <1>2, <1>3
  <1>5. \A k \in T : k <= m
    BY <1>4
  <1> QED BY <1>5

\* What is found by a name is what the entries of this name agree on, and what is
\* found by no entry is nothing.
LEMMA SchemaFound ==
    ASSUME NEW d \in Descriptions, NEW name
    PROVE  /\ SchemaOf(d, name) # <<"none">> => \E e \in Entries(d) : e.name = name
           /\ \A of : /\ \E e \in Entries(d) : e.name = name
                      /\ \A e \in Entries(d) : e.name = name => e.of = of
                      => SchemaOf(d, name) = of
  <1> DEFINE all == Assigned(d)
             places == {i \in DOMAIN all : all[i].name = name}
             last == CHOOSE i \in places : \A j \in places : j <= i
  <1>1. all \in Seq(Entries(d)) /\ ToSet(all) = Entries(d)
    BY AssignedIs
  <1>2. SchemaOf(d, name) = IF places = {} THEN <<"none">> ELSE all[last].of
    BY DEF SchemaOf
  <1> HIDE DEF all
  <1>3. DOMAIN all = 1..Len(all) /\ Len(all) \in Nat
    BY <1>1
  <1>4. places # {} <=> \E e \in Entries(d) : e.name = name
    BY <1>1 DEF ToSet
  <1>5. places # {} => last \in places
    <2>1. places \in SUBSET (1..Len(all))
      BY <1>3
    <2> HIDE DEF places
    <2>2. places # {} => \E i \in places : \A j \in places : j <= i
      BY <1>3, <2>1, LargestOf
    <2> QED BY <2>2
  <1> HIDE DEF last
  <1>6. places # {} => all[last] \in Entries(d) /\ all[last].name = name
    BY <1>1, <1>5 DEF ToSet
  <1> HIDE DEF places
  <1> QED BY <1>2, <1>4, <1>6

\* What the procedures of a class are
ProcsOf(kind, class) == IF class = "kind" THEN ToSet(kind.kprocs) ELSE ToSet(kind.eprocs)

Classes == {"kind", "entity"}

\* The entries of a documentation, by the form of their names.
LEMMA EntryForms ==
    ASSUME NEW d, NEW e \in Entries(d)
    PROVE  \/ \E word \in {"Error", "Metadata", "Nothing"} : e = Entry(OneWord(word), <<word>>)
           \/ \E kind \in ToSet(d.kinds) : e \in StructureEntries(kind)
           \/ \E kind \in ToSet(d.kinds), class \in Classes : \E proc \in ProcsOf(kind, class) :
                  e \in EntriesOf(KindBase(d, kind, proc), OfProcedure(class, kind, proc), proc)
           \/ \E proc \in ToSet(d.procs) : e \in EntriesOf(ProviderBase(d, proc), OfProvider(proc), proc)
  <1> DEFINE perKind == {KindEntries(d, kind) : kind \in ToSet(d.kinds)}
             perProc == {EntriesOf(ProviderBase(d, proc), OfProvider(proc), proc) : proc \in ToSet(d.procs)}
  <1>1. e \in FirstEntries \/ (\E es \in perKind : e \in es) \/ (\E es \in perProc : e \in es)
    BY Zenon DEF Entries
  <1>2. CASE e \in FirstEntries
    BY <1>2 DEF FirstEntries
  <1>3. CASE \E es \in perKind : e \in es
    <2>1. PICK kind \in ToSet(d.kinds) : e \in KindEntries(d, kind)
      BY <1>3
    <2> DEFINE entries(class) == {EntriesOf(KindBase(d, kind, proc), OfProcedure(class, kind, proc), proc) :
                                      proc \in ProcsOf(kind, class)}
    <2>2. \/ \E class \in Classes : \E es \in entries(class) : e \in es
          \/ e \in StructureEntries(kind)
      BY <2>1 DEF KindEntries, ProcsOf, Classes
    <2>3. CASE \E class \in Classes : \E es \in entries(class) : e \in es
      <3>1. PICK class \in Classes : \E es \in entries(class) : e \in es
        BY <2>3
      <3>2. \E proc \in ProcsOf(kind, class) :
                e \in EntriesOf(KindBase(d, kind, proc), OfProcedure(class, kind, proc), proc)
        BY <3>1
      <3> QED BY <3>2
    <2> QED BY <2>2, <2>3
  <1>4. CASE \E es \in perProc : e \in es
    BY <1>4
  <1> QED BY <1>1, <1>2, <1>3, <1>4

\* Every entry of these forms is one.
LEMMA FormsAreEntries ==
    ASSUME NEW d
    PROVE  /\ \A word \in {"Error", "Metadata", "Nothing"} : Entry(OneWord(word), <<word>>) \in Entries(d)
           /\ \A kind \in ToSet(d.kinds) : StructureEntries(kind) \subseteq Entries(d)
           /\ \A kind \in ToSet(d.kinds), class \in Classes : \A proc \in ProcsOf(kind, class) :
                  EntriesOf(KindBase(d, kind, proc), OfProcedure(class, kind, proc), proc)
                  \subseteq Entries(d)
           /\ \A proc \in ToSet(d.procs) :
                  EntriesOf(ProviderBase(d, proc), OfProvider(proc), proc) \subseteq Entries(d)
  <1>1. FirstEntries \subseteq Entries(d)
    BY DEF Entries
  <1>2. \A kind \in ToSet(d.kinds) : KindEntries(d, kind) \subseteq Entries(d)
    BY DEF Entries
  <1>3. \A kind \in ToSet(d.kinds) : StructureEntries(kind) \subseteq KindEntries(d, kind)
    BY DEF KindEntries
  <1>4. ASSUME NEW kind \in ToSet(d.kinds), NEW class \in Classes, NEW proc \in ProcsOf(kind, class)
        PROVE  EntriesOf(KindBase(d, kind, proc), OfProcedure(class, kind, proc), proc)
               \subseteq KindEntries(d, kind)
    BY DEF KindEntries, ProcsOf, Classes
  <1>5. \A proc \in ToSet(d.procs) :
            EntriesOf(ProviderBase(d, proc), OfProvider(proc), proc) \subseteq Entries(d)
    BY DEF Entries
  <1>6. \A word \in {"Error", "Metadata", "Nothing"} : Entry(OneWord(word), <<word>>) \in FirstEntries
    BY DEF FirstEntries
  <1> QED BY <1>1, <1>2, <1>3, <1>4, <1>5, <1>6

\* References of a procedure are written for what its entries describe.
LEMMA ProcedureRefs ==
    ASSUME NEW base, NEW whose, NEW proc,
           NEW ref \in InputRef(base, whose, proc) \cup OutputRef(base, whose, proc)
    PROVE  ref = Nothing \/ ref \in EntriesOf(base, whose, proc)
  BY DEF InputRef, OutputRef, OrNothing, EntriesOf, Ref, Entry

\* The references of a documentation.
LEMMA RefForms ==
    ASSUME NEW d, NEW ref \in Refs(d)
    PROVE  \/ ref \in {Nothing, ErrorRef}
           \/ \E kind \in ToSet(d.kinds) : ref \in OfKind(kind)
           \/ \E kind \in ToSet(d.kinds), class \in Classes : \E proc \in ProcsOf(kind, class) :
                  ref \in EntriesOf(KindBase(d, kind, proc), OfProcedure(class, kind, proc), proc)
           \/ \E proc \in ToSet(d.procs) : ref \in EntriesOf(ProviderBase(d, proc), OfProvider(proc), proc)
  <1>1. PICK op \in Ops(d) : ref \in op.input \cup op.output
    BY DEF Refs
  <1>2. \/ \E kind \in ToSet(d.kinds) : op \in KindOps(d, kind)
        \/ \E proc \in ToSet(d.procs) : op = CallProviderProcedure(d, proc)
    <2> DEFINE perKind == {KindOps(d, kind) : kind \in ToSet(d.kinds)}
    <2>1. op \in UNION perKind => \E ops \in perKind : op \in ops
      OBVIOUS
    <2>2. \A ops \in perKind : \E kind \in ToSet(d.kinds) : ops = KindOps(d, kind)
      OBVIOUS
    <2>3. \/ op \in UNION perKind
          \/ op \in {CallProviderProcedure(d, proc) : proc \in ToSet(d.procs)}
      BY Zenon DEF Ops
    <2> HIDE DEF perKind
    <2> QED BY <2>1, <2>2, <2>3
  <1>3. ASSUME NEW proc \in ToSet(d.procs), op = CallProviderProcedure(d, proc)
        PROVE  \/ ref \in {Nothing, ErrorRef}
               \/ ref \in EntriesOf(ProviderBase(d, proc), OfProvider(proc), proc)
    <2>1. /\ op.input = InputRef(ProviderBase(d, proc), OfProvider(proc), proc)
          /\ op.output = OutputRef(ProviderBase(d, proc), OfProvider(proc), proc) \cup {ErrorRef}
      BY <1>3 DEF CallProviderProcedure, Op
    <2> QED BY <1>1, <2>1, ProcedureRefs
  <1>4. ASSUME NEW kind \in ToSet(d.kinds), op \in KindOps(d, kind)
        PROVE  \/ ref \in {Nothing, ErrorRef} \/ ref \in OfKind(kind)
               \/ \E class \in Classes : \E proc \in ProcsOf(kind, class) :
                    ref \in EntriesOf(KindBase(d, kind, proc), OfProcedure(class, kind, proc), proc)
    <2> DEFINE refs(class, proc) == KindRefs(d, class, kind, proc)
    <2>1. ASSUME NEW class \in Classes, NEW proc \in ProcsOf(kind, class),
                 ref \in refs(class, proc).input \cup refs(class, proc).output
          PROVE  ref = Nothing \/ ref \in EntriesOf(KindBase(d, kind, proc),
                                                    OfProcedure(class, kind, proc), proc)
      BY <2>1, ProcedureRefs DEF KindRefs
    <2>2. SpecOf(kind) \subseteq OfKind(kind) /\ OfStructure(kind, "Metadata") \in OfKind(kind)
      BY DEF SpecOf, OfKind
    <2>3. CASE op \in {GetKind(d, kind), PostKindFilter(d, kind), GetKindEntity(d, kind),
                       DeleteKindEntity(d, kind), PutKindEntity(d, kind), PostKind(d, kind)}
      <3>1. op.input \subseteq OfKind(kind) /\ op.output \subseteq OfKind(kind) \cup {ErrorRef}
        BY <2>2, <2>3
           DEF GetKind, PostKindFilter, GetKindEntity, DeleteKindEntity, PutKindEntity, PostKind, Op
      <3> QED BY <1>1, <3>1
    <2>4. ASSUME NEW proc \in ToSet(kind.kprocs),
                 \/ op = CallKindProcedure(d, kind, proc)
                 \/ op = CallConstructorProcedure(d, kind, proc)
          PROVE  \/ ref \in {Nothing, ErrorRef} \/ ref \in OfKind(kind)
                 \/ ref \in refs("kind", proc).input \cup refs("kind", proc).output
      <3>1. /\ op.input = refs("kind", proc).input
            /\ op.output \subseteq refs("kind", proc).output \cup {Nothing, ErrorRef} \cup OfKind(kind)
        BY <2>4 DEF CallKindProcedure, CallConstructorProcedure, Op
      <3> HIDE DEF refs
      <3> QED BY <1>1, <3>1
    <2>5. ASSUME NEW proc \in ToSet(kind.eprocs), op = CallEntityProcedure(d, kind, proc)
          PROVE  \/ ref = ErrorRef
                 \/ ref \in refs("entity", proc).input \cup refs("entity", proc).output
      <3>1. /\ op.input = refs("entity", proc).input
            /\ op.output = refs("entity", proc).output \cup {ErrorRef}
        BY <2>5 DEF CallEntityProcedure, Op
      <3> HIDE DEF refs
      <3> QED BY <1>1, <3>1
    <2>6. \/ op \in {GetKind(d, kind), PostKindFilter(d, kind), GetKindEntity(d, kind),
                     DeleteKindEntity(d, kind), PutKindEntity(d, kind), PostKind(d, kind)}
          \/ \E proc \in ToSet(kind.kprocs) : \/ op = CallKindProcedure(d, kind, proc)
                                              \/ op = CallConstructorProcedure(d, kind, proc)
          \/ \E proc \in ToSet(kind.eprocs) : op = CallEntityProcedure(d, kind, proc)
      BY <1>4 DEF KindOps, Constructors
    <2>7. /\ "kind" \in Classes /\ ProcsOf(kind, "kind") = ToSet(kind.kprocs)
          /\ "entity" \in Classes /\ ProcsOf(kind, "entity") = ToSet(kind.eprocs)
      BY DEF Classes, ProcsOf
    <2> HIDE DEF refs
    <2> QED BY <2>1, <2>3, <2>4, <2>5, <2>6, <2>7
  <1> QED BY <1>2, <1>3, <1>4

\* The entries of one word.
LEMMA WordEntries ==
    ASSUME NEW d, NEW e \in Entries(d), NEW word, e.name = OneWord(word)
    PROVE  \/ e.of = <<word>>
           \/ \E kind \in ToSet(d.kinds) : word = kind.key
  <1>1. Len(e.name[1]) = 0
    BY DEF OneWord
  <1>2. ASSUME NEW other, e = Entry(OneWord(other), <<other>>) PROVE e.of = <<word>>
    <2>1. OneWord(other)[2] = other /\ OneWord(word)[2] = word /\ e.name = OneWord(other)
      BY <1>2 DEF Entry, OneWord
    <2>2. other = word
      BY <2>1
    <2> QED BY <1>2, <2>2 DEF Entry
  <1>3. ASSUME NEW kind \in ToSet(d.kinds), e \in StructureEntries(kind) PROVE word = kind.key
    <2>1. \/ e = Entry(OneWord(kind.key), <<"structure", kind.key>>)
          \/ Len(e.name[1]) = 1
      BY <1>3 DEF StructureEntries, Entry
    <2>2. e.name = OneWord(kind.key)
      BY <1>1, <2>1 DEF Entry
    <2>3. OneWord(kind.key)[2] = kind.key /\ OneWord(word)[2] = word
      BY DEF OneWord
    <2> QED BY <2>2, <2>3
  <1>4. ASSUME NEW kind, NEW proc, NEW whose,
               e \in EntriesOf(KindBase(d, kind, proc), whose, proc)
        PROVE  FALSE
    BY <1>1, <1>4 DEF EntriesOf, Entry, Input, Output, KindBase
  <1>5. ASSUME NEW proc, NEW whose, e \in EntriesOf(ProviderBase(d, proc), whose, proc)
        PROVE  FALSE
    BY <1>1, <1>5 DEF EntriesOf, Entry, Input, Output, ProviderBase
  <1> QED BY <1>2, <1>3, <1>4, <1>5, EntryForms

\* The entries of a part of a structure.
LEMMA PartEntries ==
    ASSUME NEW d, NEW e \in Entries(d), NEW key, NEW piece, e.name = <<<<key>>, piece>>
    PROVE  e.of = <<piece, key>> /\ \E kind \in ToSet(d.kinds) : key = kind.key
  <1>1. Len(e.name[1]) = 1 /\ e.name[1] = <<key>> /\ e.name[2] = piece
    OBVIOUS
  <1>2. ASSUME NEW word, e = Entry(OneWord(word), <<word>>) PROVE FALSE
    BY <1>1, <1>2 DEF Entry, OneWord
  <1>3. ASSUME NEW kind \in ToSet(d.kinds), e \in StructureEntries(kind)
        PROVE  e.of = <<piece, key>> /\ key = kind.key
    <2>1. CASE e = Entry(OneWord(kind.key), <<"structure", kind.key>>)
      BY <1>1, <2>1 DEF Entry, OneWord
    <2>2. CASE \E other \in {"Spec", "Status", "Metadata"} :
                   e = Entry(<<<<kind.key>>, other>>, <<other, kind.key>>)
      <3>1. PICK other \in {"Spec", "Status", "Metadata"} :
                   e = Entry(<<<<kind.key>>, other>>, <<other, kind.key>>)
        BY <2>2
      <3>2. e.name[1] = <<kind.key>> /\ e.name[2] = other /\ e.of = <<other, kind.key>>
        BY <3>1 DEF Entry
      <3>3. <<kind.key>> = <<key>> => kind.key = key
        OBVIOUS
      <3> QED BY <1>1, <3>2, <3>3
    <2> QED BY <1>3, <2>1, <2>2 DEF StructureEntries
  <1>4. ASSUME NEW kind, NEW proc, NEW whose,
               e \in EntriesOf(KindBase(d, kind, proc), whose, proc)
        PROVE  FALSE
    BY <1>1, <1>4 DEF EntriesOf, Entry, Input, Output, KindBase
  <1>5. ASSUME NEW proc, NEW whose, e \in EntriesOf(ProviderBase(d, proc), whose, proc)
        PROVE  FALSE
    BY <1>1, <1>5 DEF EntriesOf, Entry, Input, Output, ProviderBase
  <1> QED BY <1>2, <1>3, <1>4, <1>5, EntryForms

\* The entries with the base of a kind's procedure are of such procedures.
LEMMA KindProcEntries ==
    ASSUME NEW d, NEW e \in Entries(d), NEW kind, NEW proc, e.name[1] = KindBase(d, kind, proc)
    PROVE  \E k \in ToSet(d.kinds), class \in Classes : \E q \in ProcsOf(k, class) :
               /\ k.name = kind.name /\ q.name = proc.name
               /\ e \in EntriesOf(KindBase(d, k, q), OfProcedure(class, k, q), q)
  <1>1. Len(e.name[1]) = 4
    BY DEF KindBase
  <1>2. ASSUME NEW word, e = Entry(OneWord(word), <<word>>) PROVE FALSE
    BY <1>1, <1>2 DEF Entry, OneWord
  <1>3. ASSUME NEW k, e \in StructureEntries(k) PROVE FALSE
    BY <1>1, <1>3 DEF StructureEntries, Entry, OneWord
  <1>4. ASSUME NEW k, NEW q, NEW whose, e \in EntriesOf(KindBase(d, k, q), whose, q)
        PROVE  k.name = kind.name /\ q.name = proc.name
    <2>1. KindBase(d, k, q) = KindBase(d, kind, proc)
      BY <1>4 DEF EntriesOf, Entry, Input, Output
    <2> QED BY <2>1 DEF KindBase
  <1>5. ASSUME NEW q, NEW whose, e \in EntriesOf(ProviderBase(d, q), whose, q)
        PROVE  FALSE
    BY <1>1, <1>5 DEF EntriesOf, Entry, Input, Output, ProviderBase
  <1> QED BY <1>2, <1>3, <1>4, <1>5, EntryForms

\* The entries with the base of a provider's procedure are of such procedures.
LEMMA ProviderProcEntries ==
    ASSUME NEW d, NEW e \in Entries(d), NEW proc, e.name[1] = ProviderBase(d, proc)
    PROVE  \E q \in ToSet(d.procs) :
               /\ q.name = proc.name /\ e \in EntriesOf(ProviderBase(d, q), OfProvider(q), q)
  <1>1. Len(e.name[1]) = 3
    BY DEF ProviderBase
  <1>2. ASSUME NEW word, e = Entry(OneWord(word), <<word>>) PROVE FALSE
    BY <1>1, <1>2 DEF Entry, OneWord
  <1>3. ASSUME NEW k, e \in StructureEntries(k) PROVE FALSE
    BY <1>1, <1>3 DEF StructureEntries, Entry, OneWord
  <1>4. ASSUME NEW k, NEW q, NEW whose, e \in EntriesOf(KindBase(d, k, q), whose, q)
        PROVE  FALSE
    BY <1>1, <1>4 DEF EntriesOf, Entry, Input, Output, KindBase
  <1>5. ASSUME NEW q, NEW whose, e \in EntriesOf(ProviderBase(d, q), whose, q)
        PROVE  q.name = proc.name
    <2>1. ProviderBase(d, q) = ProviderBase(d, proc)
      BY <1>5 DEF EntriesOf, Entry, Input, Output
    <2> QED BY <2>1 DEF ProviderBase
  <1> QED BY <1>2, <1>3, <1>4, <1>5, EntryForms

Excused(d, ref) == Shared(d, ref) \/ OneKeyTwice(d, ref) \/ Misnamed(d, ref) \/ Taken(d, ref)

\* A reference that has an entry leads home when all entries of its name agree.
LEMMA HomeWhenAgreed ==
    ASSUME NEW d \in Descriptions, NEW ref, ref = Ref(ref.name, ref.of),
           Entry(ref.name, ref.of) \in Entries(d),
           \A e \in Entries(d) : e.name = ref.name => e.of = ref.of
    PROVE  SchemaOf(d, ref.name) = ref.of
  <1>1. Entry(ref.name, ref.of).name = ref.name
    BY DEF Entry
  <1>2. \E e \in Entries(d) : e.name = ref.name
    BY <1>1
  <1> QED BY <1>2, SchemaFound

\* A procedure has its signature among those of its description.
LEMMA SignedProcs ==
    ASSUME NEW d
    PROVE  /\ \A proc \in ToSet(d.procs) : <<ProviderBase(d, proc), proc>> \in Signatures(d)
           /\ \A kind \in ToSet(d.kinds), class \in Classes : \A proc \in ProcsOf(kind, class) :
                  <<KindBase(d, kind, proc), proc>> \in Signatures(d)
  <1>1. \A proc \in ToSet(d.procs) : <<ProviderBase(d, proc), proc>> \in Signatures(d)
    BY DEF Signatures
  <1>2. ASSUME NEW kind \in ToSet(d.kinds), NEW class \in Classes, NEW proc \in ProcsOf(kind, class)
        PROVE  <<KindBase(d, kind, proc), proc>> \in Signatures(d)
    <2>1. proc \in ToSet(kind.kprocs) \cup ToSet(kind.eprocs)
      BY DEF ProcsOf
    <2> QED BY <2>1 DEF Signatures
  <1> QED BY <1>1, <1>2

\* Two entries of one name, of procedures with one owner, describe the same unless
\* one is of an argument and the other of a result.
LEMMA ArgumentOrResult ==
    ASSUME NEW d, NEW s \in Signatures(d), NEW t \in Signatures(d), NEW whose,
           NEW a \in EntriesOf(s[1], whose, s[2]), NEW b \in EntriesOf(t[1], whose, t[2]),
           a.name = b.name
    PROVE  a.of = b.of \/ \A ref : ref.name = a.name => OneKeyTwice(d, ref)
  <1>1. \/ a.name = Input(s[1], s[2]) /\ a.of = <<"argument", whose>>
        \/ a.name = Output(s[1], s[2]) /\ a.of = <<"result", whose>>
    BY DEF EntriesOf, Entry
  <1>2. \/ b.name = Input(t[1], t[2]) /\ b.of = <<"argument", whose>>
        \/ b.name = Output(t[1], t[2]) /\ b.of = <<"result", whose>>
    BY DEF EntriesOf, Entry
  <1> QED BY <1>1, <1>2 DEF OneKeyTwice

\* The references of a documentation that is generated lead home, but for the
\* excuses.
LEMMA RefsHome ==
    ASSUME NEW d \in Descriptions, Documentable(d), NEW ref \in Refs(d)
    PROVE  SchemaOf(d, ref.name) = ref.of \/ Excused(d, ref)
  <1> DEFINE Home == SchemaOf(d, ref.name) = ref.of
  <1>1. CASE ref \in {Nothing, ErrorRef}
    <2>1. PICK word \in {"Nothing", "Error"} : ref = Ref(OneWord(word), <<word>>)
      BY <1>1 DEF Nothing, ErrorRef
    <2>2. ref.name = OneWord(word) /\ ref.of = <<word>> /\ ref = Ref(ref.name, ref.of)
      BY <2>1 DEF Ref
    <2>3. Entry(ref.name, ref.of) \in Entries(d)
      BY <2>2, FormsAreEntries
    <2>4. \A e \in Entries(d) : e.name = ref.name => e.of = ref.of \/ Taken(d, ref)
      BY <2>2, WordEntries DEF Taken
    <2> QED BY <2>2, <2>3, <2>4, HomeWhenAgreed DEF Excused
  <1>2. ASSUME NEW kind \in ToSet(d.kinds), ref \in OfKind(kind) PROVE Home \/ Excused(d, ref)
    <2>1. PICK piece \in {"Metadata", "Spec", "Status"} : ref = OfStructure(kind, piece)
      BY <1>2 DEF OfKind
    <2>2. /\ ref.name = <<<<kind.name>>, piece>> /\ ref.of = <<piece, kind.key>>
          /\ ref = Ref(ref.name, ref.of)
      BY <2>1 DEF OfStructure, Ref
    <2>3. CASE kind.key = kind.name
      <3>1. Entry(ref.name, ref.of) \in StructureEntries(kind)
        BY <2>2, <2>3 DEF StructureEntries
      <3>2. Entry(ref.name, ref.of) \in Entries(d)
        BY <3>1, FormsAreEntries
      <3>3. \A e \in Entries(d) : e.name = ref.name => e.of = ref.of
        BY <2>2, <2>3, PartEntries
      <3> QED BY <2>2, <3>2, <3>3, HomeWhenAgreed
    <2>4. CASE kind.key # kind.name
      <3>1. SchemaOf(d, ref.name) # <<"none">>
        BY DEF Documentable
      <3>2. PICK e \in Entries(d) : e.name = ref.name
        BY <3>1, SchemaFound
      <3>3. \E other \in ToSet(d.kinds) : kind.name = other.key
        BY <2>2, <3>2, PartEntries
      <3>4. ref.name[1] = <<kind.name>>
        BY <2>2
      <3> QED BY <2>4, <3>3, <3>4 DEF Misnamed, Excused
    <2> QED BY <2>3, <2>4
  <1>3. ASSUME NEW kind \in ToSet(d.kinds), NEW class \in Classes, NEW proc \in ProcsOf(kind, class),
               ref \in EntriesOf(KindBase(d, kind, proc), OfProcedure(class, kind, proc), proc)
        PROVE  Home \/ Excused(d, ref)
    <2> DEFINE entries == EntriesOf(KindBase(d, kind, proc), OfProcedure(class, kind, proc), proc)
    <2>1. /\ ref.name[1] = KindBase(d, kind, proc)
          /\ ref = Ref(ref.name, ref.of) /\ Entry(ref.name, ref.of) = ref
      BY <1>3 DEF EntriesOf, Entry, Ref, Input, Output
    <2>2. Entry(ref.name, ref.of) \in Entries(d)
      BY <1>3, <2>1, FormsAreEntries
    <2>3. ASSUME NEW e \in Entries(d), e.name = ref.name, ~ Shared(d, ref), ~ OneKeyTwice(d, ref)
          PROVE  e.of = ref.of
      <3>1. PICK k \in ToSet(d.kinds), other \in Classes : \E q \in ProcsOf(k, other) :
               /\ k.name = kind.name /\ q.name = proc.name
               /\ e \in EntriesOf(KindBase(d, k, q), OfProcedure(other, k, q), q)
        BY <2>1, <2>3, KindProcEntries
      <3>2. PICK q \in ProcsOf(k, other) :
               /\ k.name = kind.name /\ q.name = proc.name
               /\ e \in EntriesOf(KindBase(d, k, q), OfProcedure(other, k, q), q)
        BY <3>1
      <3>3. KindBase(d, k, q) = KindBase(d, kind, proc)
        BY <3>2 DEF KindBase
      <3>4. other = class
        <4>1. CASE class = "kind" /\ other = "entity"
          <5>1. proc \in ToSet(kind.kprocs) /\ q \in ToSet(k.eprocs)
            BY <4>1 DEF ProcsOf
          <5> QED BY <2>1, <2>3, <3>2, <5>1 DEF Shared
        <4>2. CASE class = "entity" /\ other = "kind"
          <5>1. proc \in ToSet(kind.eprocs) /\ q \in ToSet(k.kprocs)
            BY <4>2 DEF ProcsOf
          <5> QED BY <2>1, <2>3, <3>2, <3>3, <5>1 DEF Shared
        <4> QED BY <4>1, <4>2 DEF Classes
      <3>5. OfProcedure(other, k, q) = OfProcedure(class, kind, proc)
        BY <3>2, <3>4 DEF OfProcedure
      <3> DEFINE s == <<KindBase(d, kind, proc), proc>>
                 t == <<KindBase(d, k, q), q>>
                 whose == OfProcedure(class, kind, proc)
      <3>6. s \in Signatures(d) /\ t \in Signatures(d)
        BY SignedProcs
      <3>7. ref \in EntriesOf(s[1], whose, s[2]) /\ e \in EntriesOf(t[1], whose, t[2])
        BY <1>3, <3>2, <3>5
      <3> HIDE DEF s, t, whose
      <3>8. ref.of = e.of \/ \A r : r.name = ref.name => OneKeyTwice(d, r)
        BY <2>3, <3>6, <3>7, ArgumentOrResult
      <3> QED BY <2>3, <3>8
    <2> QED BY <2>1, <2>2, <2>3, HomeWhenAgreed DEF Excused
  <1>4. ASSUME NEW proc \in ToSet(d.procs),
               ref \in EntriesOf(ProviderBase(d, proc), OfProvider(proc), proc)
        PROVE  Home \/ Excused(d, ref)
    <2>1. /\ ref.name[1] = ProviderBase(d, proc)
          /\ ref = Ref(ref.name, ref.of) /\ Entry(ref.name, ref.of) = ref
      BY <1>4 DEF EntriesOf, Entry, Ref, Input, Output
    <2>2. Entry(ref.name, ref.of) \in Entries(d)
      BY <1>4, <2>1, FormsAreEntries
    <2>3. ASSUME NEW e \in Entries(d), e.name = ref.name, ~ OneKeyTwice(d, ref)
          PROVE  e.of = ref.of
      <3>1. PICK q \in ToSet(d.procs) :
               q.name = proc.name /\ e \in EntriesOf(ProviderBase(d, q), OfProvider(q), q)
        BY <2>1, <2>3, ProviderProcEntries
      <3>2. OfProvider(q) = OfProvider(proc)
        BY <3>1 DEF OfProvider
      <3> DEFINE s == <<ProviderBase(d, proc), proc>>
                 t == <<ProviderBase(d, q), q>>
                 whose == OfProvider(proc)
      <3>3. s \in Signatures(d) /\ t \in Signatures(d)
        BY SignedProcs
      <3>4. ref \in EntriesOf(s[1], whose, s[2]) /\ e \in EntriesOf(t[1], whose, t[2])
        BY <1>4, <3>1, <3>2
      <3> HIDE DEF s, t, whose
      <3>5. ref.of = e.of \/ \A r : r.name = ref.name => OneKeyTwice(d, r)
        BY <2>3, <3>3, <3>4, ArgumentOrResult
      <3> QED BY <2>3, <3>5
    <2> QED BY <2>1, <2>2, <2>3, HomeWhenAgreed DEF Excused
  <1> QED BY <1>1, <1>2, <1>3, <1>4, RefForms

------------------------------------------------------------------------------
(* What holds of every answer.  The engine looks for what a request names in    *)
(* the description it has then, so an answer is forgotten with that description.*)

FromClient ==
    /\ provider \in Descriptions
    /\ \E r \in Clients(provider) : answer = Answer("client", r)

FromDocs ==
    /\ provider \in Descriptions /\ docs \in Descriptions
    /\ \E op \in Ops(docs) : answer = Answer("docs", op.request)

InterfaceInv ==
    /\ {provider, docs} \subseteq Descriptions \cup {Unknown}
    /\ docs # Unknown => Documentable(docs)
    /\ answer # Unknown => FromClient \/ FromDocs

\* The invariant holds when the engine starts.
LEMMA InterfaceInitInv == InterfaceInit => InterfaceInv
  BY DEF InterfaceInit, InterfaceInv

\* And each step keeps it.
LEMMA InterfaceNextKeeps == InterfaceInv /\ [InterfaceNext]_interfaceVars => InterfaceInv'
  <1> SUFFICES ASSUME InterfaceInv, [InterfaceNext]_interfaceVars PROVE InterfaceInv'
    OBVIOUS
  <1>1. ASSUME NEW d \in Descriptions, Register(d) PROVE InterfaceInv'
    BY <1>1 DEF Register, InterfaceInv
  <1>2. CASE ReadDocs
    BY <1>2 DEF ReadDocs, InterfaceInv
  <1>3. CASE CallDocumented
    <2>1. /\ provider \in Descriptions /\ docs \in Descriptions
          /\ provider' = provider /\ docs' = docs
      BY <1>3 DEF CallDocumented, InterfaceInv
    <2>2. PICK op \in Ops(docs) : answer' = Answer("docs", op.request)
      BY <1>3 DEF CallDocumented
    <2>3. Answer("docs", op.request)' = Answer("docs", op.request)
      BY <2>1 DEF Answer, Found, KindsNamed
    <2>4. FromDocs'
      BY <2>1, <2>2, <2>3 DEF FromDocs
    <2> QED BY <2>1, <2>4 DEF InterfaceInv
  <1>4. CASE CallClient
    <2>1. /\ provider \in Descriptions /\ provider' = provider /\ docs' = docs
          /\ docs \in Descriptions \cup {Unknown}
      BY <1>4 DEF CallClient, InterfaceInv
    <2>2. PICK r \in Clients(provider) : answer' = Answer("client", r)
      BY <1>4 DEF CallClient
    <2>3. Answer("client", r)' = Answer("client", r)
      BY <2>1 DEF Answer, Found, KindsNamed
    <2>4. FromClient'
      BY <2>1, <2>2, <2>3 DEF FromClient
    <2> QED BY <2>1, <2>4 DEF InterfaceInv
  <1>5. CASE UNCHANGED interfaceVars
    BY <1>5 DEF interfaceVars, InterfaceInv, FromClient, FromDocs, Answer, Found, KindsNamed
  <1> QED BY <1>1, <1>2, <1>3, <1>4, <1>5 DEF InterfaceNext

\* What the invariant says of the answers.
LEMMA InterfaceInvImplies == InterfaceInv => ClientIsServed /\ DocumentedIsServed
  <1> SUFFICES ASSUME InterfaceInv PROVE ClientIsServed /\ DocumentedIsServed
    OBVIOUS
  <1>1. ASSUME answer # Unknown, answer.by = "client"
        PROVE  (answer.got = answer.request.want)
               <=> ~ Reserved(answer.request) /\ answer.request.want # "inactivate_key"
    <2>1. FromClient
      BY <1>1, Answered DEF InterfaceInv, FromDocs
    <2>2. PICK r \in Clients(provider) : answer = Answer("client", r)
      BY <2>1 DEF FromClient
    <2>3. answer.request = r /\ answer.got = Got(r)
      BY <2>2, Answered
    <2> QED BY <2>1, <2>3, ClientArrives DEF FromClient
  <1>2. ASSUME answer # Unknown, answer.by = "docs", docs = provider
        PROVE  (answer.got = answer.request.want) <=> ~ Reserved(answer.request)
    <2>1. FromDocs
      BY <1>2, Answered DEF InterfaceInv, FromClient
    <2>2. PICK op \in Ops(docs) : answer = Answer("docs", op.request)
      BY <2>1 DEF FromDocs
    <2>3. answer.request = op.request /\ answer.got = Got(op.request)
      BY <2>2, Answered
    <2>4. Arrives(op.request)
      BY <1>2, <2>1, DocumentedArrives DEF FromDocs
    <2> QED BY <2>3, <2>4 DEF Arrives
  <1> QED BY <1>1, <1>2 DEF ClientIsServed, DocumentedIsServed

\* In every documentation that is generated, whatever is registered in between,
\* every reference leads to the schema of the thing it was written for, but for
\* the names that meet: for any number of kinds and procedures.
THEOREM RefsCorrect == InterfaceSpec => []RefsLeadHome
  <1>1. InterfaceInv => RefsLeadHome
    BY RefsHome DEF InterfaceInv, RefsLeadHome, Excused
  <1> QED BY <1>1, InterfaceInitInv, InterfaceNextKeeps, PTL DEF InterfaceSpec

\* What becomes of any request is a handler or a refusal.
LEMMA GotNamed == \A r : Got(r) \in Outcomes
  <1> SUFFICES ASSUME NEW r, IsRouted(r) PROVE Served(r) \in Outcomes
    BY DEF Got, Served, Outcomes
  <1> DEFINE matching == {i \in DOMAIN AllRoutes : Matches(AllRoutes[i], r)}
  <1>1. matching # {} /\ matching \in SUBSET Nat
    BY TablesJoined DEF IsRouted
  <1>2. PICK i \in matching : \A j \in matching : i <= j
    <2> HIDE DEF matching
    <2> QED BY <1>1, SmallestOf
  <1>3. \A j \in DOMAIN AllRoutes : j < i => ~ Matches(AllRoutes[j], r)
    BY <1>1, <1>2, TablesJoined
  <1>4. Served(r) = IF CheckRequest(AllRoutes[i], r) THEN AllRoutes[i].handler ELSE "bad_request"
    BY <1>2, <1>3, ServedByFirst
  <1> QED BY <1>2, <1>4 DEF Outcomes

\* Provider, documentation and answer have their types, whatever is registered.
THEOREM InterfaceTypeCorrect == InterfaceSpec => []InterfaceTypeOK
  <1>1. InterfaceInv => InterfaceTypeOK
    BY GotNamed, Answered DEF InterfaceInv, InterfaceTypeOK, FromClient, FromDocs
  <1> QED BY <1>1, InterfaceInitInv, InterfaceNextKeeps, PTL DEF InterfaceSpec

\* Every request of the clients reaches its handler and what it names, for every
\* name of a provider, a version, a kind and an entity, the reserved names excepted.
THEOREM ClientCorrect == InterfaceSpec => []ClientIsServed
  BY InterfaceInitInv, InterfaceNextKeeps, InterfaceInvImplies, PTL DEF InterfaceSpec

\* So does every request that the documentation describes, as long as it is that of
\* the description the engine has.
THEOREM DocumentedCorrect == InterfaceSpec => []DocumentedIsServed
  BY InterfaceInitInv, InterfaceNextKeeps, InterfaceInvImplies, PTL DEF InterfaceSpec

------------------------------------------------------------------------------
(* The parts next to each other                                                 *)

\* A step of EngineInterface is, for each part, a step of it or none.
LEMMA StepOfParts ==
    ASSUME [Next]_vars
    PROVE  /\ [ValidatorNext]_validatorVars
           /\ [InterfaceNext]_interfaceVars
           /\ [ProceduresNext]_procedureVars
           /\ part' = part
  <1>1. CASE UNCHANGED vars
    BY <1>1 DEF vars
  <1>2. CASE Others("validation") /\ ValidatorNext
    BY <1>2 DEF Others
  <1>3. CASE Others("api") /\ InterfaceNext
    BY <1>3 DEF Others
  <1>4. CASE Others("failures") /\ ProceduresNext
    BY <1>4 DEF Others
  <1> QED BY <1>1, <1>2, <1>3, <1>4 DEF Next

\* What EngineInterface does implements what each part may do alone.
THEOREM InterfaceImplementsParts == Spec => ValidatorSpec /\ InterfaceSpec /\ ProceduresSpec
  <1>1. Init => ValidatorInit /\ InterfaceInit /\ ProceduresInit
    BY DEF Init
  <1> QED BY <1>1, StepOfParts, PTL DEF Spec, ValidatorSpec, InterfaceSpec, ProceduresSpec

\* The variables of every part have their types.
THEOREM PartsTypeCorrect == Spec => []TypeOK
  <1>1. Spec => [](part \in Parts)
    <2>1. Init => part \in Parts
      BY DEF Init
    <2>2. part \in Parts /\ [Next]_vars => (part \in Parts)'
      BY StepOfParts
    <2> QED BY <2>1, <2>2, PTL DEF Spec
  <1>2. TypeOK <=> (part \in Parts) /\ ValidatorTypeOK /\ InterfaceTypeOK /\ ProceduresTypeOK
    BY DEF TypeOK
  <1> QED
    BY <1>1, <1>2, InterfaceImplementsParts, ValidatorTypeCorrect, InterfaceTypeCorrect,
       ProceduresTypeCorrect, PTL

\* Each property of a part is one of EngineInterface.
THEOREM PartsCorrect ==
    Spec => /\ [](SpecHasNoStatusOnly /\ StatusConforms /\ DocumentedAsValidated)
            /\ [](DocumentedIsServed /\ ClientIsServed /\ RefsLeadHome)
            /\ [](CodeSurvives /\ CauseIsNearest)
  BY InterfaceImplementsParts, SpecsCorrect, StatusesCorrect, DocumentationCorrect,
     DocumentedCorrect, ClientCorrect, RefsCorrect, CodeCorrect, CauseCorrect, PTL
=============================================================================
