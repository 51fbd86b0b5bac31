------------------------------ MODULE Procedures ------------------------------
(***************************************************************************)
(* A failure on its way back.  A client calls the engine; for a procedure,  *)
(* a constructor or a destructor the engine posts to a handler of the       *)
(* provider, which may call the engine again, and so on.  What fails below  *)
(* is turned into an HTTP answer by the engine (PapieaErrorResponseGener-   *)
(* ator), into another by the SDK (InvocationError), and back into an       *)
(* exception of the engine (ProcedureInvocationError, OnActionError).       *)
(*                                                                          *)
(* An exception is its class, its status when it has one of its own, and    *)
(* the classes of its causes.  Messages are left out.                       *)
(***************************************************************************)
EXTENDS Naturals, Sequences, SequencesExt

CONSTANTS
    OwnStatuses,  \* what handlers put into an InvocationError of their own
    NoError,      \* no answer yet, no failure, a body without an error
    MaxDepth      \* bound: calls in progress

VARIABLES
    calls,  \* the engine's requests in progress, the client's first
    at,     \* who is at work: "client", "engine", or the "handler" of the last call
    reply,  \* the engine's last answer, NoError when it was good or is dealt with
    fault   \* history: the failure reply tells of, and the calls it came through

procedureVars == <<calls, at, reply, fault>>

Requests == {"procedure", "constructor", "destructor", "operation"}

-----------------------------------------------------------------------------
(* Exceptions and answers                                                  *)

Exception(class, own, causes) == [class |-> class, own |-> own, causes |-> causes]

Simple(class) == Exception(class, 500, <<>>)

\* Mutant: no status for what is not an exception of papiea
StatusOfKnown(e) == IF e.class = "server_error" THEN 0 ELSE e.own

\* PapieaErrorResponseGenerator.create
StatusOf(e) ==
    CASE e.class \in {"bad_request_error", "validation_error"} -> 400
      [] e.class = "procedure_invocation_error" -> e.own
      [] e.class = "entity_not_found_error" -> 404
      [] e.class = "unauthorized_error" -> 401
      [] e.class = "permission_denied_error" -> 403
      [] e.class \in {"spec_conflicting_entity_error", "status_conflicting_entity_error"} -> 409
      [] OTHER -> 500

\* toResponse: what is not an exception of papiea has no type in the answer
Response(e) ==
    [status |-> StatusOf(e), type |-> IF e.class = "server_error" THEN NoError ELSE e.class,
     causes |-> IF e.class = "server_error" THEN <<>> ELSE e.causes]

\* Mutant: an exception of papiea whatever the cause says
Untyped(inner) == Simple("papiea_error")

\* convertAxiosErrorToEngineError: the cause keeps its type, and loses its own causes
ConvertError(inner) ==
    IF inner = NoError \/ inner.type = NoError THEN Simple("papiea_error")
    ELSE Exception(inner.type, inner.status, <<>>)

\* InvocationError: its status, and the error of the engine's answer in its cause
Invocation(status, inner) == [status |-> status, inner |-> inner]

\* Mutant: every failure of a handler is an internal one
Internal(call, got) ==
    IF call = "procedure"
    THEN Exception("procedure_invocation_error", 500, <<ConvertError(got.inner).class>>)
    ELSE Simple("on_action_error")

\* ProcedureInvocationError.fromError, and the constructor and the destructor
AxiosFailure(call, got) ==
    IF call = "procedure"
    THEN Exception("procedure_invocation_error", got.status, <<ConvertError(got.inner).class>>)
    ELSE Simple("on_action_error")

-----------------------------------------------------------------------------
ProceduresInit == calls = <<>> /\ at = "client" /\ reply = NoError /\ fault = NoError

Answers(r) ==
    /\ calls' = Front(calls)
    /\ at' = IF Len(calls) = 1 THEN "client" ELSE "handler"
    /\ reply' = r

Raise(e) ==
    /\ Answers(Response(e))
    /\ fault' = [status |-> StatusOf(e), type |-> Response(e).type, through |-> <<>>]

Call(request) ==
    /\ at \in {"client", "handler"}
    /\ reply = NoError
    /\ Len(calls) < MaxDepth
    /\ calls' = Append(calls, request)
    /\ at' = "engine"
    /\ UNCHANGED <<reply, fault>>

Anything == {"bad_request_error", "validation_error", "entity_not_found_error", "unauthorized_error",
             "permission_denied_error", "spec_conflicting_entity_error",
             "status_conflicting_entity_error", "papiea_error", "server_error"}

BadInput == Exception("procedure_invocation_error", 400, <<"validation_error">>)

\* What the engine finds wrong before it calls the handler
Refusals(call) ==
    CASE call = "operation" -> {Simple(class) : class \in Anything}
      [] call = "procedure" -> {Simple("entity_not_found_error"), Simple("permission_denied_error"),
                                Simple("papiea_error"), BadInput}
      [] call = "constructor" -> {Simple("unauthorized_error"), Simple("validation_error")}
      [] call = "destructor" -> {Simple("entity_not_found_error"), Simple("permission_denied_error")}

Refuse == at = "engine" /\ \E e \in Refusals(Last(calls)) : Raise(e)

Operate ==
    /\ at = "engine" /\ Last(calls) = "operation"
    /\ Answers(NoError)
    /\ UNCHANGED fault

Post ==
    /\ at = "engine" /\ Last(calls) # "operation"
    /\ at' = "handler"
    /\ UNCHANGED <<calls, reply, fault>>

\* The handler's server does not answer
Unreachable ==
    /\ at = "engine" /\ Last(calls) # "operation"
    /\ Raise(AxiosFailure(Last(calls), Invocation(500, NoError)))

Handling == at = "handler"

\* The handler lets the failure of its call through, as axios or SecurityApi threw it
PassOn ==
    /\ Handling /\ reply # NoError
    /\ Answers(Response(AxiosFailure(Last(calls), Invocation(reply.status, reply))))
    /\ fault' = [fault EXCEPT !.through = Append(@, Last(calls))]

\* The handler deals with it and goes on
Swallow ==
    /\ Handling /\ reply # NoError
    /\ reply' = NoError /\ fault' = NoError
    /\ UNCHANGED <<calls, at>>

\* Another error: of its own status, or any other, which is internal
Throw ==
    /\ Handling
    /\ \E status \in OwnStatuses \cup {500} : Raise(AxiosFailure(Last(calls), Invocation(status, NoError)))

\* What the engine finds wrong with the result, or when it saves or deletes the entity
Misresults(call) ==
    CASE call = "procedure" -> {Exception("procedure_invocation_error", 500, <<"validation_error">>)}
      [] call = "constructor" -> {Exception("on_action_error", 500, <<"validation_error">>),
                                  Simple("on_action_error"), Simple("spec_conflicting_entity_error")}
      [] call = "destructor" -> {Simple("entity_not_found_error")}

Return ==
    /\ Handling /\ reply = NoError
    /\ \/ Answers(NoError) /\ UNCHANGED fault
       \/ \E e \in Misresults(Last(calls)) : Raise(e)

\* The client has its answer and calls again
Again ==
    /\ at = "client" /\ reply # NoError
    /\ reply' = NoError /\ fault' = NoError
    /\ UNCHANGED <<calls, at>>

ProceduresNext ==
    \/ \E request \in Requests : Call(request)
    \/ Refuse \/ Operate \/ Post \/ Unreachable
    \/ PassOn \/ Swallow \/ Throw \/ Return \/ Again

ProceduresSpec == ProceduresInit /\ [][ProceduresNext]_procedureVars

-----------------------------------------------------------------------------
(* Properties                                                              *)

ErrorTypes == Anything \cup {"procedure_invocation_error", "on_action_error"}

Statuses == 400..599

Replies == [status : Statuses, type : ErrorTypes \cup {NoError}, causes : Seq(ErrorTypes)]

Faults == [status : Statuses, type : ErrorTypes \cup {NoError}, through : Seq(Requests)]

\* The status of an InvocationError is that of an HTTP error: the SDK does not
\* check it, and axios takes an answer of 2xx for no failure
ASSUME ProceduresAssumption ==
    /\ MaxDepth \in Nat
    /\ OwnStatuses \subseteq Statuses
    /\ NoError \notin Replies \cup Faults

\* The variables have their types.
ProceduresTypeOK ==
    /\ calls \in Seq(Requests) /\ Len(calls) <= MaxDepth
    /\ at \in {"client", "engine", "handler"}
    /\ reply \in Replies \cup {NoError}
    /\ fault \in Faults \cup {NoError}
    /\ (reply = NoError) <=> (fault = NoError)

\* A failure that the handlers let through reaches the caller with the status it
\* was raised with, however many procedures it came through; a constructor or a
\* destructor makes it 500.
CodeSurvives ==
    reply # NoError =>
        reply.status = IF Range(fault.through) \subseteq {"procedure"} THEN fault.status ELSE 500

\* Its type survives one procedure, as the cause, and a second one hides it: the
\* cause the caller sees is then that a procedure failed.
CauseIsNearest ==
    reply # NoError /\ fault.through # <<>> /\ Last(fault.through) = "procedure" =>
        LET n == Len(fault.through)
            raised == IF n = 1 THEN fault.type
                      ELSE IF fault.through[n - 1] = "procedure" THEN "procedure_invocation_error"
                      ELSE "on_action_error"
        IN  reply.causes = <<IF raised = NoError THEN "papiea_error" ELSE raised>>
=============================================================================
