-------------------------- MODULE ManagedComponent --------------------------
(***************************************************************************)
(* A managed plugin process, as runtime/module.go runs it: ServeModule's   *)
(* main goroutine, the lazily constructed component (lazyComponent), the   *)
(* requests that wait for it, and the ComponentScope that ends with the    *)
(* process.                                                                *)
(*                                                                         *)
(* The component author's constructor and the transport (go-plugin, grpc)  *)
(* are outside the repository.  A constructor registers a cleanup right    *)
(* after it acquires each resource, as OnCleanup asks, and then returns,   *)
(* fails or panics, at any time or never.  A transport that stops cancels  *)
(* the requests it serves and does not wait for their handlers.            *)
(***************************************************************************)
EXTENDS Integers, Sequences

CONSTANTS
    Resources,    \* what the constructor acquires, one cleanup each
    Requests,     \* the protocol calls that need the component
    Main,         \* ServeModule's goroutine, the only one that closes the scope
    NoOwner

ASSUME ManagedAssumption ==
    /\ Main \notin Resources
    /\ NoOwner \notin Resources \cup {Main}

VARIABLES
    mu, cancelled, closed, cleanups, closeErr, done,    \* the component's scope
    at, taken, left, errs, result, call, body,
    process,      \* "serving", "closing", "exited" or "killed"
    construction, \* "unstarted", "running" or its outcome, once l.done is closed
    acquired,     \* the resources the constructor holds or held
    request,      \* per request: where it is
    ctxDone       \* the requests whose own context is done

Scope == INSTANCE ComponentScope WITH Cleanups <- Resources, Closers <- {Main}

managing == <<process, construction, acquired, request, ctxDone>>
scopeVars == <<mu, cancelled, closed, cleanups, closeErr, done,
               at, taken, left, errs, result, call, body>>
vars == <<scopeVars, managing>>

Constructed == {"component", "failed", "cancelled"}
Alive == process \in {"serving", "closing"}

(* newManagedHostContext, and an adapter that has constructed nothing. *)
Init ==
    /\ Scope!ScopeInit
    /\ process = "serving"
    /\ construction = "unstarted"
    /\ acquired = {}
    /\ request = [r \in Requests |-> "idle"]
    /\ ctxDone = {}
-----------------------------------------------------------------------------
(* A handler enters lazyComponent.get; the first one starts the constructor
   on a goroutine of its own.  A handler may get here after the transport
   stopped, with its context already done. *)
Get(r) ==
    /\ Alive
    /\ request[r] = "idle"
    /\ construction' = IF construction = "unstarted" THEN "running" ELSE construction
    /\ request' = [request EXCEPT ![r] = "waiting"]
    /\ UNCHANGED <<scopeVars, process, acquired, ctxDone>>

(* Its select, when construction is over: the component, or its error. *)
GetReturns(r) ==
    /\ Alive
    /\ request[r] = "waiting"
    /\ construction \in Constructed
    /\ request' = [request EXCEPT ![r] =
                      IF construction = "component" THEN "using" ELSE "failed"]
    /\ UNCHANGED <<scopeVars, process, construction, acquired, ctxDone>>

(* Its select, when the request's own context is over: the wait is abandoned,
   the construction is not. *)
GiveUp(r) ==
    /\ Alive
    /\ request[r] = "waiting"
    /\ r \in ctxDone
    /\ request' = [request EXCEPT ![r] = "failed"]
    /\ UNCHANGED <<scopeVars, process, construction, acquired, ctxDone>>

Answer(r) ==
    /\ Alive
    /\ request[r] = "using"
    /\ request' = [request EXCEPT ![r] = "answered"]
    /\ UNCHANGED <<scopeVars, process, construction, acquired, ctxDone>>

(* The caller gives up on the request, or the transport ends it. *)
EndContext(r) ==
    /\ Alive
    /\ ctxDone' = ctxDone \cup {r}
    /\ UNCHANGED <<scopeVars, process, construction, acquired, request>>
-----------------------------------------------------------------------------
(* Bug: the component is constructed under the context of a request. *)
ConstructorContextIsARequests == ctxDone # {}

(* construct runs under the component's lifetime, not a request's. *)
ConstructorContextDone == cancelled

(* The constructor's goroutine is not inside an OnCleanup call, and has
   registered a cleanup for everything it holds. *)
BetweenCalls == \A f \in acquired : call[f] \in {"registered", "ran late"}

Acquire(f) ==
    /\ Alive
    /\ construction = "running"
    /\ BetweenCalls
    /\ f \notin acquired
    /\ acquired' = acquired \cup {f}
    /\ UNCHANGED <<scopeVars, process, construction, request, ctxDone>>

CallOnCleanup(f) ==
    /\ Alive
    /\ construction = "running"
    /\ f \in acquired
    /\ Scope!CallOnCleanup(f)
    /\ UNCHANGED managing

(* managedHostContext.OnCleanup is the scope's. *)
OnCleanup(f) ==
    /\ Alive
    /\ Scope!OnCleanup(f)
    /\ UNCHANGED managing

(* A panic is one of the ways to fail. *)
ConstructorReturns(outcome) ==
    /\ Alive
    /\ construction = "running"
    /\ BetweenCalls
    /\ outcome = "cancelled" => ConstructorContextDone
    /\ construction' = outcome
    /\ UNCHANGED <<scopeVars, process, acquired, request, ctxDone>>
-----------------------------------------------------------------------------
(* The host closes the connection: the transport stops serving, and with it
   every request it still serves; it waits for none of their handlers. *)
StopServing ==
    /\ process = "serving"
    /\ process' = "closing"
    /\ ctxDone' = Requests
    /\ UNCHANGED <<scopeVars, construction, acquired, request>>

CallClose ==
    /\ process = "closing"
    /\ Scope!CallClose(Main)
    /\ UNCHANGED managing

Close ==
    /\ Alive
    /\ Scope!Close(Main)
    /\ UNCHANGED managing

(* Bug: ServeModule returns as soon as Close has taken the cleanups. *)
ExitWithoutWaiting ==
    /\ process = "closing"
    /\ at[Main] \in {"run", "running", "signal", "returned"}
    /\ process' = "exited"
    /\ UNCHANGED <<scopeVars, construction, acquired, request, ctxDone>>

(* Bug: ServeModule waits for the constructor as well. *)
ExitAfterConstruction ==
    /\ process = "closing"
    /\ at[Main] = "returned"
    /\ construction # "running"
    /\ process' = "exited"
    /\ UNCHANGED <<scopeVars, construction, acquired, request, ctxDone>>

(* ServeModule returns once Close has, and the process with it: goroutines
   still running, the constructor's among them, end where they are. *)
Exit ==
    /\ process = "closing"
    /\ at[Main] = "returned"
    /\ process' = "exited"
    /\ UNCHANGED <<scopeVars, construction, acquired, request, ctxDone>>

(* The grace period is over, or the process is killed outright. *)
Kill ==
    /\ Alive
    /\ process' = "killed"
    /\ UNCHANGED <<scopeVars, construction, acquired, request, ctxDone>>

Next ==
    \/ \E r \in Requests :
          Get(r) \/ GetReturns(r) \/ GiveUp(r) \/ Answer(r) \/ EndContext(r)
    \/ \E f \in Resources : Acquire(f) \/ CallOnCleanup(f) \/ OnCleanup(f)
    \/ \E outcome \in Constructed : ConstructorReturns(outcome)
    \/ StopServing \/ CallClose \/ Close \/ Exit \/ Kill

(* ServeModule, a waiting handler and an OnCleanup call go on when they can,
   and a cleanup that started returns.  A constructor may never return, a
   request may never end and the host may never close the connection. *)
Spec ==
    /\ Init
    /\ [][Next]_vars
    /\ WF_vars(CallClose \/ Close \/ Exit)
    /\ \A f \in Resources : WF_vars(OnCleanup(f))
    /\ \A r \in Requests : WF_vars(GetReturns(r) \/ GiveUp(r))
-----------------------------------------------------------------------------
TypeOK ==
    /\ Scope!ScopeTypeOK
    /\ process \in {"serving", "closing", "exited", "killed"}
    /\ construction \in {"unstarted", "running"} \cup Constructed
    /\ acquired \in SUBSET Resources
    /\ request \in [Requests -> {"idle", "waiting", "using", "answered", "failed"}]
    /\ ctxDone \in SUBSET Requests

(* While the process serves, construction never sees its context cancelled and
   nothing it acquired is released, whatever becomes of the request that
   started it (lazyComponent's doc, TestLazyComponentOutlivesTheFirstRequest). *)
ComponentOutlivesRequests ==
    process = "serving" =>
        /\ construction # "cancelled"
        /\ \A f \in Resources : body[f] = "waiting"

(* A process that exits by itself has run every cleanup that was registered by
   the time its scope closed, however construction ended, and has heard of
   their failures. *)
ExitRunsRegisteredCleanups ==
    process = "exited" =>
        /\ \A f \in Resources : call[f] = "registered" => body[f] \in Scope!Outcomes
        /\ result[Main] = {f \in Resources :
               call[f] = "registered" /\ body[f] \in {"error", "panic"}}

(* README.md:54-56 and module.go:100-103: whatever the constructor handed to
   OnCleanup is released when the host shuts the plugin down, and a constructor
   cancelled mid-construction does not leak what it acquired late. *)
ExitRunsEveryCleanup ==
    process = "exited" =>
        \A f \in Resources : call[f] # "idle" => body[f] \in Scope!Outcomes

(* Once the host closes the connection the process ends, even when the
   constructor never returns and a request never does. *)
ShutdownEnds == process = "closing" ~> ~Alive

(* A handler waits for construction no longer than its request lasts, and no
   longer than construction does. *)
WaitIsBounded ==
    \A r \in Requests :
        request[r] = "waiting" /\ (r \in ctxDone \/ construction \in Constructed)
            ~> request[r] # "waiting" \/ ~Alive

(* Nobody waits for a constructor that hangs: not the host, not a handler. *)
EveryWaitEnds == ShutdownEnds /\ WaitIsBounded
=============================================================================
