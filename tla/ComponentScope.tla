--------------------------- MODULE ComponentScope ---------------------------
(***************************************************************************)
(* plugin.ComponentScope (plugin/module.go): the lifetime of one component *)
(* as its mutex, its context and its done channel implement it, used by    *)
(* any number of goroutines that register cleanups or close the scope.     *)
(*                                                                         *)
(* A critical section is one action, except where another goroutine can    *)
(* see what it does before the unlock: cancelling the context is a step    *)
(* of its own, and so is the append.  The nil function OnCleanup ignores   *)
(* changes nothing.  A cleanup's body is outside the model: it starts, and *)
(* later returns nil, returns an error or panics.                          *)
(***************************************************************************)
EXTENDS Integers, Sequences

CONSTANTS
    Cleanups,       \* the functions handed to OnCleanup, one registration each
    Closers,        \* the goroutines that call Close
    NoOwner         \* of an unlocked mutex

ASSUME ScopeAssumption ==
    /\ Cleanups \cap Closers = {}
    /\ NoOwner \notin Cleanups \cup Closers

VARIABLES
    mu,           \* who holds the mutex
    cancelled,    \* the lifetime context is done
    closed,
    cleanups,     \* registered, and not yet taken by a Close
    closeErr,     \* the failures the first Close joined
    done,         \* the channel is closed
    at,           \* per Close: where it is
    taken,        \* per Close: its local copy of the cleanups
    left,         \* per Close: how many of them it has still to run
    errs,         \* per Close: the failures it has collected
    result,       \* per Close: the failures it returned
    call,         \* per registration: where its OnCleanup is
    body          \* per cleanup: "waiting", "running" or how it ended

shared    == <<mu, cancelled, closed, cleanups, closeErr, done>>
closing   == <<at, taken, left, errs, result>>
scopeVars == <<shared, closing, call, body>>

(* Where a Close and an OnCleanup can be, and how a cleanup can end. *)
ClosePlaces == {"idle", "lock", "cancel", "mark", "run", "running", "signal", "wait", "returned"}
CallPlaces  == {"idle", "lock", "append", "registered", "run", "running", "ran late"}
Outcomes    == {"nil", "error", "panic"}

(* runCleanup: a cleanup that panics has failed. *)
RunCleanupFails(outcome) == outcome # "nil"

(* NewComponentScope. *)
ScopeInit ==
    /\ mu = NoOwner
    /\ cancelled = FALSE
    /\ closed = FALSE
    /\ cleanups = << >>
    /\ closeErr = {}
    /\ done = FALSE
    /\ at = [p \in Closers |-> "idle"]
    /\ taken = [p \in Closers |-> << >>]
    /\ left = [p \in Closers |-> 0]
    /\ errs = [p \in Closers |-> {}]
    /\ result = [p \in Closers |-> {}]
    /\ call = [f \in Cleanups |-> "idle"]
    /\ body = [f \in Cleanups |-> "waiting"]

(* Cancelling the parent context cancels the scope's, and runs nothing. *)
CancelParent ==
    /\ ~cancelled
    /\ cancelled' = TRUE
    /\ UNCHANGED <<mu, closed, cleanups, closeErr, done, closing, call, body>>
-----------------------------------------------------------------------------
(* OnCleanup(f), in the goroutine that registers f. *)
CallOnCleanup(f) ==
    /\ call[f] = "idle"
    /\ call' = [call EXCEPT ![f] = "lock"]
    /\ UNCHANGED <<shared, closing, body>>

(* Bug: closed is read without taking the mutex. *)
RegisterUnlocked(f) ==
    /\ call[f] = "lock"
    /\ ~closed
    /\ call' = [call EXCEPT ![f] = "append"]
    /\ UNCHANGED <<shared, closing, body>>

Register(f) ==
    /\ call[f] = "lock"
    /\ mu = NoOwner
    /\ ~closed
    /\ mu' = f
    /\ call' = [call EXCEPT ![f] = "append"]
    /\ UNCHANGED <<cancelled, closed, cleanups, closeErr, done, closing, body>>

AppendCleanup(f) ==
    /\ call[f] = "append"
    /\ cleanups' = Append(cleanups, f)
    /\ mu' = NoOwner
    /\ call' = [call EXCEPT ![f] = "registered"]
    /\ UNCHANGED <<cancelled, closed, closeErr, done, closing, body>>

RegisterLate(f) ==
    /\ call[f] = "lock"
    /\ mu = NoOwner
    /\ closed
    /\ call' = [call EXCEPT ![f] = "run"]
    /\ UNCHANGED <<shared, closing, body>>

RunLate(f) ==
    /\ call[f] = "run"
    /\ call' = [call EXCEPT ![f] = "running"]
    /\ body' = [body EXCEPT ![f] = "running"]
    /\ UNCHANGED <<shared, closing>>

(* The error of a late cleanup has no Close left to report it. *)
LateReturns(f, outcome) ==
    /\ call[f] = "running"
    /\ call' = [call EXCEPT ![f] = "ran late"]
    /\ body' = [body EXCEPT ![f] = outcome]
    /\ UNCHANGED <<shared, closing>>
-----------------------------------------------------------------------------
(* Close(), in goroutine p. *)
CallClose(p) ==
    /\ at[p] = "idle"
    /\ at' = [at EXCEPT ![p] = "lock"]
    /\ UNCHANGED <<shared, taken, left, errs, result, call, body>>

FirstClose(p) ==
    /\ at[p] = "lock"
    /\ mu = NoOwner
    /\ ~closed
    /\ mu' = p
    /\ at' = [at EXCEPT ![p] = "cancel"]
    /\ UNCHANGED <<cancelled, closed, cleanups, closeErr, done,
                   taken, left, errs, result, call, body>>

(* Bug: the context is left to the parent to cancel. *)
CloseWithoutCancel(p) ==
    /\ at[p] = "cancel"
    /\ at' = [at EXCEPT ![p] = "mark"]
    /\ UNCHANGED <<shared, taken, left, errs, result, call, body>>

CloseCancels(p) ==
    /\ at[p] = "cancel"
    /\ cancelled' = TRUE
    /\ at' = [at EXCEPT ![p] = "mark"]
    /\ UNCHANGED <<mu, closed, cleanups, closeErr, done,
                   taken, left, errs, result, call, body>>

CloseTakesCleanups(p) ==
    /\ at[p] = "mark"
    /\ closed' = TRUE
    /\ taken' = [taken EXCEPT ![p] = cleanups]
    /\ left' = [left EXCEPT ![p] = Len(cleanups)]
    /\ cleanups' = << >>
    /\ mu' = NoOwner
    /\ at' = [at EXCEPT ![p] = "run"]
    /\ UNCHANGED <<cancelled, closeErr, done, errs, result, call, body>>

NextToRun(p) == taken[p][left[p]]

RunCleanup(p) ==
    /\ at[p] = "run"
    /\ left[p] > 0
    /\ body' = [body EXCEPT ![NextToRun(p)] = "running"]
    /\ at' = [at EXCEPT ![p] = "running"]
    /\ UNCHANGED <<shared, taken, left, errs, result, call>>

CleanupReturns(p, outcome) ==
    /\ at[p] = "running"
    /\ body' = [body EXCEPT ![NextToRun(p)] = outcome]
    /\ errs' = [errs EXCEPT ![p] =
                   IF RunCleanupFails(outcome) THEN @ \cup {NextToRun(p)} ELSE @]
    /\ left' = [left EXCEPT ![p] = @ - 1]
    /\ at' = [at EXCEPT ![p] = "run"]
    /\ UNCHANGED <<shared, taken, result, call>>

CloseStoresError(p) ==
    /\ at[p] = "run"
    /\ left[p] = 0
    /\ mu = NoOwner
    /\ closeErr' = errs[p]
    /\ at' = [at EXCEPT ![p] = "signal"]
    /\ UNCHANGED <<mu, cancelled, closed, cleanups, done,
                   taken, left, errs, result, call, body>>

(* The deferred close(s.done) runs as the call returns. *)
CloseReturns(p) ==
    /\ at[p] = "signal"
    /\ done' = TRUE
    /\ result' = [result EXCEPT ![p] = errs[p]]
    /\ at' = [at EXCEPT ![p] = "returned"]
    /\ UNCHANGED <<mu, cancelled, closed, cleanups, closeErr,
                   taken, left, errs, call, body>>

AnotherClose(p) ==
    /\ at[p] = "lock"
    /\ mu = NoOwner
    /\ closed
    /\ at' = [at EXCEPT ![p] = "wait"]
    /\ UNCHANGED <<shared, taken, left, errs, result, call, body>>

(* Bug: a later Close reads the error without waiting for the first. *)
AnotherCloseReturnsEarly(p) ==
    /\ at[p] = "wait"
    /\ result' = [result EXCEPT ![p] = closeErr]
    /\ at' = [at EXCEPT ![p] = "returned"]
    /\ UNCHANGED <<shared, taken, left, errs, call, body>>

AnotherCloseReturns(p) ==
    /\ at[p] = "wait"
    /\ done
    /\ result' = [result EXCEPT ![p] = closeErr]
    /\ at' = [at EXCEPT ![p] = "returned"]
    /\ UNCHANGED <<shared, taken, left, errs, call, body>>
-----------------------------------------------------------------------------
OnCleanup(f) ==
    \/ Register(f)
    \/ AppendCleanup(f)
    \/ RegisterLate(f)
    \/ RunLate(f)
    \/ \E outcome \in Outcomes : LateReturns(f, outcome)

Close(p) ==
    \/ FirstClose(p)
    \/ CloseCancels(p)
    \/ CloseTakesCleanups(p)
    \/ RunCleanup(p)
    \/ \E outcome \in Outcomes : CleanupReturns(p, outcome)
    \/ CloseStoresError(p)
    \/ CloseReturns(p)
    \/ AnotherClose(p)
    \/ AnotherCloseReturns(p)

ScopeNext ==
    \/ CancelParent
    \/ \E f \in Cleanups : CallOnCleanup(f) \/ OnCleanup(f)
    \/ \E p \in Closers : CallClose(p) \/ Close(p)

ScopeSpec == ScopeInit /\ [][ScopeNext]_scopeVars

(* A goroutine that can take a step takes one, and a cleanup that has started
   returns.  Nobody has to call OnCleanup or Close. *)
FairScopeSpec ==
    /\ ScopeSpec
    /\ \A f \in Cleanups : WF_scopeVars(OnCleanup(f))
    /\ \A p \in Closers : WF_scopeVars(Close(p))
-----------------------------------------------------------------------------
ScopeTypeOK ==
    /\ mu \in {NoOwner} \cup Cleanups \cup Closers
    /\ cancelled \in BOOLEAN
    /\ closed \in BOOLEAN
    /\ cleanups \in Seq(Cleanups)
    /\ closeErr \in SUBSET Cleanups
    /\ done \in BOOLEAN
    /\ at \in [Closers -> ClosePlaces]
    /\ taken \in [Closers -> Seq(Cleanups)]
    /\ left \in [Closers -> Nat]
    /\ errs \in [Closers -> SUBSET Cleanups]
    /\ result \in [Closers -> SUBSET Cleanups]
    /\ call \in [Cleanups -> CallPlaces]
    /\ body \in [Cleanups -> {"waiting", "running"} \cup Outcomes]

(* Every cleanup the lifetime accepted, in registration order: still in the
   scope, or in the hands of the Close that took them. *)
Accepted ==
    IF \E p \in Closers : taken[p] # << >>
    THEN taken[CHOOSE p \in Closers : taken[p] # << >>]
    ELSE cleanups

(* No cleanup runs, on time or late, before the lifetime context is cancelled:
   a goroutine that watches the context stops before its resources go
   (module.go:131, TestComponentScopeContextEndsWithTheLifetime). *)
NoCleanupBeforeCancel ==
    \A f \in Cleanups : body[f] # "waiting" => cancelled

(* A cleanup starts only when every one registered after it has returned,
   whatever registrations and closes race. *)
ReverseRegistrationOrder ==
    \A i, j \in DOMAIN Accepted :
        i < j /\ body[Accepted[i]] # "waiting" => body[Accepted[j]] \in Outcomes

(* Every Close that returns, first or not, finds every accepted cleanup done
   and reports exactly those that returned an error or panicked: no caller
   sees success while cleanups are still running. *)
CloseReportsEveryFailure ==
    \A p \in Closers : at[p] = "returned" =>
        /\ \A i \in DOMAIN Accepted : body[Accepted[i]] \in Outcomes
        /\ result[p] = {Accepted[i] : i \in
               {k \in DOMAIN Accepted : body[Accepted[k]] \in {"error", "panic"}}}

Promise == INSTANCE Lifetime WITH
    ended <- closed, accepted <- Accepted, fate <- body,
    returned <- {p \in Closers : at[p] = "returned"}, reported <- result

(* The scope keeps the promise of the abstract lifetime: nothing is accepted
   after the end, nothing runs before it, each cleanup runs once. *)
ImplementsLifetime == Promise!Spec

(* A Close that is called returns, whoever else registers and closes. *)
EveryCloseReturns ==
    \A p \in Closers : at[p] = "lock" ~> at[p] = "returned"

(* Once a Close has begun, every function handed to OnCleanup, before or
   after, runs to its end: no registration falls between the two. *)
EveryCleanupRuns ==
    \A f \in Cleanups : closed /\ call[f] # "idle" ~> body[f] \in Outcomes

(* Neither a Close nor a registration that meets one is left hanging. *)
EveryCallEnds == EveryCloseReturns /\ EveryCleanupRuns
=============================================================================
