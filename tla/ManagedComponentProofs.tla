----------------------- MODULE ManagedComponentProofs -----------------------
(***************************************************************************)
(* What a managed plugin process keeps true for any number of resources    *)
(* and requests: the component outlives the requests that use it, and an   *)
(* orderly exit has run what was registered in time.                       *)
(*                                                                         *)
(* The scope has one closer here and no parent to cancel it, so its state  *)
(* follows from where ServeModule's goroutine is: that is the first half   *)
(* of the invariant.  The second half says where each registered cleanup   *)
(* is and how far the run of what Close took has come.                     *)
(***************************************************************************)
EXTENDS ManagedComponent, TLAPS

(* Before Close there is no cancellation, and before its critical section ends
   nothing is closed. *)
Cancelling == {"mark", "run", "running", "signal", "returned"}
Closing == {"run", "running", "signal", "returned"}

Typed ==
    /\ cleanups \in Seq(Resources)
    /\ at \in [{Main} -> {"idle", "lock", "cancel"} \cup Cancelling]
    /\ taken \in [{Main} -> Seq(Resources)]
    /\ left \in [{Main} -> Nat]
    /\ errs \in [{Main} -> SUBSET Resources]
    /\ result \in [{Main} -> SUBSET Resources]
    /\ call \in [Resources -> Scope!CallPlaces]
    /\ body \in [Resources -> {"waiting", "running"} \cup Scope!Outcomes]

(* What the place of ServeModule's goroutine says about the shared state. *)
FollowsMain ==
    /\ cancelled <=> at[Main] \in Cancelling
    /\ closed <=> at[Main] \in Closing
    /\ at[Main] \in {"cancel", "mark"} <=> mu = Main
    /\ \A f \in Resources : call[f] = "append" <=> mu = f
    /\ \A f \in Resources : call[f] = "append" => ~closed
    /\ process = "serving" => at[Main] = "idle"
    /\ process = "exited" => at[Main] = "returned"
    /\ construction = "cancelled" => cancelled
    /\ \A f \in Resources : call[f] \in {"run", "running", "ran late"} => closed
    /\ \A f \in Resources : body[f] # "waiting" => closed

InHand == IF closed THEN taken[Main] ELSE cleanups

(* The registered cleanups are the ones in hand, each once. *)
RegisteredInHand ==
    /\ \A i \in 1 .. Len(InHand) : call[InHand[i]] = "registered"
    /\ \A i, j \in 1 .. Len(InHand) : InHand[i] = InHand[j] => i = j
    /\ \A f \in Resources : call[f] = "registered" => \E i \in 1 .. Len(InHand) : InHand[i] = f

(* How far the run of them has come, and what has been collected. *)
RunSoFar ==
    closed =>
        /\ left[Main] <= Len(taken[Main])
        /\ at[Main] = "running" => left[Main] > 0
        /\ at[Main] \in {"signal", "returned"} => left[Main] = 0
        /\ \A i \in 1 .. Len(taken[Main]) : i > left[Main] => body[taken[Main][i]] \in Scope!Outcomes
        /\ \A f \in Resources : f \in errs[Main] <=>
              /\ body[f] \in {"error", "panic"}
              /\ \E i \in 1 .. Len(taken[Main]) : i > left[Main] /\ taken[Main][i] = f

Collected ==
    /\ ~closed => errs[Main] = {}
    /\ at[Main] = "returned" => result[Main] = errs[Main]

ManagedInv ==
    /\ Typed
    /\ FollowsMain
    /\ RegisteredInHand
    /\ RunSoFar
    /\ Collected
-----------------------------------------------------------------------------
(* A step of a request, of the constructor between its calls, of the transport
   or of the end of the process leaves the scope alone. *)
Outside ==
    /\ UNCHANGED scopeVars
    /\ process' = "serving" => process = "serving"
    /\ process' = "exited" => process = "exited" \/ at[Main] = "returned"
    /\ construction' = "cancelled" => construction = "cancelled" \/ cancelled

(* The steps of the process, by what they do to the scope. *)
LEMMA StepKinds ==
    ASSUME [Next]_vars
    PROVE  \/ Outside
           \/ UNCHANGED managing /\ \E f \in Resources : Scope!CallOnCleanup(f) \/ Scope!OnCleanup(f)
           \/ UNCHANGED managing /\ ((process = "closing" /\ Scope!CallClose(Main)) \/ Scope!Close(Main))
  <1>1. CASE UNCHANGED vars
    BY <1>1 DEF vars, managing, Outside
  <1>2. ASSUME NEW r \in Requests, Get(r) \/ GetReturns(r) \/ GiveUp(r) \/ Answer(r) \/ EndContext(r)
        PROVE  Outside
    BY <1>2 DEF Get, GetReturns, GiveUp, Answer, EndContext, Outside
  <1>3. ASSUME NEW f \in Resources, Acquire(f) PROVE Outside
    BY <1>3 DEF Acquire, Outside
  <1>4. ASSUME NEW f \in Resources, CallOnCleanup(f) \/ OnCleanup(f)
        PROVE  UNCHANGED managing /\ (Scope!CallOnCleanup(f) \/ Scope!OnCleanup(f))
    BY <1>4 DEF CallOnCleanup, OnCleanup
  <1>5. ASSUME NEW outcome \in Constructed, ConstructorReturns(outcome) PROVE Outside
    BY <1>5 DEF ConstructorReturns, ConstructorContextDone, Outside
  <1>6. CASE StopServing \/ Exit \/ Kill
    BY <1>6 DEF StopServing, Exit, Kill, Alive, Outside
  <1>7. CASE CallClose \/ Close
    BY <1>7 DEF CallClose, Close
  <1>8. QED BY <1>1, <1>2, <1>3, <1>4, <1>5, <1>6, <1>7 DEF Next
-----------------------------------------------------------------------------
(* A step that leaves the scope alone keeps the invariant. *)
LEMMA OutsideStep ==
    ASSUME ManagedInv, Outside PROVE ManagedInv'
  <1>1. UNCHANGED <<mu, cancelled, closed, cleanups, closeErr, done, at, taken, left, errs, result, call, body>>
    BY DEF Outside, scopeVars
  <1>2. Typed' /\ Collected' /\ RunSoFar'
    BY <1>1 DEF ManagedInv, Typed, Collected, RunSoFar
  <1>3. RegisteredInHand'
    BY <1>1 DEF ManagedInv, RegisteredInHand, InHand
  <1>4. FollowsMain'
    BY <1>1 DEF ManagedInv, FollowsMain, Outside, Cancelling
  <1>5. QED BY <1>2, <1>3, <1>4 DEF ManagedInv

(* Registering a cleanup, and running one that came too late. *)
LEMMA OnCleanupStep ==
    ASSUME ManagedInv, UNCHANGED managing, NEW f \in Resources, Scope!CallOnCleanup(f) \/ Scope!OnCleanup(f)
    PROVE  ManagedInv'
  <1>t. /\ cleanups \in Seq(Resources) /\ taken[Main] \in Seq(Resources)
        /\ call \in [Resources -> Scope!CallPlaces]
        /\ body \in [Resources -> {"waiting", "running"} \cup Scope!Outcomes]
        /\ FollowsMain /\ RegisteredInHand /\ RunSoFar /\ Collected /\ Typed
    BY DEF ManagedInv, Typed
  <1>m. process' = process /\ construction' = construction
    BY DEF managing
  <1>e. \A i \in 1 .. Len(InHand) : InHand[i] \in Resources
    BY <1>t DEF InHand
  <1>1. CASE Scope!CallOnCleanup(f) \/ Scope!Register(f) \/ Scope!RegisterLate(f)
    <2>1. /\ UNCHANGED <<cancelled, closed, cleanups, at, taken, left, errs, result, body>>
          /\ call[f] \in {"idle", "lock"}
          /\ \/ call' = [call EXCEPT ![f] = "lock"] /\ mu' = mu
             \/ call' = [call EXCEPT ![f] = "append"] /\ mu = NoOwner /\ mu' = f /\ ~closed
             \/ call' = [call EXCEPT ![f] = "run"] /\ mu' = mu /\ closed
      BY <1>1 DEF Scope!CallOnCleanup, Scope!Register, Scope!RegisterLate, Scope!shared, Scope!closing
    <2>2. Typed' /\ RunSoFar' /\ Collected'
      BY <1>t, <2>1 DEF Typed, RunSoFar, Collected, Scope!CallPlaces
    <2>3. FollowsMain'
      BY <1>t, <1>m, <2>1, ManagedAssumption DEF FollowsMain, Typed
    <2>4. \A g \in Resources : call'[g] = "registered" <=> call[g] = "registered"
      BY <1>t, <2>1
    <2>5. InHand' = InHand
      BY <2>1 DEF InHand
    <2>6. RegisteredInHand'
      BY <1>t, <1>e, <2>4, <2>5 DEF RegisteredInHand
    <2>7. QED BY <2>2, <2>3, <2>6 DEF ManagedInv
  <1>2. CASE Scope!AppendCleanup(f)
    <2>1. /\ UNCHANGED <<cancelled, closed, at, taken, left, errs, result, body>>
          /\ call[f] = "append" /\ call' = [call EXCEPT ![f] = "registered"]
          /\ cleanups' = Append(cleanups, f) /\ mu' = NoOwner
      BY <1>2 DEF Scope!AppendCleanup, Scope!closing
    <2>2. mu = f /\ ~closed
      BY <1>t, <2>1 DEF FollowsMain
    <2>3. /\ Len(cleanups) \in Nat /\ Len(cleanups') = Len(cleanups) + 1
          /\ cleanups' \in Seq(Resources)
          /\ \A i \in 1 .. Len(cleanups) : cleanups'[i] = cleanups[i]
          /\ cleanups'[Len(cleanups) + 1] = f
      BY <1>t, <2>1
    <2>4. InHand = cleanups /\ InHand' = cleanups'
      BY <2>1, <2>2 DEF InHand
    <2>5. Typed' /\ RunSoFar' /\ Collected'
      BY <1>t, <2>1, <2>2, <2>3 DEF Typed, RunSoFar, Collected, Scope!CallPlaces
    <2>6. FollowsMain'
      BY <1>t, <1>m, <2>1, <2>2, ManagedAssumption DEF FollowsMain, Typed
    <2>7. \A i \in 1 .. Len(cleanups) : cleanups[i] # f /\ call'[cleanups[i]] = "registered"
      BY <1>t, <1>e, <2>1, <2>4 DEF RegisteredInHand
    <2>8. \A i \in 1 .. Len(cleanups') : i \in 1 .. Len(cleanups) \/ i = Len(cleanups) + 1
      BY <2>3
    <2>9. \A i \in 1 .. Len(cleanups') : call'[cleanups'[i]] = "registered"
      BY <1>t, <2>1, <2>3, <2>7, <2>8
    <2>10. \A i, j \in 1 .. Len(cleanups') : cleanups'[i] = cleanups'[j] => i = j
      BY <1>t, <2>3, <2>4, <2>7, <2>8 DEF RegisteredInHand
    <2>11. ASSUME NEW g \in Resources, call'[g] = "registered"
           PROVE  \E i \in 1 .. Len(cleanups') : cleanups'[i] = g
      <3>1. CASE g = f
        BY <2>3, <3>1
      <3>2. CASE g # f
        <4>1. PICK i \in 1 .. Len(cleanups) : cleanups[i] = g
          BY <1>t, <2>1, <2>4, <2>11, <3>2 DEF RegisteredInHand
        <4>2. QED BY <2>3, <4>1
      <3>3. QED BY <3>1, <3>2
    <2>12. RegisteredInHand'
      BY <2>4, <2>9, <2>10, <2>11 DEF RegisteredInHand
    <2>13. QED BY <2>5, <2>6, <2>12 DEF ManagedInv
  <1>3. CASE Scope!RunLate(f) \/ \E outcome \in Scope!Outcomes : Scope!LateReturns(f, outcome)
    <2>1. /\ UNCHANGED <<mu, cancelled, closed, cleanups, at, taken, left, errs, result>>
          /\ call[f] \in {"run", "running"}
          /\ \E c \in {"running", "ran late"}, b \in {"running"} \cup Scope!Outcomes :
                call' = [call EXCEPT ![f] = c] /\ body' = [body EXCEPT ![f] = b]
      BY <1>3 DEF Scope!RunLate, Scope!LateReturns, Scope!shared, Scope!closing
    <2>2. closed /\ InHand = taken[Main] /\ InHand' = taken[Main]
      BY <1>t, <2>1 DEF FollowsMain, InHand
    <2>3. \A g \in Resources : call'[g] = "registered" <=> call[g] = "registered"
      BY <1>t, <2>1
    <2>4. RegisteredInHand'
      BY <1>t, <1>e, <2>2, <2>3 DEF RegisteredInHand
    <2>5. \A i \in 1 .. Len(taken[Main]) : taken[Main][i] # f /\ taken[Main][i] \in Resources
      BY <1>t, <1>e, <2>1, <2>2 DEF RegisteredInHand
    <2>6. \A g \in Resources : g # f => body'[g] = body[g]
      BY <1>t, <2>1
    <2>7. RunSoFar'
      <3>1. \A i \in 1 .. Len(taken[Main]) : body'[taken[Main][i]] = body[taken[Main][i]]
        BY <2>5, <2>6
      <3>2. ASSUME NEW g \in Resources
            PROVE  g \in errs[Main] <=>
                     /\ body'[g] \in {"error", "panic"}
                     /\ \E i \in 1 .. Len(taken[Main]) : i > left[Main] /\ taken[Main][i] = g
        BY <1>t, <2>2, <2>5, <2>6 DEF RunSoFar
      <3>3. QED BY <1>t, <2>1, <2>2, <3>1, <3>2 DEF RunSoFar
    <2>8. Typed' /\ Collected'
      BY <1>t, <2>1 DEF Typed, Collected, Scope!CallPlaces
    <2>9. FollowsMain'
      BY <1>t, <1>m, <2>1, <2>2 DEF FollowsMain
    <2>10. QED BY <2>4, <2>7, <2>8, <2>9 DEF ManagedInv
  <1>4. QED BY <1>1, <1>2, <1>3 DEF Scope!OnCleanup
-----------------------------------------------------------------------------
(* Close on its way to the cleanups and on its way out. *)
LEMMA CloseAround ==
    ASSUME ManagedInv, UNCHANGED managing,
           \/ process = "closing" /\ Scope!CallClose(Main)
           \/ Scope!FirstClose(Main) \/ Scope!CloseCancels(Main)
           \/ Scope!CloseStoresError(Main) \/ Scope!CloseReturns(Main)
    PROVE  ManagedInv'
  <1>t. FollowsMain /\ RegisteredInHand /\ RunSoFar /\ Collected /\ Typed
    BY DEF ManagedInv
  <1>a. at \in [{Main} -> {"idle", "lock", "cancel"} \cup Cancelling] /\ result \in [{Main} -> SUBSET Resources]
        /\ errs[Main] \in SUBSET Resources
    BY <1>t DEF Typed
  <1>m. process' = process /\ construction' = construction
    BY DEF managing
  <1>1. UNCHANGED <<closed, cleanups, taken, left, errs, call, body>>
    BY DEF Scope!CallClose, Scope!FirstClose, Scope!CloseCancels, Scope!CloseStoresError, Scope!CloseReturns,
           Scope!shared
  <1>2. \/ /\ process = "closing" /\ at[Main] = "idle" /\ at'[Main] = "lock"
           /\ at' \in [{Main} -> {"lock"}] /\ UNCHANGED <<mu, cancelled, result>>
        \/ /\ at[Main] = "lock" /\ at'[Main] = "cancel" /\ mu = NoOwner /\ mu' = Main
           /\ at' \in [{Main} -> {"cancel"}] /\ UNCHANGED <<cancelled, result>>
        \/ /\ at[Main] = "cancel" /\ at'[Main] = "mark" /\ cancelled' = TRUE
           /\ at' \in [{Main} -> {"mark"}] /\ UNCHANGED <<mu, result>>
        \/ /\ at[Main] = "run" /\ at'[Main] = "signal" /\ left[Main] = 0
           /\ at' \in [{Main} -> {"signal"}] /\ UNCHANGED <<mu, cancelled, result>>
        \/ /\ at[Main] = "signal" /\ at'[Main] = "returned" /\ result'[Main] = errs[Main]
           /\ result' \in [{Main} -> SUBSET Resources]
           /\ at' \in [{Main} -> {"returned"}] /\ UNCHANGED <<mu, cancelled>>
    BY <1>a DEF Scope!CallClose, Scope!FirstClose, Scope!CloseCancels, Scope!CloseStoresError, Scope!CloseReturns,
           Scope!shared
  <1>3. Typed'
    BY <1>t, <1>1, <1>2 DEF Typed, Cancelling
  <1>4. FollowsMain'
    <2>1. /\ cancelled' <=> at'[Main] \in Cancelling
          /\ closed' <=> at'[Main] \in Closing
          /\ cancelled => cancelled'
      <3>1. (cancelled <=> at[Main] \in Cancelling) /\ (closed <=> at[Main] \in Closing) /\ closed' = closed
        BY <1>t, <1>1 DEF FollowsMain
      <3>2. at[Main] \in Closing <=> at'[Main] \in Closing
        BY <1>2 DEF Closing
      <3>3. CASE at[Main] = "cancel" /\ at'[Main] = "mark" /\ cancelled' = TRUE
        BY <3>1, <3>2, <3>3 DEF Cancelling
      <3>4. CASE cancelled' = cancelled /\ at[Main] # "cancel"
        <4>1. at[Main] \in Cancelling <=> at'[Main] \in Cancelling
          BY <1>2, <3>4 DEF Cancelling
        <4>2. QED BY <3>1, <3>2, <3>4, <4>1
      <3>5. QED BY <1>2, <3>3, <3>4
    <2>2. /\ at'[Main] \in {"cancel", "mark"} <=> mu' = Main
          /\ \A f \in Resources : call'[f] = "append" <=> mu' = f
      <3>1. /\ at[Main] \in {"cancel", "mark"} <=> mu = Main
            /\ \A f \in Resources : call[f] = "append" <=> mu = f
        BY <1>t DEF FollowsMain
      <3>2. CASE mu' = mu
        BY <1>1, <1>2, <3>1, <3>2, ManagedAssumption
      <3>3. CASE mu = NoOwner /\ mu' = Main /\ at'[Main] = "cancel"
        BY <1>1, <3>1, <3>3, ManagedAssumption
      <3>4. QED BY <1>2, <3>2, <3>3
    <2>3. /\ process' = "serving" => at'[Main] = "idle"
          /\ process' = "exited" => at'[Main] = "returned"
      BY <1>t, <1>m, <1>2 DEF FollowsMain
    <2>4. QED BY <1>t, <1>m, <1>1, <2>1, <2>2, <2>3 DEF FollowsMain
  <1>5. RegisteredInHand'
    BY <1>t, <1>1 DEF RegisteredInHand, InHand
  <1>6. RunSoFar' /\ Collected'
    BY <1>t, <1>1, <1>2 DEF RunSoFar, Collected, FollowsMain, Closing
  <1>7. QED BY <1>3, <1>4, <1>5, <1>6 DEF ManagedInv

(* The critical section in which Close takes the cleanups. *)
LEMMA CloseTakes ==
    ASSUME ManagedInv, UNCHANGED managing, Scope!CloseTakesCleanups(Main) PROVE ManagedInv'
  <1>t. FollowsMain /\ RegisteredInHand /\ RunSoFar /\ Collected /\ Typed
    BY DEF ManagedInv
  <1>m. process' = process /\ construction' = construction
    BY DEF managing
  <1>1. /\ at[Main] = "mark" /\ closed' = TRUE /\ cleanups' = << >> /\ mu' = NoOwner
        /\ UNCHANGED <<cancelled, errs, result, call, body>>
        /\ taken' = [taken EXCEPT ![Main] = cleanups]
        /\ left' = [left EXCEPT ![Main] = Len(cleanups)]
        /\ at' = [at EXCEPT ![Main] = "run"]
    BY DEF Scope!CloseTakesCleanups
  <1>2. cleanups \in Seq(Resources) /\ Len(cleanups) \in Nat
    BY <1>t DEF Typed
  <1>3. taken'[Main] = cleanups /\ left'[Main] = Len(cleanups) /\ at'[Main] = "run"
    BY <1>t, <1>1 DEF Typed
  <1>4. ~closed /\ mu = Main
    BY <1>t, <1>1 DEF FollowsMain, Closing
  <1>5. Typed'
    <2>1. /\ at' \in [{Main} -> {"idle", "lock", "cancel"} \cup Cancelling]
          /\ taken' \in [{Main} -> Seq(Resources)] /\ left' \in [{Main} -> Nat]
      BY <1>t, <1>1, <1>2 DEF Typed, Cancelling
    <2>2. QED BY <1>t, <1>1, <2>1 DEF Typed
  <1>6. \A f \in Resources : call[f] # "append"
    BY <1>t, <1>4, ManagedAssumption DEF FollowsMain
  <1>7. FollowsMain'
    BY <1>t, <1>m, <1>1, <1>3, <1>6, ManagedAssumption DEF FollowsMain, Cancelling, Closing
  <1>8. InHand = cleanups /\ InHand' = cleanups
    BY <1>1, <1>3, <1>4 DEF InHand
  <1>9. RegisteredInHand'
    BY <1>t, <1>1, <1>8 DEF RegisteredInHand
  <1>10. errs[Main] = {}
    BY <1>t, <1>4 DEF Collected
  <1>11. RunSoFar' /\ Collected'
    BY <1>1, <1>2, <1>3, <1>10 DEF RunSoFar, Collected
  <1>12. QED BY <1>5, <1>7, <1>9, <1>11 DEF ManagedInv

(* Close starts a cleanup, or has one return. *)
LEMMA CloseRuns ==
    ASSUME ManagedInv, UNCHANGED managing,
           Scope!RunCleanup(Main) \/ \E outcome \in Scope!Outcomes : Scope!CleanupReturns(Main, outcome)
    PROVE  ManagedInv'
  <1> DEFINE f == taken[Main][left[Main]]
  <1>t. FollowsMain /\ RegisteredInHand /\ RunSoFar /\ Collected /\ Typed
    BY DEF ManagedInv
  <1>m. process' = process /\ construction' = construction
    BY DEF managing
  <1>0. at[Main] \in {"run", "running"} /\ UNCHANGED <<mu, cancelled, closed, cleanups, taken, result, call>>
    BY DEF Scope!RunCleanup, Scope!CleanupReturns, Scope!shared
  <1>1. closed /\ left[Main] > 0 /\ left[Main] \in 1 .. Len(taken[Main])
    <2>1. closed
      BY <1>t, <1>0 DEF FollowsMain, Closing
    <2>2. left[Main] > 0
      BY <1>t, <2>1 DEF Scope!RunCleanup, Scope!CleanupReturns, RunSoFar
    <2>3. left[Main] \in Nat /\ Len(taken[Main]) \in Nat
      BY <1>t DEF Typed
    <2>4. QED BY <1>t, <2>1, <2>2, <2>3 DEF RunSoFar
  <1>2. InHand = taken[Main] /\ InHand' = taken[Main] /\ taken[Main] \in Seq(Resources)
    BY <1>t, <1>0, <1>1 DEF InHand, Typed
  <1>3. f \in Resources /\ \A i \in 1 .. Len(taken[Main]) : taken[Main][i] \in Resources /\ (taken[Main][i] = f => i = left[Main])
    BY <1>t, <1>1, <1>2 DEF RegisteredInHand
  <1>4. RegisteredInHand'
    BY <1>t, <1>0, <1>2 DEF RegisteredInHand
  <1>5. CASE Scope!RunCleanup(Main)
    <2>1. /\ body' = [body EXCEPT ![f] = "running"] /\ at' = [at EXCEPT ![Main] = "running"]
          /\ UNCHANGED <<left, errs>> /\ at[Main] = "run"
      BY <1>5 DEF Scope!RunCleanup, Scope!NextToRun
    <2>2. at'[Main] = "running" /\ Typed'
      BY <1>t, <1>0, <1>3, <2>1 DEF Typed, Cancelling
    <2>3. \A g \in Resources : g # f => body'[g] = body[g]
      BY <1>t, <2>1 DEF Typed
    <2>4. FollowsMain'
      BY <1>t, <1>m, <1>0, <1>1, <2>1, <2>2, <2>3 DEF FollowsMain, Cancelling, Closing
    <2>5. \A i \in 1 .. Len(taken[Main]) : i > left[Main] => taken[Main][i] # f
      BY <1>1, <1>3
    <2>6. \A i \in 1 .. Len(taken[Main]) : i > left[Main] => body'[taken[Main][i]] = body[taken[Main][i]]
      BY <1>3, <2>3, <2>5
    <2>7. ASSUME NEW g \in Resources
          PROVE  g \in errs[Main] <=>
                   /\ body'[g] \in {"error", "panic"}
                   /\ \E i \in 1 .. Len(taken[Main]) : i > left[Main] /\ taken[Main][i] = g
      BY <1>t, <1>1, <2>3, <2>5 DEF RunSoFar
    <2>8. RunSoFar' /\ Collected'
      BY <1>t, <1>0, <1>1, <2>1, <2>2, <2>6, <2>7 DEF RunSoFar, Collected
    <2>9. QED BY <1>4, <2>2, <2>4, <2>8 DEF ManagedInv
  <1>6. ASSUME NEW outcome \in Scope!Outcomes, Scope!CleanupReturns(Main, outcome) PROVE ManagedInv'
    <2>1. /\ body' = [body EXCEPT ![f] = outcome] /\ at' = [at EXCEPT ![Main] = "run"]
          /\ left' = [left EXCEPT ![Main] = left[Main] - 1]
          /\ errs' = [errs EXCEPT ![Main] = IF outcome # "nil" THEN errs[Main] \cup {f} ELSE errs[Main]]
      BY <1>6 DEF Scope!CleanupReturns, Scope!NextToRun, Scope!RunCleanupFails
    <2>2. at'[Main] = "run" /\ left'[Main] = left[Main] - 1 /\ left'[Main] \in Nat /\ left[Main] \in Nat
      BY <1>t, <1>1, <2>1 DEF Typed
    <2>3. /\ body'[f] = outcome /\ outcome \in {"nil", "error", "panic"}
          /\ \A g \in Resources : g # f => body'[g] = body[g]
      BY <1>t, <1>3, <2>1 DEF Typed, Scope!Outcomes
    <2>4. errs'[Main] = IF outcome # "nil" THEN errs[Main] \cup {f} ELSE errs[Main]
      BY <1>t, <2>1 DEF Typed
    <2>5. Typed'
      <3>1. /\ at' \in [{Main} -> {"idle", "lock", "cancel"} \cup Cancelling]
            /\ left' \in [{Main} -> Nat]
            /\ errs' \in [{Main} -> SUBSET Resources]
            /\ body' \in [Resources -> {"waiting", "running"} \cup Scope!Outcomes]
        BY <1>t, <1>3, <2>1, <2>2 DEF Typed, Cancelling
      <3>2. QED BY <1>t, <1>0, <3>1 DEF Typed
    <2>6. FollowsMain'
      BY <1>t, <1>m, <1>0, <1>1, <2>2, <2>3 DEF FollowsMain, Cancelling, Closing
    <2>7. \A i \in 1 .. Len(taken[Main]) : i > left'[Main] <=> i > left[Main] \/ i = left[Main]
      BY <1>t, <2>2
    <2>8. \A i \in 1 .. Len(taken[Main]) : i > left'[Main] => body'[taken[Main][i]] \in Scope!Outcomes
      <3>1. \A i \in 1 .. Len(taken[Main]) : i > left[Main] => body'[taken[Main][i]] = body[taken[Main][i]]
        BY <1>1, <1>3, <2>3
      <3>2. \A i \in 1 .. Len(taken[Main]) : i > left[Main] => body[taken[Main][i]] \in Scope!Outcomes
        BY <1>t, <1>1 DEF RunSoFar
      <3>3. QED BY <1>6, <2>3, <2>7, <3>1, <3>2
    <2>9. ASSUME NEW g \in Resources
          PROVE  g \in errs'[Main] <=>
                   /\ body'[g] \in {"error", "panic"}
                   /\ \E i \in 1 .. Len(taken[Main]) : i > left'[Main] /\ taken[Main][i] = g
      <3>1. g \in errs[Main] <=>
              /\ body[g] \in {"error", "panic"}
              /\ \E i \in 1 .. Len(taken[Main]) : i > left[Main] /\ taken[Main][i] = g
        BY <1>t, <1>1 DEF RunSoFar
      <3>2. CASE g = f
        <4>1. ~(\E i \in 1 .. Len(taken[Main]) : i > left[Main] /\ taken[Main][i] = g)
          BY <1>1, <1>3, <3>2
        <4>2. \E i \in 1 .. Len(taken[Main]) : i > left'[Main] /\ taken[Main][i] = g
          BY <1>1, <2>7, <3>2
        <4>3. QED BY <2>3, <2>4, <3>1, <3>2, <4>1, <4>2
      <3>3. CASE g # f
        <4>1. (\E i \in 1 .. Len(taken[Main]) : i > left'[Main] /\ taken[Main][i] = g)
                <=> \E i \in 1 .. Len(taken[Main]) : i > left[Main] /\ taken[Main][i] = g
          BY <2>7, <3>3
        <4>2. QED BY <2>3, <2>4, <3>1, <3>3, <4>1
      <3>4. QED BY <3>2, <3>3
    <2>10. RunSoFar' /\ Collected'
      <3>1. left'[Main] <= Len(taken[Main])
        BY <1>1, <1>2, <2>2
      <3>2. QED BY <1>0, <1>1, <2>2, <2>8, <2>9, <3>1 DEF RunSoFar, Collected
    <2>11. QED BY <1>4, <2>5, <2>6, <2>10 DEF ManagedInv
  <1>7. QED BY <1>5, <1>6
-----------------------------------------------------------------------------
(* The invariant holds of every managed process. *)
THEOREM ManagedAlwaysSound == Spec => []ManagedInv
  <1>1. Init => ManagedInv
    <2> SUFFICES ASSUME Init PROVE ManagedInv
      OBVIOUS
    <2>1. Typed
      BY DEF Init, Scope!ScopeInit, Typed, Scope!CallPlaces
    <2>2. FollowsMain
      BY ManagedAssumption DEF Init, Scope!ScopeInit, FollowsMain, Cancelling, Closing
    <2>3. RegisteredInHand /\ RunSoFar /\ Collected
      BY DEF Init, Scope!ScopeInit, RegisteredInHand, InHand, RunSoFar, Collected
    <2>4. QED BY <2>1, <2>2, <2>3 DEF ManagedInv
  <1>2. ManagedInv /\ [Next]_vars => ManagedInv'
    <2> SUFFICES ASSUME ManagedInv, [Next]_vars PROVE ManagedInv'
      OBVIOUS
    <2>1. CASE UNCHANGED managing /\ Scope!Close(Main)
      <3>1. ~Scope!AnotherClose(Main) /\ ~Scope!AnotherCloseReturns(Main)
        BY DEF Scope!AnotherClose, Scope!AnotherCloseReturns, ManagedInv, Typed, FollowsMain, Cancelling, Closing
      <3>2. QED BY <2>1, <3>1, CloseAround, CloseTakes, CloseRuns DEF Scope!Close
    <2>2. QED BY <2>1, StepKinds, OutsideStep, OnCleanupStep, CloseAround
  <1>3. QED BY <1>1, <1>2, PTL DEF Spec

(* Whatever becomes of the requests, construction is not cancelled and nothing
   is released while the process serves: only ServeModule's goroutine cancels,
   and it does so after serving ends. *)
THEOREM ComponentAlwaysOutlivesRequests == Spec => []ComponentOutlivesRequests
  <1>1. ManagedInv => ComponentOutlivesRequests
    BY DEF ManagedInv, FollowsMain, Cancelling, Closing, ComponentOutlivesRequests
  <1>2. QED BY <1>1, ManagedAlwaysSound, PTL

(* An orderly exit has run every cleanup that was registered before the scope
   closed, and ServeModule's Close has returned exactly their failures. *)
THEOREM ExitAlwaysRunsRegistered == Spec => []ExitRunsRegisteredCleanups
  <1>1. ManagedInv => ExitRunsRegisteredCleanups
    <2> SUFFICES ASSUME ManagedInv, process = "exited"
                 PROVE  /\ \A f \in Resources : call[f] = "registered" => body[f] \in Scope!Outcomes
                        /\ result[Main] = {f \in Resources :
                               call[f] = "registered" /\ body[f] \in {"error", "panic"}}
      BY DEF ExitRunsRegisteredCleanups
    <2>1. at[Main] = "returned" /\ closed /\ InHand = taken[Main]
      BY DEF ManagedInv, FollowsMain, Closing, InHand
    <2>2. left[Main] = 0 /\ result[Main] = errs[Main] /\ errs[Main] \in SUBSET Resources
      BY <2>1 DEF ManagedInv, RunSoFar, Collected, Typed
    <2>3. \A i \in 1 .. Len(taken[Main]) : i > left[Main] /\ body[taken[Main][i]] \in Scope!Outcomes
      BY <2>1, <2>2 DEF ManagedInv, RunSoFar, Typed
    <2>4. \A f \in Resources : call[f] = "registered" <=> \E i \in 1 .. Len(taken[Main]) : taken[Main][i] = f
      <3>1. RegisteredInHand /\ InHand = taken[Main]
        BY <2>1 DEF ManagedInv
      <3>2. ASSUME NEW f \in Resources, call[f] = "registered"
            PROVE  \E i \in 1 .. Len(taken[Main]) : taken[Main][i] = f
        BY <3>1, <3>2 DEF RegisteredInHand
      <3>3. \A i \in 1 .. Len(taken[Main]) : call[taken[Main][i]] = "registered"
        BY <3>1 DEF RegisteredInHand
      <3>4. QED BY <3>2, <3>3
    <2>5. \A f \in Resources : f \in errs[Main] <=> call[f] = "registered" /\ body[f] \in {"error", "panic"}
      BY <2>1, <2>3, <2>4 DEF ManagedInv, RunSoFar
    <2>6. QED BY <2>2, <2>3, <2>4, <2>5
  <1>2. QED BY <1>1, ManagedAlwaysSound, PTL
=============================================================================
