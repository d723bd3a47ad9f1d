------------------------ MODULE ComponentScopeProofs ------------------------
(***************************************************************************)
(* What ComponentScope keeps true for any number of registrations and of   *)
(* calls to Close, and that it implements the abstract Lifetime.           *)
(*                                                                         *)
(* The inductive invariant says who holds the mutex, what having closed    *)
(* the scope implies, that one Close at most takes the cleanups, and how   *)
(* far the run of what it took has come.                                   *)
(***************************************************************************)
EXTENDS ComponentScope, TLAPS

(* The mutex is held inside the critical sections and nowhere else. *)
MutexHeld ==
    /\ \A p \in Closers : at[p] \in {"cancel", "mark"} <=> mu = p
    /\ \A f \in Cleanups : call[f] = "append" <=> mu = f

(* Nobody is past a check of closed that has since become wrong. *)
ClosedKnown ==
    /\ closed => cancelled
    /\ \A p \in Closers : at[p] = "mark" => cancelled
    /\ \A p \in Closers : at[p] \in {"cancel", "mark"} => ~closed
    /\ \A p \in Closers : at[p] \in {"run", "running", "signal", "wait", "returned"} => closed
    /\ \A f \in Cleanups : call[f] = "append" => ~closed
    /\ \A f \in Cleanups : call[f] \in {"run", "running", "ran late"} => closed
    /\ \A f \in Cleanups : body[f] # "waiting" => closed

Took(p) == at[p] \in {"run", "running", "signal"} \/ taken[p] # << >>

(* One Close at most takes the cleanups, and it takes them all. *)
OneTakes ==
    /\ \A p, q \in Closers : Took(p) /\ Took(q) => p = q
    /\ closed => cleanups = << >>
    /\ ~closed => \A p \in Closers : taken[p] = << >>
    /\ \A p \in Closers : left[p] <= Len(taken[p])
    /\ \A p \in Closers : at[p] = "running" => left[p] > 0
    /\ \A p \in Closers : at[p] \notin {"run", "running"} => left[p] = 0
    /\ \A p \in Closers : at[p] \in {"wait", "lock", "idle", "cancel", "mark"} =>
                             taken[p] = << >> /\ errs[p] = {}

(* What is accepted is registered, and registered once. *)
AcceptedOnce ==
    /\ \A i \in 1 .. Len(cleanups) : call[cleanups[i]] = "registered"
    /\ \A i, j \in 1 .. Len(cleanups) : cleanups[i] = cleanups[j] => i = j
    /\ \A p \in Closers :
          /\ \A i \in 1 .. Len(taken[p]) : call[taken[p][i]] = "registered"
          /\ \A i, j \in 1 .. Len(taken[p]) : taken[p][i] = taken[p][j] => i = j

(* How far each cleanup has come, by where its caller is. *)
RunSoFar ==
    /\ \A f \in Cleanups : call[f] \in {"idle", "lock", "append", "run"} => body[f] = "waiting"
    /\ \A f \in Cleanups : call[f] = "running" => body[f] = "running"
    /\ \A i \in 1 .. Len(cleanups) : body[cleanups[i]] = "waiting"
    /\ \A p \in Closers : \A i \in 1 .. Len(taken[p]) :
          /\ i > left[p] => body[taken[p][i]] \in Outcomes
          /\ i < left[p] => body[taken[p][i]] = "waiting"
          /\ i = left[p] =>
                body[taken[p][i]] = IF at[p] = "running" THEN "running" ELSE "waiting"

FailedOf(p) ==
    {f \in Cleanups : RunCleanupFails(body[f]) /\
                       \E i \in 1 .. Len(taken[p]) : i > left[p] /\ taken[p][i] = f}

(* What has been collected, stored and returned so far. *)
ErrorsKept ==
    /\ \A p \in Closers : errs[p] = FailedOf(p)
    /\ \A p \in Closers : at[p] = "signal" => closeErr = errs[p]
    /\ done => \A p \in Closers : at[p] \notin {"run", "running", "signal"}
    /\ done => closed
    /\ done => \A p \in Closers : taken[p] # << >> => closeErr = errs[p]
    /\ done /\ (\A p \in Closers : taken[p] = << >>) => closeErr = {}
    /\ \A p \in Closers : at[p] = "returned" => done /\ result[p] = closeErr

ScopeInv ==
    /\ ScopeTypeOK
    /\ MutexHeld
    /\ ClosedKnown
    /\ OneTakes
    /\ AcceptedOnce
    /\ RunSoFar
    /\ ErrorsKept
-----------------------------------------------------------------------------
(* Every step keeps the types. *)
LEMMA TypeStep ==
    ASSUME ScopeInv, [ScopeNext]_scopeVars PROVE ScopeTypeOK'
  <1> USE ScopeAssumption DEF ScopeInv, ScopeTypeOK, ClosePlaces, CallPlaces, Outcomes, OneTakes, shared, closing
  <1>1. ASSUME CancelParent PROVE ScopeTypeOK'
    BY <1>1 DEF CancelParent
  <1>2. ASSUME NEW f \in Cleanups, CallOnCleanup(f) PROVE ScopeTypeOK'
    BY <1>2 DEF CallOnCleanup
  <1>3. ASSUME NEW f \in Cleanups, Register(f) PROVE ScopeTypeOK'
    BY <1>3 DEF Register
  <1>4. ASSUME NEW f \in Cleanups, AppendCleanup(f) PROVE ScopeTypeOK'
    <2>0. cleanups \in Seq(Cleanups) /\ cleanups' = Append(cleanups, f)
      BY <1>4 DEF AppendCleanup
    <2>1. cleanups' \in Seq(Cleanups)
      <3> HIDE DEF ScopeInv, ScopeTypeOK, OneTakes
      <3> QED BY <2>0
    <2>2. call' \in [Cleanups -> CallPlaces]
      BY <1>4 DEF AppendCleanup
    <2>3. QED BY <1>4, <2>1, <2>2 DEF AppendCleanup
  <1>5. ASSUME NEW f \in Cleanups, RegisterLate(f) PROVE ScopeTypeOK'
    BY <1>5 DEF RegisterLate
  <1>6. ASSUME NEW f \in Cleanups, RunLate(f) PROVE ScopeTypeOK'
    BY <1>6 DEF RunLate
  <1>7. ASSUME NEW f \in Cleanups, NEW o \in Outcomes, LateReturns(f, o) PROVE ScopeTypeOK'
    BY <1>7 DEF LateReturns
  <1>8. ASSUME NEW p \in Closers, CallClose(p) PROVE ScopeTypeOK'
    BY <1>8 DEF CallClose
  <1>9. ASSUME NEW p \in Closers, FirstClose(p) PROVE ScopeTypeOK'
    BY <1>9 DEF FirstClose
  <1>10. ASSUME NEW p \in Closers, CloseCancels(p) PROVE ScopeTypeOK'
    BY <1>10 DEF CloseCancels
  <1>11. ASSUME NEW p \in Closers, CloseTakesCleanups(p) PROVE ScopeTypeOK'
    <2>1. /\ cleanups \in Seq(Cleanups) /\ cleanups' = << >>
          /\ taken \in [Closers -> Seq(Cleanups)] /\ taken' = [taken EXCEPT ![p] = cleanups]
          /\ left \in [Closers -> Nat] /\ left' = [left EXCEPT ![p] = Len(cleanups)]
      BY <1>11 DEF CloseTakesCleanups
    <2>2. /\ taken' \in [Closers -> Seq(Cleanups)] /\ left' \in [Closers -> Nat]
          /\ cleanups' \in Seq(Cleanups)
      <3> HIDE DEF ScopeInv, ScopeTypeOK, OneTakes
      <3> QED BY <2>1
    <2>3. at' \in [Closers -> ClosePlaces]
      BY <1>11 DEF CloseTakesCleanups
    <2>4. QED BY <1>11, <2>2, <2>3 DEF CloseTakesCleanups
  <1>12. ASSUME NEW p \in Closers, RunCleanup(p) PROVE ScopeTypeOK'
    BY <1>12 DEF RunCleanup
  <1>13. ASSUME NEW p \in Closers, NEW o \in Outcomes, CleanupReturns(p, o) PROVE ScopeTypeOK'
    <2>0. at[p] = "running" /\ left' = [left EXCEPT ![p] = left[p] - 1]
      BY <1>13 DEF CleanupReturns
    <2>1. /\ left[p] \in Nat /\ left[p] > 0 /\ left[p] <= Len(taken[p])
          /\ taken[p] \in Seq(Cleanups) /\ left \in [Closers -> Nat]
      BY <2>0
    <2>2. NextToRun(p) \in Cleanups
      <3> HIDE DEF ScopeInv, ScopeTypeOK, OneTakes
      <3> QED BY <2>1 DEF NextToRun
    <2>3. left' \in [Closers -> Nat]
      <3> HIDE DEF ScopeInv, ScopeTypeOK, OneTakes
      <3>1. left[p] - 1 \in Nat
        BY <2>1
      <3>2. QED BY <2>0, <2>1, <3>1
    <2>4. errs' \in [Closers -> SUBSET Cleanups]
      BY <1>13, <2>2 DEF CleanupReturns
    <2>5. body' \in [Cleanups -> {"waiting", "running"} \cup Outcomes]
      BY <1>13 DEF CleanupReturns
    <2>6. QED BY <1>13, <2>3, <2>4, <2>5 DEF CleanupReturns
  <1>14. ASSUME NEW p \in Closers, CloseStoresError(p) PROVE ScopeTypeOK'
    BY <1>14 DEF CloseStoresError
  <1>15. ASSUME NEW p \in Closers, CloseReturns(p) PROVE ScopeTypeOK'
    BY <1>15 DEF CloseReturns
  <1>16. ASSUME NEW p \in Closers, AnotherClose(p) PROVE ScopeTypeOK'
    BY <1>16 DEF AnotherClose
  <1>17. ASSUME NEW p \in Closers, AnotherCloseReturns(p) PROVE ScopeTypeOK'
    BY <1>17 DEF AnotherCloseReturns
  <1>18. CASE UNCHANGED scopeVars
    BY <1>18 DEF scopeVars
  <1> HIDE DEF ScopeInv, ScopeTypeOK, shared, closing
  <1>19. ASSUME NEW f \in Cleanups, CallOnCleanup(f) \/ OnCleanup(f) PROVE ScopeTypeOK'
    BY <1>2, <1>3, <1>4, <1>5, <1>6, <1>7, <1>19, Zenon DEF OnCleanup
  <1>20. ASSUME NEW p \in Closers, CallClose(p) \/ Close(p) PROVE ScopeTypeOK'
    BY <1>8, <1>9, <1>10, <1>11, <1>12, <1>13, <1>14, <1>15, <1>16, <1>17, <1>20, Zenon DEF Close
  <1>21. QED BY <1>1, <1>18, <1>19, <1>20, Zenon DEF ScopeNext

(* Every step keeps the mutex with the goroutine inside its critical section. *)
LEMMA MutexStep ==
    ASSUME ScopeInv, [ScopeNext]_scopeVars PROVE MutexHeld'
  <1> USE ScopeAssumption DEF ScopeInv, ScopeTypeOK, MutexHeld, shared, closing
  <1>1. ASSUME CancelParent PROVE MutexHeld'
    BY <1>1 DEF CancelParent
  <1>2. ASSUME NEW f \in Cleanups, CallOnCleanup(f) PROVE MutexHeld'
    BY <1>2 DEF CallOnCleanup
  <1>3. ASSUME NEW f \in Cleanups, Register(f) PROVE MutexHeld'
    BY <1>3 DEF Register
  <1>4. ASSUME NEW f \in Cleanups, AppendCleanup(f) PROVE MutexHeld'
    BY <1>4 DEF AppendCleanup
  <1>5. ASSUME NEW f \in Cleanups, RegisterLate(f) PROVE MutexHeld'
    BY <1>5 DEF RegisterLate
  <1>6. ASSUME NEW f \in Cleanups, RunLate(f) PROVE MutexHeld'
    BY <1>6 DEF RunLate
  <1>7. ASSUME NEW f \in Cleanups, NEW o \in Outcomes, LateReturns(f, o) PROVE MutexHeld'
    BY <1>7 DEF LateReturns
  <1>8. ASSUME NEW p \in Closers, CallClose(p) PROVE MutexHeld'
    BY <1>8 DEF CallClose
  <1>9. ASSUME NEW p \in Closers, FirstClose(p) PROVE MutexHeld'
    BY <1>9 DEF FirstClose
  <1>10. ASSUME NEW p \in Closers, CloseCancels(p) PROVE MutexHeld'
    BY <1>10 DEF CloseCancels
  <1>11. ASSUME NEW p \in Closers, CloseTakesCleanups(p) PROVE MutexHeld'
    BY <1>11 DEF CloseTakesCleanups
  <1>12. ASSUME NEW p \in Closers, RunCleanup(p) PROVE MutexHeld'
    BY <1>12 DEF RunCleanup
  <1>13. ASSUME NEW p \in Closers, NEW o \in Outcomes, CleanupReturns(p, o) PROVE MutexHeld'
    BY <1>13 DEF CleanupReturns
  <1>14. ASSUME NEW p \in Closers, CloseStoresError(p) PROVE MutexHeld'
    BY <1>14 DEF CloseStoresError
  <1>15. ASSUME NEW p \in Closers, CloseReturns(p) PROVE MutexHeld'
    BY <1>15 DEF CloseReturns
  <1>16. ASSUME NEW p \in Closers, AnotherClose(p) PROVE MutexHeld'
    BY <1>16 DEF AnotherClose
  <1>17. ASSUME NEW p \in Closers, AnotherCloseReturns(p) PROVE MutexHeld'
    BY <1>17 DEF AnotherCloseReturns
  <1>18. CASE UNCHANGED scopeVars
    BY <1>18 DEF scopeVars
  <1> HIDE DEF ScopeInv, ScopeTypeOK, MutexHeld, shared, closing
  <1>19. ASSUME NEW f \in Cleanups, CallOnCleanup(f) \/ OnCleanup(f) PROVE MutexHeld'
    BY <1>2, <1>3, <1>4, <1>5, <1>6, <1>7, <1>19, Zenon DEF OnCleanup
  <1>20. ASSUME NEW p \in Closers, CallClose(p) \/ Close(p) PROVE MutexHeld'
    BY <1>8, <1>9, <1>10, <1>11, <1>12, <1>13, <1>14, <1>15, <1>16, <1>17, <1>20, Zenon DEF Close
  <1>21. QED BY <1>1, <1>18, <1>19, <1>20, Zenon DEF ScopeNext

(* Every step keeps what goroutines know of closed. *)
LEMMA ClosedStep ==
    ASSUME ScopeInv, [ScopeNext]_scopeVars PROVE ClosedKnown'
  <1> USE ScopeAssumption DEF ScopeInv, ScopeTypeOK, MutexHeld, ClosedKnown, shared, closing
  <1>1. ASSUME CancelParent PROVE ClosedKnown'
    BY <1>1 DEF CancelParent
  <1>2. ASSUME NEW f \in Cleanups, CallOnCleanup(f) PROVE ClosedKnown'
    BY <1>2 DEF CallOnCleanup
  <1>3. ASSUME NEW f \in Cleanups, Register(f) PROVE ClosedKnown'
    BY <1>3 DEF Register
  <1>4. ASSUME NEW f \in Cleanups, AppendCleanup(f) PROVE ClosedKnown'
    BY <1>4 DEF AppendCleanup
  <1>5. ASSUME NEW f \in Cleanups, RegisterLate(f) PROVE ClosedKnown'
    BY <1>5 DEF RegisterLate
  <1>6. ASSUME NEW f \in Cleanups, RunLate(f) PROVE ClosedKnown'
    BY <1>6 DEF RunLate
  <1>7. ASSUME NEW f \in Cleanups, NEW o \in Outcomes, LateReturns(f, o) PROVE ClosedKnown'
    BY <1>7 DEF LateReturns
  <1>8. ASSUME NEW p \in Closers, CallClose(p) PROVE ClosedKnown'
    BY <1>8 DEF CallClose
  <1>9. ASSUME NEW p \in Closers, FirstClose(p) PROVE ClosedKnown'
    BY <1>9 DEF FirstClose
  <1>10. ASSUME NEW p \in Closers, CloseCancels(p) PROVE ClosedKnown'
    BY <1>10 DEF CloseCancels
  <1>11. ASSUME NEW p \in Closers, CloseTakesCleanups(p) PROVE ClosedKnown'
    BY <1>11 DEF CloseTakesCleanups
  <1>12. ASSUME NEW p \in Closers, RunCleanup(p) PROVE ClosedKnown'
    BY <1>12 DEF RunCleanup
  <1>13. ASSUME NEW p \in Closers, NEW o \in Outcomes, CleanupReturns(p, o) PROVE ClosedKnown'
    BY <1>13 DEF CleanupReturns
  <1>14. ASSUME NEW p \in Closers, CloseStoresError(p) PROVE ClosedKnown'
    BY <1>14 DEF CloseStoresError
  <1>15. ASSUME NEW p \in Closers, CloseReturns(p) PROVE ClosedKnown'
    BY <1>15 DEF CloseReturns
  <1>16. ASSUME NEW p \in Closers, AnotherClose(p) PROVE ClosedKnown'
    BY <1>16 DEF AnotherClose
  <1>17. ASSUME NEW p \in Closers, AnotherCloseReturns(p) PROVE ClosedKnown'
    BY <1>17 DEF AnotherCloseReturns
  <1>18. CASE UNCHANGED scopeVars
    BY <1>18 DEF scopeVars
  <1> HIDE DEF ScopeInv, ScopeTypeOK, ClosedKnown, shared, closing
  <1>19. ASSUME NEW f \in Cleanups, CallOnCleanup(f) \/ OnCleanup(f) PROVE ClosedKnown'
    BY <1>2, <1>3, <1>4, <1>5, <1>6, <1>7, <1>19, Zenon DEF OnCleanup
  <1>20. ASSUME NEW p \in Closers, CallClose(p) \/ Close(p) PROVE ClosedKnown'
    BY <1>8, <1>9, <1>10, <1>11, <1>12, <1>13, <1>14, <1>15, <1>16, <1>17, <1>20, Zenon DEF Close
  <1>21. QED BY <1>1, <1>18, <1>19, <1>20, Zenon DEF ScopeNext

(* Every step leaves what was accepted with one Close at most. *)
LEMMA OneTakesStep ==
    ASSUME ScopeInv, [ScopeNext]_scopeVars PROVE OneTakes'
  <1> USE ScopeAssumption DEF ScopeInv, ScopeTypeOK, ClosePlaces, MutexHeld, ClosedKnown, OneTakes, Took, shared, closing
  <1>1. ASSUME CancelParent PROVE OneTakes'
    BY <1>1 DEF CancelParent
  <1>2. ASSUME NEW f \in Cleanups, CallOnCleanup(f) PROVE OneTakes'
    BY <1>2 DEF CallOnCleanup
  <1>3. ASSUME NEW f \in Cleanups, Register(f) PROVE OneTakes'
    BY <1>3 DEF Register
  <1>4. ASSUME NEW f \in Cleanups, AppendCleanup(f) PROVE OneTakes'
    BY <1>4 DEF AppendCleanup
  <1>5. ASSUME NEW f \in Cleanups, RegisterLate(f) PROVE OneTakes'
    BY <1>5 DEF RegisterLate
  <1>6. ASSUME NEW f \in Cleanups, RunLate(f) PROVE OneTakes'
    BY <1>6 DEF RunLate
  <1>7. ASSUME NEW f \in Cleanups, NEW o \in Outcomes, LateReturns(f, o) PROVE OneTakes'
    BY <1>7 DEF LateReturns
  <1>8. ASSUME NEW p \in Closers, CallClose(p) PROVE OneTakes'
    BY <1>8 DEF CallClose
  <1>9. ASSUME NEW p \in Closers, FirstClose(p) PROVE OneTakes'
    BY <1>9 DEF FirstClose
  <1>10. ASSUME NEW p \in Closers, CloseCancels(p) PROVE OneTakes'
    BY <1>10 DEF CloseCancels
  <1>11. ASSUME NEW p \in Closers, CloseTakesCleanups(p) PROVE OneTakes'
    <2>0. /\ at[p] = "mark" /\ closed' = TRUE /\ cleanups' = << >>
          /\ taken' = [taken EXCEPT ![p] = cleanups] /\ left' = [left EXCEPT ![p] = Len(cleanups)]
          /\ at' = [at EXCEPT ![p] = "run"] /\ errs' = errs
      BY <1>11 DEF CloseTakesCleanups
    <2>1. /\ ~closed /\ cleanups \in Seq(Cleanups)
          /\ \A q \in Closers : taken[q] = << >> /\ at[q] \notin {"run", "running", "signal"}
      BY <2>0
    <2>2. /\ \A q \in Closers : left[q] <= Len(taken[q])
          /\ \A q \in Closers : at[q] = "running" => left[q] > 0
          /\ \A q \in Closers : at[q] \notin {"run", "running"} => left[q] = 0
          /\ \A q \in Closers : at[q] \in {"wait", "lock", "idle", "cancel", "mark"} => errs[q] = {}
      OBVIOUS
    <2>3. taken \in [Closers -> Seq(Cleanups)] /\ left \in [Closers -> Nat]
          /\ at \in [Closers -> ClosePlaces]
      OBVIOUS
    <2> HIDE DEF ScopeInv, ScopeTypeOK, MutexHeld, ClosedKnown
    <2>4. \A q \in Closers : left'[q] <= Len(taken'[q])
      BY <2>0, <2>1, <2>2, <2>3
    <2>5. QED BY <2>0, <2>1, <2>2, <2>3, <2>4
  <1>12. ASSUME NEW p \in Closers, RunCleanup(p) PROVE OneTakes'
    BY <1>12 DEF RunCleanup
  <1>13. ASSUME NEW p \in Closers, NEW o \in Outcomes, CleanupReturns(p, o) PROVE OneTakes'
    <2>0. /\ at[p] = "running" /\ closed' = closed /\ cleanups' = cleanups /\ taken' = taken
          /\ left' = [left EXCEPT ![p] = left[p] - 1] /\ at' = [at EXCEPT ![p] = "run"]
          /\ \A q \in Closers : q # p => errs'[q] = errs[q]
      BY <1>13 DEF CleanupReturns
    <2>1. OneTakes
      OBVIOUS
    <2>2. /\ taken \in [Closers -> Seq(Cleanups)] /\ left \in [Closers -> Nat]
          /\ at \in [Closers -> ClosePlaces]
      OBVIOUS
    <2> HIDE DEF ScopeInv, ScopeTypeOK, MutexHeld, ClosedKnown
    <2>3. left[p] \in Nat /\ left[p] <= Len(taken[p]) /\ Len(taken[p]) \in Nat
      BY <2>1, <2>2
    <2>4. \A q \in Closers : left'[q] <= Len(taken'[q])
      BY <2>0, <2>1, <2>2, <2>3
    <2>5. QED BY <2>0, <2>1, <2>2, <2>4
  <1>14. ASSUME NEW p \in Closers, CloseStoresError(p) PROVE OneTakes'
    BY <1>14 DEF CloseStoresError
  <1>15. ASSUME NEW p \in Closers, CloseReturns(p) PROVE OneTakes'
    BY <1>15 DEF CloseReturns
  <1>16. ASSUME NEW p \in Closers, AnotherClose(p) PROVE OneTakes'
    BY <1>16 DEF AnotherClose
  <1>17. ASSUME NEW p \in Closers, AnotherCloseReturns(p) PROVE OneTakes'
    BY <1>17 DEF AnotherCloseReturns
  <1>18. CASE UNCHANGED scopeVars
    BY <1>18 DEF scopeVars
  <1> HIDE DEF ScopeInv, ScopeTypeOK, OneTakes, shared, closing
  <1>19. ASSUME NEW f \in Cleanups, CallOnCleanup(f) \/ OnCleanup(f) PROVE OneTakes'
    BY <1>2, <1>3, <1>4, <1>5, <1>6, <1>7, <1>19, Zenon DEF OnCleanup
  <1>20. ASSUME NEW p \in Closers, CallClose(p) \/ Close(p) PROVE OneTakes'
    BY <1>8, <1>9, <1>10, <1>11, <1>12, <1>13, <1>14, <1>15, <1>16, <1>17, <1>20, Zenon DEF Close
  <1>21. QED BY <1>1, <1>18, <1>19, <1>20, Zenon DEF ScopeNext

(* Every step keeps the accepted cleanups registered, each once. *)
LEMMA AcceptedOnceStep ==
    ASSUME ScopeInv, [ScopeNext]_scopeVars PROVE AcceptedOnce'
  <1>t. /\ cleanups \in Seq(Cleanups) /\ taken \in [Closers -> Seq(Cleanups)]
        /\ call \in [Cleanups -> CallPlaces]
        /\ AcceptedOnce
    BY DEF ScopeInv, ScopeTypeOK
  <1>1. ASSUME UNCHANGED <<cleanups, taken>>,
               \A f \in Cleanups : call[f] = "registered" => call'[f] = "registered"
        PROVE  AcceptedOnce'
    <2>1. \A i \in 1 .. Len(cleanups) : cleanups[i] \in Cleanups
      BY <1>t
    <2>2. \A p \in Closers : \A i \in 1 .. Len(taken[p]) : taken[p][i] \in Cleanups
      BY <1>t
    <2>3. QED BY <1>t, <1>1, <2>1, <2>2 DEF AcceptedOnce
  <1>2. ASSUME NEW f \in Cleanups, CallOnCleanup(f) \/ Register(f) \/ RegisterLate(f) \/ RunLate(f)
                                   \/ \E o \in Outcomes : LateReturns(f, o)
        PROVE  AcceptedOnce'
    <2>1. UNCHANGED <<cleanups, taken>> /\ call[f] # "registered"
      BY <1>2 DEF CallOnCleanup, Register, RegisterLate, RunLate, LateReturns, shared, closing
    <2>2. \A g \in Cleanups : g # f => call'[g] = call[g]
      BY <1>2, <1>t DEF CallOnCleanup, Register, RegisterLate, RunLate, LateReturns
    <2>3. QED BY <1>1, <1>t, <2>1, <2>2
  <1>3. ASSUME NEW f \in Cleanups, AppendCleanup(f) PROVE AcceptedOnce'
    <2>1. /\ cleanups' = Append(cleanups, f) /\ taken' = taken
          /\ call[f] = "append" /\ call' = [call EXCEPT ![f] = "registered"]
      BY <1>3 DEF AppendCleanup, closing
    <2>2. Len(cleanups) \in Nat /\ \A i \in 1 .. Len(cleanups) : cleanups[i] \in Cleanups
      BY <1>t
    <2>3. /\ Len(cleanups') = Len(cleanups) + 1
          /\ \A i \in 1 .. Len(cleanups) : cleanups'[i] = cleanups[i]
          /\ cleanups'[Len(cleanups) + 1] = f
      BY <1>t, <2>1
    <2>4. \A i \in 1 .. Len(cleanups) : cleanups[i] # f
      BY <1>t, <2>1 DEF AcceptedOnce
    <2>5. \A i \in 1 .. Len(cleanups') : call'[cleanups'[i]] = "registered"
      BY <1>t, <2>1, <2>2, <2>3, <2>4 DEF AcceptedOnce
    <2>6. \A i, j \in 1 .. Len(cleanups') : cleanups'[i] = cleanups'[j] => i = j
      BY <1>t, <2>2, <2>3, <2>4 DEF AcceptedOnce
    <2>7. \A p \in Closers : \A i \in 1 .. Len(taken[p]) :
             taken[p][i] \in Cleanups /\ call'[taken[p][i]] = "registered"
      BY <1>t, <2>1 DEF AcceptedOnce
    <2>8. QED BY <1>t, <2>1, <2>5, <2>6, <2>7 DEF AcceptedOnce
  <1>4. ASSUME NEW p \in Closers, CloseTakesCleanups(p) PROVE AcceptedOnce'
    <2>1. /\ cleanups' = << >> /\ taken' = [taken EXCEPT ![p] = cleanups] /\ call' = call
      BY <1>4 DEF CloseTakesCleanups
    <2>2. Len(cleanups') = 0
      BY <2>1
    <2>3. \A q \in Closers : taken'[q] = IF q = p THEN cleanups ELSE taken[q]
      BY <1>t, <2>1
    <2>4. QED BY <1>t, <2>1, <2>2, <2>3 DEF AcceptedOnce
  <1>5. ASSUME NEW p \in Closers,
               \/ CallClose(p) \/ FirstClose(p) \/ CloseCancels(p) \/ RunCleanup(p)
               \/ \E o \in Outcomes : CleanupReturns(p, o)
               \/ CloseStoresError(p) \/ CloseReturns(p) \/ AnotherClose(p)
               \/ AnotherCloseReturns(p)
        PROVE  AcceptedOnce'
    <2>1. UNCHANGED <<cleanups, taken, call>>
      BY <1>5 DEF CallClose, FirstClose, CloseCancels, RunCleanup, CleanupReturns,
                  CloseStoresError, CloseReturns, AnotherClose, AnotherCloseReturns, shared
    <2>2. QED BY <1>1, <2>1
  <1>6. CASE CancelParent \/ UNCHANGED scopeVars
    <2>1. UNCHANGED <<cleanups, taken, call>>
      BY <1>6 DEF CancelParent, scopeVars, shared, closing
    <2>2. QED BY <1>1, <2>1
  <1>7. QED BY <1>2, <1>3, <1>4, <1>5, <1>6 DEF ScopeNext, OnCleanup, Close

(* A cleanup that was not registered is in nobody's hands. *)
LEMMA UnregisteredNotAccepted ==
    ASSUME ScopeInv, NEW f \in Cleanups, call[f] # "registered"
    PROVE  /\ \A i \in 1 .. Len(cleanups) : cleanups[i] # f
           /\ \A p \in Closers : \A i \in 1 .. Len(taken[p]) : taken[p][i] # f
  BY DEF ScopeInv, AcceptedOnce

(* Every step moves each cleanup on as its caller says. *)
LEMMA RunSoFarStep ==
    ASSUME ScopeInv, [ScopeNext]_scopeVars PROVE RunSoFar'
  <1>t. /\ cleanups \in Seq(Cleanups) /\ taken \in [Closers -> Seq(Cleanups)]
        /\ call \in [Cleanups -> CallPlaces]
        /\ body \in [Cleanups -> {"waiting", "running"} \cup Outcomes]
        /\ left \in [Closers -> Nat]
        /\ at \in [Closers -> ClosePlaces]
        /\ RunSoFar /\ AcceptedOnce /\ OneTakes
    BY DEF ScopeInv, ScopeTypeOK
  <1>e. /\ \A i \in 1 .. Len(cleanups) : cleanups[i] \in Cleanups
        /\ \A p \in Closers : \A i \in 1 .. Len(taken[p]) : taken[p][i] \in Cleanups
    BY <1>t
  <1>1. ASSUME UNCHANGED <<cleanups, taken, left, body>>,
               \A p \in Closers : at'[p] = "running" <=> at[p] = "running",
               \A f \in Cleanups :
                  /\ call'[f] \in {"idle", "lock", "append", "run"}
                        => call[f] \in {"idle", "lock", "append", "run"}
                  /\ call'[f] = "running" => call[f] = "running"
        PROVE  RunSoFar'
    BY <1>t, <1>1 DEF RunSoFar
  <1>2. ASSUME NEW f \in Cleanups, CallOnCleanup(f) \/ Register(f) \/ RegisterLate(f)
        PROVE  RunSoFar'
    <2>1. /\ UNCHANGED <<cleanups, taken, left, body, at>>
          /\ call[f] \in {"idle", "lock"}
          /\ \E c \in {"lock", "append", "run"} : call' = [call EXCEPT ![f] = c]
      BY <1>2 DEF CallOnCleanup, Register, RegisterLate, shared, closing
    <2>2. QED BY <1>1, <1>t, <2>1
  <1>3. ASSUME NEW f \in Cleanups,
               RunLate(f) \/ \E o \in Outcomes : LateReturns(f, o)
        PROVE  RunSoFar'
    <2>1. /\ UNCHANGED <<cleanups, taken, left, at>>
          /\ call[f] # "registered"
          /\ \E c \in {"running", "ran late"}, b \in {"running"} \cup Outcomes :
                /\ call' = [call EXCEPT ![f] = c] /\ body' = [body EXCEPT ![f] = b]
                /\ c = "running" => b = "running"
      BY <1>3 DEF RunLate, LateReturns, shared, closing
    <2>2. /\ \A i \in 1 .. Len(cleanups) : cleanups[i] # f
          /\ \A p \in Closers : \A i \in 1 .. Len(taken[p]) : taken[p][i] # f
      BY <2>1, UnregisteredNotAccepted
    <2>3. \A g \in Cleanups : g # f => body'[g] = body[g] /\ call'[g] = call[g]
      BY <1>t, <2>1
    <2>4. /\ call'[f] \in {"running", "ran late"}
          /\ call'[f] = "running" => body'[f] = "running"
      BY <1>t, <2>1
    <2>5. \A g \in Cleanups :
             /\ call'[g] \in {"idle", "lock", "append", "run"} => body'[g] = "waiting"
             /\ call'[g] = "running" => body'[g] = "running"
      BY <1>t, <2>3, <2>4 DEF RunSoFar
    <2>6. \A i \in 1 .. Len(cleanups') : body'[cleanups'[i]] = "waiting"
      BY <1>t, <1>e, <2>1, <2>2, <2>3 DEF RunSoFar
    <2>7. \A p \in Closers : \A i \in 1 .. Len(taken[p]) : body'[taken[p][i]] = body[taken[p][i]]
      BY <1>e, <2>2, <2>3
    <2>8. ASSUME NEW p \in Closers, NEW i \in 1 .. Len(taken'[p])
          PROVE  /\ i > left'[p] => body'[taken'[p][i]] \in Outcomes
                 /\ i < left'[p] => body'[taken'[p][i]] = "waiting"
                 /\ i = left'[p] =>
                       body'[taken'[p][i]] = IF at'[p] = "running" THEN "running" ELSE "waiting"
      <3>1. i \in 1 .. Len(taken[p]) /\ body'[taken[p][i]] = body[taken[p][i]]
        BY <2>1, <2>7
      <3>2. /\ i > left[p] => body[taken[p][i]] \in Outcomes
            /\ i < left[p] => body[taken[p][i]] = "waiting"
            /\ i = left[p] =>
                  body[taken[p][i]] = IF at[p] = "running" THEN "running" ELSE "waiting"
        BY <1>t, <3>1 DEF RunSoFar
      <3>3. QED BY <2>1, <3>1, <3>2
    <2>9. QED BY <2>5, <2>6, <2>8 DEF RunSoFar
  <1>4. ASSUME NEW f \in Cleanups, AppendCleanup(f) PROVE RunSoFar'
    <2>1. /\ cleanups' = Append(cleanups, f) /\ UNCHANGED <<taken, left, body, at>>
          /\ call[f] = "append" /\ call' = [call EXCEPT ![f] = "registered"]
      BY <1>4 DEF AppendCleanup, closing
    <2>2. /\ Len(cleanups) \in Nat /\ Len(cleanups') = Len(cleanups) + 1
          /\ \A i \in 1 .. Len(cleanups) : cleanups'[i] = cleanups[i]
          /\ cleanups'[Len(cleanups) + 1] = f
      BY <1>t, <2>1
    <2>3. \A i \in 1 .. Len(cleanups') : body[cleanups'[i]] = "waiting"
      BY <1>t, <2>1, <2>2 DEF RunSoFar
    <2>4. QED BY <1>t, <2>1, <2>3 DEF RunSoFar
  <1>5. ASSUME NEW p \in Closers, CloseTakesCleanups(p) PROVE RunSoFar'
    <2>1. /\ cleanups' = << >> /\ taken' = [taken EXCEPT ![p] = cleanups]
          /\ left' = [left EXCEPT ![p] = Len(cleanups)] /\ at' = [at EXCEPT ![p] = "run"]
          /\ UNCHANGED <<call, body>> /\ at[p] = "mark"
      BY <1>5 DEF CloseTakesCleanups
    <2>2. Len(cleanups') = 0 /\ Len(cleanups) \in Nat
      BY <1>t, <2>1
    <2>3. \A q \in Closers : q # p => taken'[q] = taken[q] /\ left'[q] = left[q] /\ at'[q] = at[q]
      BY <1>t, <2>1
    <2>4. taken'[p] = cleanups /\ left'[p] = Len(cleanups) /\ at'[p] = "run"
      BY <1>t, <2>1
    <2>5. ASSUME NEW q \in Closers, NEW i \in 1 .. Len(taken'[q])
          PROVE  /\ i > left'[q] => body[taken'[q][i]] \in Outcomes
                 /\ i < left'[q] => body[taken'[q][i]] = "waiting"
                 /\ i = left'[q] =>
                       body[taken'[q][i]] = IF at'[q] = "running" THEN "running" ELSE "waiting"
      <3>1. CASE q = p
        BY <1>t, <2>2, <2>4, <3>1 DEF RunSoFar
      <3>2. CASE q # p
        BY <1>t, <2>3, <3>2 DEF RunSoFar
      <3>3. QED BY <3>1, <3>2
    <2>6. QED BY <1>t, <2>1, <2>2, <2>5 DEF RunSoFar
  <1>6. ASSUME NEW p \in Closers, RunCleanup(p) \/ \E o \in Outcomes : CleanupReturns(p, o)
        PROVE  RunSoFar'
    <2> DEFINE f == taken[p][left[p]]
    <2>0. at[p] \in {"run", "running"} /\ left[p] > 0
      BY <1>6, <1>t DEF RunCleanup, CleanupReturns, OneTakes
    <2>1. left[p] \in 1 .. Len(taken[p]) /\ f \in Cleanups /\ call[f] = "registered"
      BY <1>t, <1>e, <2>0 DEF OneTakes, AcceptedOnce
    <2>2. /\ UNCHANGED <<cleanups, taken, call>>
          /\ \/ /\ body' = [body EXCEPT ![f] = "running"]
                /\ at' = [at EXCEPT ![p] = "running"] /\ left' = left
             \/ \E o \in Outcomes :
                /\ body' = [body EXCEPT ![f] = o]
                /\ at' = [at EXCEPT ![p] = "run"] /\ left' = [left EXCEPT ![p] = left[p] - 1]
      BY <1>6 DEF RunCleanup, CleanupReturns, NextToRun, shared
    <2>3. taken[p] # << >>
      BY <1>t, <2>1
    <2>4. \A q \in Closers : q # p => taken[q] = << >>
      BY <1>t, <2>3 DEF OneTakes, Took
    <2>5. Len(cleanups) = 0
      <3>1. closed
        BY <2>0 DEF ScopeInv, ClosedKnown
      <3>2. QED BY <1>t, <3>1 DEF OneTakes
    <2>6. \A i \in 1 .. Len(taken[p]) : i # left[p] => body'[taken[p][i]] = body[taken[p][i]]
      <3>1. \A i \in 1 .. Len(taken[p]) : i # left[p] => taken[p][i] # f
        BY <1>t, <2>1 DEF AcceptedOnce
      <3>2. \A g \in Cleanups : g # f => body'[g] = body[g]
        BY <1>t, <2>2
      <3>3. QED BY <1>e, <3>1, <3>2
    <2>7. \A g \in Cleanups : call[g] # "registered" => body'[g] = body[g]
      BY <1>t, <2>1, <2>2
    <2>8. CASE body'[f] = "running" /\ at'[p] = "running" /\ left' = left
      BY <1>t, <2>1, <2>2, <2>4, <2>5, <2>6, <2>7, <2>8 DEF RunSoFar
    <2>9. CASE body'[f] \in Outcomes /\ at'[p] = "run" /\ left'[p] = left[p] - 1
      <3>1. ASSUME NEW i \in 1 .. Len(taken[p])
            PROVE  /\ i > left'[p] => body'[taken[p][i]] \in Outcomes
                   /\ i <= left'[p] => body'[taken[p][i]] = "waiting"
        <4>1. left[p] \in Nat /\ i \in Nat
          BY <1>t
        <4>2. /\ i > left[p] => body[taken[p][i]] \in Outcomes
              /\ i < left[p] => body[taken[p][i]] = "waiting"
          BY <1>t DEF RunSoFar
        <4>3. i # left[p] => body'[taken[p][i]] = body[taken[p][i]]
          BY <2>6
        <4>4. QED BY <2>9, <4>1, <4>2, <4>3
      <3>2. \A q \in Closers : q # p => Len(taken[q]) = 0
        BY <2>4
      <3>3. left'[p] \in Int /\ left'[p] < left[p]
        BY <1>t, <2>9
      <3>4. ASSUME NEW q \in Closers, NEW i \in 1 .. Len(taken'[q])
            PROVE  /\ i > left'[q] => body'[taken'[q][i]] \in Outcomes
                   /\ i < left'[q] => body'[taken'[q][i]] = "waiting"
                   /\ i = left'[q] =>
                         body'[taken'[q][i]] = IF at'[q] = "running" THEN "running" ELSE "waiting"
        <4>1. q = p
          BY <1>t, <2>2, <3>2, <3>4
        <4>2. i \in Int /\ (i <= left[p] - 1 \/ i > left[p] - 1)
          BY <1>t, <2>2, <4>1
        <4>3. QED BY <2>2, <2>9, <3>1, <3>3, <4>1, <4>2
      <3>5. \A g \in Cleanups :
               /\ call'[g] \in {"idle", "lock", "append", "run"} => body'[g] = "waiting"
               /\ call'[g] = "running" => body'[g] = "running"
        BY <1>t, <2>2, <2>7 DEF RunSoFar
      <3>6. QED BY <2>2, <2>5, <3>4, <3>5 DEF RunSoFar
    <2>10. QED BY <1>t, <2>1, <2>2, <2>8, <2>9
  <1>7. ASSUME NEW p \in Closers,
               \/ CallClose(p) \/ FirstClose(p) \/ CloseCancels(p) \/ CloseStoresError(p)
               \/ CloseReturns(p) \/ AnotherClose(p) \/ AnotherCloseReturns(p)
        PROVE  RunSoFar'
    <2>1. /\ UNCHANGED <<cleanups, taken, left, body, call>>
          /\ at[p] # "running"
          /\ \E c \in {"lock", "cancel", "mark", "signal", "returned", "wait"} :
                at' = [at EXCEPT ![p] = c]
      BY <1>7 DEF CallClose, FirstClose, CloseCancels, CloseStoresError, CloseReturns,
                  AnotherClose, AnotherCloseReturns, shared
    <2>2. QED BY <1>1, <1>t, <2>1
  <1>8. CASE CancelParent \/ UNCHANGED scopeVars
    <2>1. UNCHANGED <<cleanups, taken, left, body, call, at>>
      BY <1>8 DEF CancelParent, scopeVars, shared, closing
    <2>2. QED BY <1>1, <2>1
  <1>9. QED BY <1>2, <1>3, <1>4, <1>5, <1>6, <1>7, <1>8 DEF ScopeNext, OnCleanup, Close

(* Every step keeps the failures collected, stored and returned in agreement. *)
LEMMA ErrorsKeptStep ==
    ASSUME ScopeInv, [ScopeNext]_scopeVars PROVE ErrorsKept'
  <1>t. /\ cleanups \in Seq(Cleanups) /\ taken \in [Closers -> Seq(Cleanups)]
        /\ body \in [Cleanups -> {"waiting", "running"} \cup Outcomes]
        /\ left \in [Closers -> Nat]
        /\ at \in [Closers -> ClosePlaces]
        /\ errs \in [Closers -> SUBSET Cleanups] /\ result \in [Closers -> SUBSET Cleanups]
        /\ ErrorsKept /\ AcceptedOnce /\ OneTakes /\ ClosedKnown
    BY DEF ScopeInv, ScopeTypeOK
  <1>e. \A p \in Closers : \A i \in 1 .. Len(taken[p]) : taken[p][i] \in Cleanups
    BY <1>t
  <1>1. ASSUME UNCHANGED <<taken, left, errs, closeErr, done, result>>,
               \A p \in Closers : \A i \in 1 .. Len(taken[p]) :
                  i > left[p] => body'[taken[p][i]] = body[taken[p][i]],
               \A p \in Closers :
                  /\ at'[p] \in {"run", "running", "signal"}
                        => at[p] \in {"run", "running", "signal"}
                  /\ at'[p] \in {"signal", "returned"} => at'[p] = at[p],
               closed => closed'
        PROVE  ErrorsKept'
    <2>1. ASSUME NEW p \in Closers PROVE FailedOf(p)' = FailedOf(p)
      BY <1>1 DEF FailedOf, RunCleanupFails
    <2>2. QED BY <1>t, <1>1, <2>1 DEF ErrorsKept
  <1>2. ASSUME NEW f \in Cleanups, CallOnCleanup(f) \/ OnCleanup(f) PROVE ErrorsKept'
    <2>1. /\ UNCHANGED <<taken, left, errs, closeErr, done, result, at, closed>>
          /\ body' # body => call[f] # "registered"
      BY <1>2 DEF CallOnCleanup, OnCleanup, Register, AppendCleanup, RegisterLate, RunLate,
                  LateReturns, shared, closing
    <2>2. \A g \in Cleanups : g # f => body'[g] = body[g]
      BY <1>2, <1>t DEF CallOnCleanup, OnCleanup, Register, AppendCleanup, RegisterLate, RunLate,
                        LateReturns
    <2>3. \A p \in Closers : \A i \in 1 .. Len(taken[p]) : body'[taken[p][i]] = body[taken[p][i]]
      BY <1>e, <2>1, <2>2, UnregisteredNotAccepted
    <2>4. QED BY <1>1, <2>1, <2>3
  <1>3. ASSUME NEW p \in Closers, CallClose(p) \/ FirstClose(p) \/ CloseCancels(p) \/ AnotherClose(p)
        PROVE  ErrorsKept'
    <2>1. /\ UNCHANGED <<taken, left, errs, closeErr, done, result, body, closed>>
          /\ \E c \in {"lock", "cancel", "mark", "wait"} : at' = [at EXCEPT ![p] = c]
      BY <1>3 DEF CallClose, FirstClose, CloseCancels, AnotherClose, shared
    <2>2. QED BY <1>1, <1>t, <2>1
  <1>4. ASSUME NEW p \in Closers, RunCleanup(p) PROVE ErrorsKept'
    <2>1. /\ UNCHANGED <<taken, left, errs, closeErr, done, result, closed>>
          /\ at[p] = "run" /\ at' = [at EXCEPT ![p] = "running"] /\ left[p] > 0
          /\ body' = [body EXCEPT ![taken[p][left[p]]] = "running"]
      BY <1>4 DEF RunCleanup, NextToRun, shared
    <2>2. left[p] \in 1 .. Len(taken[p])
      BY <1>t, <2>1 DEF OneTakes
    <2>3. \A q \in Closers : q # p => taken[q] = << >>
      BY <1>t, <2>1, <2>2 DEF OneTakes, Took
    <2>4. ASSUME NEW q \in Closers, NEW i \in 1 .. Len(taken[q]), i > left[q]
          PROVE  body'[taken[q][i]] = body[taken[q][i]]
      <3>1. q = p
        BY <2>3
      <3>2. taken[q][i] # taken[p][left[p]]
        BY <1>t, <2>2, <2>4, <3>1 DEF AcceptedOnce
      <3>3. QED BY <1>t, <1>e, <2>1, <3>2
    <2>5. QED BY <1>1, <1>t, <2>1, <2>4
  <1>5. ASSUME NEW p \in Closers, CloseTakesCleanups(p) PROVE ErrorsKept'
    <2>1. /\ UNCHANGED <<errs, closeErr, done, result, body>> /\ closed' = TRUE
          /\ at[p] = "mark" /\ at' = [at EXCEPT ![p] = "run"]
          /\ taken' = [taken EXCEPT ![p] = cleanups] /\ left' = [left EXCEPT ![p] = Len(cleanups)]
      BY <1>5 DEF CloseTakesCleanups
    <2>2. ~closed /\ ~done /\ errs[p] = {}
      BY <1>t, <2>1 DEF ClosedKnown, ErrorsKept, OneTakes
    <2>3. \A q \in Closers : at[q] \notin {"signal", "returned"}
      BY <1>t, <2>2 DEF ClosedKnown
    <2>4. FailedOf(p)' = {}
      <3>1. taken'[p] = cleanups /\ left'[p] = Len(cleanups) /\ Len(cleanups) \in Nat
        BY <1>t, <2>1
      <3>2. QED BY <3>1 DEF FailedOf
    <2>5. \A q \in Closers : q # p => FailedOf(q)' = FailedOf(q)
      BY <1>t, <2>1 DEF FailedOf
    <2>6. \A q \in Closers : errs'[q] = FailedOf(q)'
      BY <1>t, <2>1, <2>2, <2>4, <2>5 DEF ErrorsKept
    <2>7. \A q \in Closers : at'[q] \notin {"signal", "returned"}
      BY <1>t, <2>1, <2>3
    <2>8. QED BY <2>1, <2>2, <2>6, <2>7 DEF ErrorsKept
  <1>6. ASSUME NEW p \in Closers, NEW o \in Outcomes, CleanupReturns(p, o) PROVE ErrorsKept'
    <2> DEFINE f == taken[p][left[p]]
    <2>1. /\ UNCHANGED <<taken, closeErr, done, result, closed>>
          /\ at[p] = "running" /\ at' = [at EXCEPT ![p] = "run"]
          /\ left' = [left EXCEPT ![p] = left[p] - 1]
          /\ body' = [body EXCEPT ![f] = o]
          /\ errs' = [errs EXCEPT ![p] = IF RunCleanupFails(o) THEN errs[p] \cup {f} ELSE errs[p]]
      BY <1>6 DEF CleanupReturns, NextToRun, shared
    <2>2. left[p] \in 1 .. Len(taken[p])
      BY <1>t, <2>1 DEF OneTakes
    <2>3. \A q \in Closers : q # p => taken[q] = << >> /\ at[q] \notin {"run", "running", "signal"}
      BY <1>t, <2>1 DEF OneTakes, Took
    <2>4. ~done
      BY <1>t, <2>1 DEF ErrorsKept
    <2>5. \A q \in Closers : at[q] # "returned"
      BY <1>t, <2>4 DEF ErrorsKept
    <2>6. \A q \in Closers : at'[q] \notin {"signal", "returned"}
      BY <1>t, <2>1, <2>3, <2>5
    <2>7. ASSUME NEW g \in Cleanups
          PROVE  g \in FailedOf(p)' <=> g \in FailedOf(p) \/ (g = f /\ RunCleanupFails(o))
      <3>1. f \in Cleanups /\ body'[f] = o
        BY <1>t, <1>e, <2>1, <2>2
      <3>2. left'[p] = left[p] - 1 /\ left[p] \in Nat
        BY <1>t, <2>1
      <3>3. \A i \in 1 .. Len(taken[p]) : i > left'[p] <=> i > left[p] \/ i = left[p]
        BY <2>2, <3>2
      <3>4. \A i \in 1 .. Len(taken[p]) : i > left[p] => taken[p][i] # f
        BY <1>t, <2>2 DEF AcceptedOnce
      <3>5. CASE g = f
        <4>1. g \in FailedOf(p)' <=> RunCleanupFails(o)
          BY <2>1, <2>2, <3>1, <3>3, <3>5 DEF FailedOf
        <4>2. g \notin FailedOf(p)
          BY <3>4, <3>5 DEF FailedOf
        <4>3. QED BY <3>5, <4>1, <4>2
      <3>6. CASE g # f
        <4>1. body'[g] = body[g]
          BY <1>t, <2>1, <3>6
        <4>2. (\E i \in 1 .. Len(taken[p]) : i > left'[p] /\ taken[p][i] = g)
              <=> (\E i \in 1 .. Len(taken[p]) : i > left[p] /\ taken[p][i] = g)
          BY <3>3, <3>6
        <4>3. QED BY <2>1, <3>6, <4>1, <4>2 DEF FailedOf
      <3>7. QED BY <3>5, <3>6
    <2>8. FailedOf(p)' = IF RunCleanupFails(o) THEN FailedOf(p) \cup {f} ELSE FailedOf(p)
      <3>1. f \in Cleanups
        BY <1>e, <2>2
      <3>2. FailedOf(p) \subseteq Cleanups /\ FailedOf(p)' \subseteq Cleanups
        BY DEF FailedOf
      <3>3. QED BY <2>7, <3>1, <3>2
    <2>9. \A q \in Closers : q # p => FailedOf(q)' = {} /\ FailedOf(q) = {}
      BY <1>t, <2>1, <2>3 DEF FailedOf
    <2>10. \A q \in Closers : errs'[q] = FailedOf(q)'
      BY <1>t, <2>1, <2>8, <2>9 DEF ErrorsKept
    <2>11. QED BY <2>1, <2>4, <2>6, <2>10 DEF ErrorsKept
  <1>7. ASSUME NEW p \in Closers, CloseStoresError(p) PROVE ErrorsKept'
    <2>1. /\ UNCHANGED <<taken, left, errs, done, result, body, closed>>
          /\ at[p] = "run" /\ at' = [at EXCEPT ![p] = "signal"] /\ closeErr' = errs[p]
      BY <1>7 DEF CloseStoresError
    <2>2. \A q \in Closers : q # p => at[q] \notin {"run", "running", "signal"}
      BY <1>t, <2>1 DEF OneTakes, Took
    <2>3. ~done
      BY <1>t, <2>1 DEF ErrorsKept
    <2>4. \A q \in Closers : at[q] # "returned"
      BY <1>t, <2>3 DEF ErrorsKept
    <2>5. \A q \in Closers : FailedOf(q)' = FailedOf(q)
      BY <2>1 DEF FailedOf
    <2>6. \A q \in Closers : at'[q] # "returned" /\ (at'[q] = "signal" => q = p)
      BY <1>t, <2>1, <2>2, <2>4
    <2>7. QED BY <1>t, <2>1, <2>3, <2>5, <2>6 DEF ErrorsKept
  <1>8. ASSUME NEW p \in Closers, CloseReturns(p) PROVE ErrorsKept'
    <2>1. /\ UNCHANGED <<taken, left, errs, closeErr, body, closed>> /\ done' = TRUE
          /\ at[p] = "signal" /\ at' = [at EXCEPT ![p] = "returned"]
          /\ result' = [result EXCEPT ![p] = errs[p]]
      BY <1>8 DEF CloseReturns
    <2>2. \A q \in Closers : q # p =>
             at[q] \notin {"run", "running", "signal", "returned"} /\ taken[q] = << >>
      <3>1. \A q \in Closers : at[q] # "returned"
        BY <1>t, <2>1 DEF ErrorsKept
      <3>2. QED BY <1>t, <2>1, <3>1 DEF OneTakes, Took
    <2>3. closed /\ closeErr = errs[p]
      BY <1>t, <2>1 DEF ErrorsKept, ClosedKnown
    <2>4. \A q \in Closers : FailedOf(q)' = FailedOf(q)
      BY <2>1 DEF FailedOf
    <2>5. taken[p] = << >> => closeErr = {}
      <3>1. taken[p] = << >> => FailedOf(p) = {}
        BY DEF FailedOf
      <3>2. QED BY <1>t, <2>3, <3>1 DEF ErrorsKept
    <2>6. \A q \in Closers : at'[q] \notin {"run", "running", "signal"}
                             /\ (at'[q] = "returned" => q = p)
      BY <1>t, <2>1, <2>2
    <2>7. result'[p] = closeErr
      BY <1>t, <2>1, <2>3
    <2>8. \A q \in Closers : taken[q] # << >> => closeErr = errs[q]
      BY <2>2, <2>3
    <2>9. QED BY <1>t, <2>1, <2>3, <2>4, <2>5, <2>6, <2>7, <2>8 DEF ErrorsKept
  <1>9. ASSUME NEW p \in Closers, AnotherCloseReturns(p) PROVE ErrorsKept'
    <2>1. /\ UNCHANGED <<taken, left, errs, closeErr, done, body, closed>> /\ done
          /\ at' = [at EXCEPT ![p] = "returned"]
          /\ result' = [result EXCEPT ![p] = closeErr]
      BY <1>9 DEF AnotherCloseReturns, shared
    <2>2. \A q \in Closers : FailedOf(q)' = FailedOf(q)
      BY <2>1 DEF FailedOf
    <2>3. \A q \in Closers : at'[q] = IF q = p THEN "returned" ELSE at[q]
      BY <1>t, <2>1
    <2>4. \A q \in Closers : result'[q] = IF q = p THEN closeErr ELSE result[q]
      BY <1>t, <2>1
    <2>5. QED BY <1>t, <2>1, <2>2, <2>3, <2>4 DEF ErrorsKept
  <1>10. CASE CancelParent \/ UNCHANGED scopeVars
    <2>1. UNCHANGED <<taken, left, errs, closeErr, done, result, at, closed, body>>
      BY <1>10 DEF CancelParent, scopeVars, shared, closing
    <2>2. QED BY <1>1, <2>1
  <1>11. QED BY <1>2, <1>3, <1>4, <1>5, <1>6, <1>7, <1>8, <1>9, <1>10 DEF ScopeNext, Close

(* The invariant holds of every behaviour of the scope. *)
THEOREM ScopeAlwaysSound == ScopeSpec => []ScopeInv
  <1>1. ScopeInit => ScopeInv
    <2> SUFFICES ASSUME ScopeInit PROVE ScopeInv
      OBVIOUS
    <2>1. ScopeTypeOK
      <3>1. /\ cleanups \in Seq(Cleanups)
            /\ taken \in [Closers -> Seq(Cleanups)]
            /\ left \in [Closers -> Nat]
        BY DEF ScopeInit
      <3>2. at \in [Closers -> ClosePlaces] /\ call \in [Cleanups -> CallPlaces]
        BY DEF ScopeInit, ClosePlaces, CallPlaces
      <3>3. body \in [Cleanups -> {"waiting", "running"} \cup Outcomes]
        BY DEF ScopeInit
      <3>4. /\ mu \in {NoOwner} \cup Cleanups \cup Closers
            /\ cancelled \in BOOLEAN /\ closed \in BOOLEAN /\ done \in BOOLEAN
            /\ closeErr \in SUBSET Cleanups
            /\ errs \in [Closers -> SUBSET Cleanups]
            /\ result \in [Closers -> SUBSET Cleanups]
        BY DEF ScopeInit
      <3>5. QED BY <3>1, <3>2, <3>3, <3>4 DEF ScopeTypeOK
    <2>2. MutexHeld
      BY ScopeAssumption DEF ScopeInit, MutexHeld
    <2>3. ClosedKnown
      BY DEF ScopeInit, ClosedKnown
    <2>4. OneTakes
      BY DEF ScopeInit, OneTakes, Took
    <2>5. AcceptedOnce
      BY DEF ScopeInit, AcceptedOnce
    <2>6. RunSoFar
      BY DEF ScopeInit, RunSoFar
    <2>7. ErrorsKept
      BY DEF ScopeInit, ErrorsKept, FailedOf, RunCleanupFails
    <2>8. QED BY <2>1, <2>2, <2>3, <2>4, <2>5, <2>6, <2>7 DEF ScopeInv
  <1>2. ScopeInv /\ [ScopeNext]_scopeVars => ScopeInv'
    BY TypeStep, MutexStep, ClosedStep, OneTakesStep, AcceptedOnceStep, RunSoFarStep,
       ErrorsKeptStep DEF ScopeInv
  <1>3. QED BY <1>1, <1>2, PTL DEF ScopeSpec
-----------------------------------------------------------------------------
(* Every variable keeps its type, for any number of goroutines. *)
THEOREM ScopeTyped == ScopeSpec => []ScopeTypeOK
  <1>1. ScopeInv => ScopeTypeOK
    BY DEF ScopeInv
  <1>2. QED BY <1>1, ScopeAlwaysSound, PTL

(* A cleanup that runs, on time or late, finds the lifetime context done:
   Close cancels it before it lets anyone see the scope closed. *)
THEOREM CancelComesFirst == ScopeSpec => []NoCleanupBeforeCancel
  <1>1. ScopeInv => NoCleanupBeforeCancel
    BY DEF ScopeInv, ClosedKnown, NoCleanupBeforeCancel
  <1>2. QED BY <1>1, ScopeAlwaysSound, PTL

(* Where the accepted cleanups are: with the Close that took them, if it took
   any, and otherwise still in the scope. *)
LEMMA AcceptedIs ==
    ASSUME ScopeInv
    PROVE  /\ \A p \in Closers : taken[p] # << >> => Accepted = taken[p]
           /\ (\A p \in Closers : taken[p] = << >>) => Accepted = cleanups
           /\ Accepted \in Seq(Cleanups)
  <1>1. \A p, q \in Closers : taken[p] # << >> /\ taken[q] # << >> => p = q
    BY DEF ScopeInv, OneTakes, Took
  <1>2. \A p \in Closers : taken[p] # << >> => Accepted = taken[p]
    <2> SUFFICES ASSUME NEW p \in Closers, taken[p] # << >>
                 PROVE  Accepted = taken[p]
      OBVIOUS
    <2>1. (CHOOSE q \in Closers : taken[q] # << >>) = p
      BY <1>1
    <2>2. QED BY <2>1 DEF Accepted
  <1>3. (\A p \in Closers : taken[p] = << >>) => Accepted = cleanups
    BY DEF Accepted
  <1>4. cleanups \in Seq(Cleanups) /\ \A p \in Closers : taken[p] \in Seq(Cleanups)
    BY DEF ScopeInv, ScopeTypeOK
  <1>5. QED BY <1>2, <1>3, <1>4

(* Of two accepted cleanups, the one registered first starts only once the
   other has returned. *)
THEOREM ReverseOrderAlways == ScopeSpec => []ReverseRegistrationOrder
  <1>1. ScopeInv => ReverseRegistrationOrder
    <2> SUFFICES ASSUME ScopeInv, NEW i \in DOMAIN Accepted, NEW j \in DOMAIN Accepted,
                        i < j, body[Accepted[i]] # "waiting"
                 PROVE  body[Accepted[j]] \in Outcomes
      BY DEF ReverseRegistrationOrder
    <2>1. Accepted \in Seq(Cleanups)
      BY AcceptedIs
    <2>2. i \in 1 .. Len(Accepted) /\ j \in 1 .. Len(Accepted)
      BY <2>1
    <2>3. CASE \E p \in Closers : taken[p] # << >>
      <3>1. PICK p \in Closers : taken[p] # << >>
        BY <2>3
      <3>2. Accepted = taken[p]
        BY <3>1, AcceptedIs
      <3>3. left[p] \in Nat
        BY DEF ScopeInv, ScopeTypeOK
      <3>4. /\ i < left[p] => body[taken[p][i]] = "waiting"
            /\ j > left[p] => body[taken[p][j]] \in Outcomes
        BY <2>2, <3>2 DEF ScopeInv, RunSoFar
      <3>5. ~(i < left[p])
        BY <3>2, <3>4
      <3>6. i \in Nat /\ j \in Nat
        BY <2>2
      <3>7. j > left[p]
        BY <3>3, <3>5, <3>6
      <3>8. QED BY <3>2, <3>4, <3>7
    <2>4. CASE \A p \in Closers : taken[p] = << >>
      <3>1. Accepted = cleanups
        BY <2>4, AcceptedIs
      <3>2. body[cleanups[i]] = "waiting"
        BY <2>2, <3>1 DEF ScopeInv, RunSoFar
      <3>3. QED BY <3>1, <3>2
    <2>5. QED BY <2>3, <2>4
  <1>2. QED BY <1>1, ScopeAlwaysSound, PTL

(* When everything taken has run, whoever took it has collected exactly the
   accepted cleanups that failed. *)
LEMMA DoneReports ==
    ASSUME ScopeInv, closed,
           \A q \in Closers : at[q] \notin {"run", "running"}
    PROVE  /\ \A i \in DOMAIN Accepted : body[Accepted[i]] \in Outcomes
           /\ \A q \in Closers : taken[q] # << >> =>
                 errs[q] = {Accepted[i] : i \in
                    {k \in DOMAIN Accepted : body[Accepted[k]] \in {"error", "panic"}}}
           /\ (\A q \in Closers : taken[q] = << >>) => Accepted = << >>
  <1>1. (\A q \in Closers : taken[q] = << >>) => Accepted = << >>
    BY AcceptedIs DEF ScopeInv, OneTakes
  <1>2. ASSUME NEW q \in Closers, taken[q] # << >>
        PROVE  /\ \A i \in DOMAIN Accepted : body[Accepted[i]] \in Outcomes
               /\ errs[q] = {Accepted[i] : i \in
                    {k \in DOMAIN Accepted : body[Accepted[k]] \in {"error", "panic"}}}
    <2>1. Accepted = taken[q] /\ Accepted \in Seq(Cleanups)
      BY <1>2, AcceptedIs
    <2>2. left[q] = 0
      BY DEF ScopeInv, OneTakes
    <2>3. DOMAIN Accepted = 1 .. Len(taken[q])
      BY <2>1
    <2>4. \A i \in DOMAIN Accepted : i > left[q] /\ Accepted[i] \in Cleanups
      BY <2>1, <2>2, <2>3
    <2>5. \A i \in DOMAIN Accepted : body[Accepted[i]] \in Outcomes
      BY <2>1, <2>3, <2>4 DEF ScopeInv, RunSoFar
    <2>6. errs[q] = {f \in Cleanups : RunCleanupFails(body[f]) /\
                        \E i \in 1 .. Len(taken[q]) : i > left[q] /\ taken[q][i] = f}
      BY DEF ScopeInv, ErrorsKept, FailedOf
    <2>7. \A i \in DOMAIN Accepted :
             RunCleanupFails(body[Accepted[i]]) <=> body[Accepted[i]] \in {"error", "panic"}
      BY <2>5 DEF Outcomes, RunCleanupFails
    <2>8. \A f \in errs[q] : \E i \in DOMAIN Accepted :
             f = Accepted[i] /\ body[Accepted[i]] \in {"error", "panic"}
      BY <2>1, <2>3, <2>6, <2>7
    <2>9. \A i \in DOMAIN Accepted :
             body[Accepted[i]] \in {"error", "panic"} => Accepted[i] \in errs[q]
      BY <2>1, <2>3, <2>4, <2>6, <2>7
    <2>10. QED BY <2>5, <2>8, <2>9
  <1>3. \A i \in DOMAIN Accepted : body[Accepted[i]] \in Outcomes
    <2>1. CASE \E q \in Closers : taken[q] # << >>
      BY <1>2, <2>1
    <2>2. CASE \A q \in Closers : taken[q] = << >>
      BY <1>1, <2>2
    <2>3. QED BY <2>1, <2>2
  <1>4. QED BY <1>1, <1>2, <1>3

(* A Close that has returned, whichever it was, found every accepted cleanup
   run to its end and returned exactly the failures. *)
THEOREM EveryFailureReported == ScopeSpec => []CloseReportsEveryFailure
  <1>1. ScopeInv => CloseReportsEveryFailure
    <2> SUFFICES ASSUME ScopeInv, NEW p \in Closers, at[p] = "returned"
                 PROVE  /\ \A i \in DOMAIN Accepted : body[Accepted[i]] \in Outcomes
                        /\ result[p] = {Accepted[i] : i \in
                              {k \in DOMAIN Accepted : body[Accepted[k]] \in {"error", "panic"}}}
      BY DEF CloseReportsEveryFailure
    <2>1. closed /\ done /\ result[p] = closeErr
      BY DEF ScopeInv, ClosedKnown, ErrorsKept
    <2>2. \A q \in Closers : at[q] \notin {"run", "running"}
      BY <2>1 DEF ScopeInv, ErrorsKept
    <2>3. CASE \E q \in Closers : taken[q] # << >>
      <3>1. PICK q \in Closers : taken[q] # << >>
        BY <2>3
      <3>2. result[p] = errs[q]
        BY <2>1, <3>1 DEF ScopeInv, ErrorsKept
      <3>3. QED BY <2>1, <2>2, <3>1, <3>2, DoneReports
    <2>4. CASE \A q \in Closers : taken[q] = << >>
      <3>1. result[p] = {}
        BY <2>1, <2>4 DEF ScopeInv, ErrorsKept
      <3>2. Accepted = << >>
        BY <2>1, <2>2, <2>4, DoneReports
      <3>3. QED BY <3>1, <3>2
    <2>5. QED BY <2>3, <2>4
  <1>2. QED BY <1>1, ScopeAlwaysSound, PTL
-----------------------------------------------------------------------------
(* What the abstract lifetime sees of a step that does not touch it. *)
LEMMA Stutters ==
    ASSUME UNCHANGED <<closed, cleanups, taken, body, result>>,
           \A p \in Closers : at'[p] = "returned" <=> at[p] = "returned"
    PROVE  UNCHANGED Promise!vars
  <1>1. Accepted' = Accepted
    BY DEF Accepted
  <1>2. {p \in Closers : at[p] = "returned"}' = {p \in Closers : at[p] = "returned"}
    OBVIOUS
  <1>3. QED BY <1>1, <1>2 DEF Promise!vars

(* Only what is registered is accepted. *)
LEMMA AcceptedRegistered ==
    ASSUME ScopeInv
    PROVE  \A f \in Promise!Accepted : call[f] = "registered"
  <1>1. SUFFICES ASSUME NEW i \in DOMAIN Accepted PROVE call[Accepted[i]] = "registered"
    BY DEF Promise!Accepted
  <1>2. Accepted \in Seq(Cleanups) /\ i \in 1 .. Len(Accepted)
    BY AcceptedIs
  <1>3. CASE \E p \in Closers : taken[p] # << >>
    BY <1>2, <1>3, AcceptedIs DEF ScopeInv, AcceptedOnce
  <1>4. CASE \A p \in Closers : taken[p] = << >>
    BY <1>2, <1>4, AcceptedIs DEF ScopeInv, AcceptedOnce
  <1>5. QED BY <1>3, <1>4

(* A fresh scope is a component that nobody has closed. *)
LEMMA InitMaps == ScopeInit => Promise!Init
  <1> SUFFICES ASSUME ScopeInit PROVE Promise!Init
    OBVIOUS
  <1>1. Accepted = << >>
    BY DEF ScopeInit, Accepted
  <1>2. {p \in Closers : at[p] = "returned"} = {}
    BY DEF ScopeInit
  <1>3. QED BY <1>1, <1>2 DEF ScopeInit, Promise!Init

(* Registering a cleanup, on an open scope or a closed one, is a step of the
   promise or no step of it. *)
LEMMA OnCleanupMaps ==
    ASSUME ScopeInv, NEW f \in Cleanups, CallOnCleanup(f) \/ OnCleanup(f)
    PROVE  [Promise!Next]_(Promise!vars)
  <1>1. CASE CallOnCleanup(f) \/ Register(f) \/ RegisterLate(f)
    BY <1>1, Stutters DEF CallOnCleanup, Register, RegisterLate, shared, closing
  <1>2. CASE AppendCleanup(f)
    <2>1. /\ call[f] = "append" /\ cleanups' = Append(cleanups, f)
          /\ UNCHANGED <<closed, taken, body, result, at>>
      BY <1>2 DEF AppendCleanup, closing
    <2>2. ~closed /\ \A p \in Closers : taken[p] = << >>
      BY <2>1 DEF ScopeInv, ClosedKnown, OneTakes
    <2>3. Accepted = cleanups /\ Accepted' = cleanups'
      BY <2>1, <2>2 DEF Accepted
    <2>4. f \notin Promise!Accepted
      BY <2>1, AcceptedRegistered
    <2>5. Promise!Accept(f)
      BY <2>1, <2>2, <2>3, <2>4 DEF Promise!Accept
    <2>6. QED BY <2>5 DEF Promise!Next
  <1>3. CASE RunLate(f)
    <2>1. /\ call[f] = "run" /\ body' = [body EXCEPT ![f] = "running"]
          /\ UNCHANGED <<closed, cleanups, taken, result, at>>
      BY <1>3 DEF RunLate, shared, closing
    <2>2. closed /\ body[f] = "waiting"
      BY <2>1 DEF ScopeInv, ClosedKnown, RunSoFar
    <2>3. f \notin Promise!Accepted
      BY <2>1, AcceptedRegistered
    <2>4. Accepted' = Accepted
      BY <2>1 DEF Accepted
    <2>5. Promise!RunLate(f)
      BY <2>1, <2>2, <2>3, <2>4 DEF Promise!RunLate
    <2>6. QED BY <2>5 DEF Promise!Next
  <1>4. ASSUME NEW o \in Outcomes, LateReturns(f, o) PROVE Promise!Next
    <2>1. /\ call[f] = "running" /\ body' = [body EXCEPT ![f] = o]
          /\ UNCHANGED <<closed, cleanups, taken, result, at>>
      BY <1>4 DEF LateReturns, shared, closing
    <2>2. body[f] = "running"
      BY <2>1 DEF ScopeInv, RunSoFar
    <2>3. Accepted' = Accepted
      BY <2>1 DEF Accepted
    <2>4. Promise!Finish(f, o)
      BY <2>1, <2>2, <2>3 DEF Promise!Finish
    <2>5. QED BY <2>4 DEF Promise!Next, Promise!Outcomes, Outcomes
  <1>5. QED BY <1>1, <1>2, <1>3, <1>4 DEF OnCleanup

(* The cleanup a running Close is at is an accepted one, and every one after
   it has returned. *)
LEMMA TurnOf ==
    ASSUME ScopeInv, NEW p \in Closers, at[p] \in {"run", "running"}, left[p] > 0
    PROVE  /\ Accepted = taken[p] /\ left[p] \in DOMAIN Accepted
           /\ NextToRun(p) = Accepted[left[p]] /\ NextToRun(p) \in Cleanups
           /\ \A j \in left[p] + 1 .. Len(Accepted) : body[Accepted[j]] \in Outcomes
           /\ body[NextToRun(p)] = IF at[p] = "running" THEN "running" ELSE "waiting"
  <1>1. taken[p] \in Seq(Cleanups) /\ left[p] \in Nat
    BY DEF ScopeInv, ScopeTypeOK
  <1>2. left[p] <= Len(taken[p])
    BY DEF ScopeInv, OneTakes
  <1>3. taken[p] # << >> /\ left[p] \in 1 .. Len(taken[p])
    BY <1>1, <1>2
  <1>4. Accepted = taken[p]
    BY <1>3, AcceptedIs
  <1>5. NextToRun(p) = Accepted[left[p]] /\ NextToRun(p) \in Cleanups
    BY <1>1, <1>3, <1>4 DEF NextToRun
  <1>6. \A j \in left[p] + 1 .. Len(taken[p]) : j \in 1 .. Len(taken[p]) /\ j > left[p]
    BY <1>1
  <1>7. \A j \in left[p] + 1 .. Len(taken[p]) : body[taken[p][j]] \in Outcomes
    BY <1>6 DEF ScopeInv, RunSoFar
  <1>8. body[taken[p][left[p]]] = IF at[p] = "running" THEN "running" ELSE "waiting"
    BY <1>3 DEF ScopeInv, RunSoFar
  <1>9. QED BY <1>1, <1>3, <1>4, <1>5, <1>7, <1>8

(* Running a cleanup, and its return with any outcome, is a step of the
   promise. *)
LEMMA RunMaps ==
    ASSUME ScopeInv, NEW p \in Closers,
           RunCleanup(p) \/ \E o \in Outcomes : CleanupReturns(p, o)
    PROVE  Promise!Next
  <1>0. at \in [Closers -> ClosePlaces]
    BY DEF ScopeInv, ScopeTypeOK
  <1>1. closed
    BY DEF ScopeInv, ClosedKnown, RunCleanup, CleanupReturns
  <1>2. CASE RunCleanup(p)
    <2>1. /\ at[p] = "run" /\ left[p] > 0
          /\ body' = [body EXCEPT ![NextToRun(p)] = "running"]
          /\ at' = [at EXCEPT ![p] = "running"]
          /\ UNCHANGED <<closed, cleanups, taken, result>>
      BY <1>2 DEF RunCleanup, shared
    <2>2. Accepted' = Accepted
      BY <2>1 DEF Accepted
    <2>3. {q \in Closers : at[q] = "returned"}' = {q \in Closers : at[q] = "returned"}
      BY <1>0, <2>1
    <2>4. Promise!RunAccepted(left[p])
      BY <1>1, <2>1, <2>2, <2>3, TurnOf DEF Promise!RunAccepted, Promise!Outcomes, Outcomes
    <2>5. QED BY <2>1, <2>4, TurnOf DEF Promise!Next
  <1>3. ASSUME NEW o \in Outcomes, CleanupReturns(p, o) PROVE Promise!Next
    <2>1. /\ at[p] = "running"
          /\ body' = [body EXCEPT ![NextToRun(p)] = o]
          /\ at' = [at EXCEPT ![p] = "run"]
          /\ UNCHANGED <<closed, cleanups, taken, result>>
      BY <1>3 DEF CleanupReturns, shared
    <2>2. Accepted' = Accepted
      BY <2>1 DEF Accepted
    <2>3. {q \in Closers : at[q] = "returned"}' = {q \in Closers : at[q] = "returned"}
      BY <1>0, <2>1
    <2>4. left[p] > 0
      BY <2>1 DEF ScopeInv, OneTakes
    <2>5. Promise!Finish(NextToRun(p), o) /\ NextToRun(p) \in Cleanups
      BY <2>1, <2>2, <2>3, <2>4, TurnOf DEF Promise!Finish
    <2>6. QED BY <2>5 DEF Promise!Next, Promise!Outcomes, Outcomes
  <1>4. QED BY <1>2, <1>3

(* A Close that returns, with the failures r, reports to its caller. *)
LEMMA ReturnMaps ==
    ASSUME ScopeInv, NEW p \in Closers, at[p] \in {"signal", "wait"}, closed, NEW r,
           \A q \in Closers : at[q] \notin {"run", "running"},
           \/ \E q \in Closers : taken[q] # << >> /\ r = errs[q]
           \/ r = {} /\ \A q \in Closers : taken[q] = << >>,
           UNCHANGED <<closed, cleanups, taken, body>>,
           at' = [at EXCEPT ![p] = "returned"],
           result' = [result EXCEPT ![p] = r]
    PROVE  Promise!Next
  <1>1. Accepted' = Accepted
    BY DEF Accepted
  <1>2. at \in [Closers -> ClosePlaces] /\ result \in [Closers -> SUBSET Cleanups]
        /\ body \in [Cleanups -> {"waiting", "running"} \cup Outcomes]
    BY DEF ScopeInv, ScopeTypeOK
  <1>3. {q \in Closers : at[q] = "returned"}' = {q \in Closers : at[q] = "returned"} \cup {p}
    BY <1>2
  <1>4. p \notin {q \in Closers : at[q] = "returned"}
    OBVIOUS
  <1>5. \A f \in Promise!Accepted : body[f] \in Outcomes
    BY DoneReports DEF Promise!Accepted
  <1>6. r = {f \in Promise!Accepted : body[f] \in {"error", "panic"}}
    <2>1. CASE \E q \in Closers : taken[q] # << >> /\ r = errs[q]
      <3>1. r = {Accepted[i] : i \in
                    {k \in DOMAIN Accepted : body[Accepted[k]] \in {"error", "panic"}}}
        BY <2>1, DoneReports
      <3>2. QED BY <3>1 DEF Promise!Accepted
    <2>2. CASE r = {} /\ \A q \in Closers : taken[q] = << >>
      <3>1. Accepted = << >>
        BY <2>2, DoneReports
      <3>2. Promise!Accepted = {}
        BY <3>1 DEF Promise!Accepted
      <3>3. QED BY <2>2, <3>2
    <2>3. QED BY <2>1, <2>2
  <1>7. r = {f \in Promise!Accepted : Promise!Failed(body[f])}
    BY <1>5, <1>6 DEF Promise!Failed, Outcomes
  <1>8. Promise!Report(p)
    BY <1>1, <1>3, <1>4, <1>5, <1>7 DEF Promise!Report, Promise!Outcomes, Outcomes
  <1>9. QED BY <1>8 DEF Promise!Next

(* A call of Close, the first or a later one, is a step of the promise or no
   step of it. *)
LEMMA CloseMaps ==
    ASSUME ScopeInv, NEW p \in Closers, CallClose(p) \/ Close(p)
    PROVE  [Promise!Next]_(Promise!vars)
  <1>0. at \in [Closers -> ClosePlaces] /\ taken \in [Closers -> Seq(Cleanups)]
    BY DEF ScopeInv, ScopeTypeOK
  <1>1. CASE \/ CallClose(p) \/ FirstClose(p) \/ CloseCancels(p)
             \/ CloseStoresError(p) \/ AnotherClose(p)
    <2>1. UNCHANGED <<closed, cleanups, taken, body, result>>
      BY <1>1 DEF CallClose, FirstClose, CloseCancels, CloseStoresError, AnotherClose, shared
    <2>2. \A q \in Closers : at'[q] = "returned" <=> at[q] = "returned"
      BY <1>0, <1>1 DEF CallClose, FirstClose, CloseCancels, CloseStoresError, AnotherClose
    <2>3. QED BY <2>1, <2>2, Stutters
  <1>2. CASE CloseTakesCleanups(p)
    <2>1. /\ at[p] = "mark" /\ closed' = TRUE /\ cleanups' = << >>
          /\ taken' = [taken EXCEPT ![p] = cleanups]
          /\ at' = [at EXCEPT ![p] = "run"]
          /\ UNCHANGED <<body, result>>
      BY <1>2 DEF CloseTakesCleanups
    <2>2. \A q \in Closers : taken[q] = << >>
      BY <2>1 DEF ScopeInv, ClosedKnown, OneTakes
    <2>3. Accepted = cleanups
      BY <2>2, AcceptedIs
    <2>4. \A q \in Closers : taken'[q] = IF q = p THEN cleanups ELSE << >>
      BY <1>0, <2>1, <2>2
    <2>5. Accepted' = cleanups
      <3>1. CASE cleanups = << >>
        BY <2>1, <2>4, <3>1 DEF Accepted
      <3>2. CASE cleanups # << >>
        <4>1. (CHOOSE q \in Closers : taken'[q] # << >>) = p
          BY <2>4, <3>2
        <4>2. QED BY <2>4, <3>2, <4>1 DEF Accepted
      <3>3. QED BY <3>1, <3>2
    <2>6. {q \in Closers : at[q] = "returned"}' = {q \in Closers : at[q] = "returned"}
      BY <1>0, <2>1
    <2>7. Promise!End
      BY <2>1, <2>3, <2>5, <2>6 DEF Promise!End
    <2>8. QED BY <2>7 DEF Promise!Next
  <1>3. CASE RunCleanup(p) \/ \E o \in Outcomes : CleanupReturns(p, o)
    BY <1>3, RunMaps
  <1>4. CASE CloseReturns(p)
    <2>1. /\ at[p] = "signal" /\ at' = [at EXCEPT ![p] = "returned"]
          /\ result' = [result EXCEPT ![p] = errs[p]]
          /\ UNCHANGED <<closed, cleanups, taken, body>>
      BY <1>4 DEF CloseReturns
    <2>2. closed /\ \A q \in Closers : at[q] \notin {"run", "running"}
      BY <2>1 DEF ScopeInv, ClosedKnown, OneTakes, Took
    <2>3. \A q \in Closers : taken[q] # << >> => q = p
      BY <2>1 DEF ScopeInv, OneTakes, Took
    <2>4. CASE taken[p] # << >>
      BY <2>1, <2>2, <2>4, ReturnMaps
    <2>5. CASE taken[p] = << >>
      <3>1. \A q \in Closers : taken[q] = << >>
        BY <2>3, <2>5
      <3>2. errs[p] = {}
        BY <2>5 DEF ScopeInv, ErrorsKept, FailedOf
      <3>3. QED BY <2>1, <2>2, <3>1, <3>2, ReturnMaps
    <2>6. QED BY <2>4, <2>5
  <1>5. CASE AnotherCloseReturns(p)
    <2>1. /\ at[p] = "wait" /\ done /\ at' = [at EXCEPT ![p] = "returned"]
          /\ result' = [result EXCEPT ![p] = closeErr]
          /\ UNCHANGED <<closed, cleanups, taken, body>>
      BY <1>5 DEF AnotherCloseReturns, shared
    <2>2. closed /\ \A q \in Closers : at[q] \notin {"run", "running"}
      BY <2>1 DEF ScopeInv, ErrorsKept
    <2>3. \/ \E q \in Closers : taken[q] # << >> /\ closeErr = errs[q]
          \/ closeErr = {} /\ \A q \in Closers : taken[q] = << >>
      BY <2>1 DEF ScopeInv, ErrorsKept
    <2>4. QED BY <2>1, <2>2, <2>3, ReturnMaps
  <1>6. QED BY <1>1, <1>2, <1>3, <1>4, <1>5 DEF Close

(* The mutex, the context and the channel of plugin.ComponentScope keep what
   HostContext.OnCleanup and Close promise, for any number of callers. *)
THEOREM ScopeImplementsLifetime == ScopeSpec => ImplementsLifetime
  <1>1. ScopeInv /\ [ScopeNext]_scopeVars => [Promise!Next]_(Promise!vars)
    <2> SUFFICES ASSUME ScopeInv, [ScopeNext]_scopeVars
                 PROVE  [Promise!Next]_(Promise!vars)
      OBVIOUS
    <2>1. CASE CancelParent \/ UNCHANGED scopeVars
      BY <2>1, Stutters DEF CancelParent, scopeVars, shared, closing
    <2>2. CASE \E f \in Cleanups : CallOnCleanup(f) \/ OnCleanup(f)
      BY <2>2, OnCleanupMaps
    <2>3. CASE \E p \in Closers : CallClose(p) \/ Close(p)
      BY <2>3, CloseMaps
    <2>4. QED BY <2>1, <2>2, <2>3 DEF ScopeNext
  <1>2. QED BY InitMaps, <1>1, ScopeAlwaysSound, PTL
           DEF ScopeSpec, ImplementsLifetime, Promise!Spec
=============================================================================
