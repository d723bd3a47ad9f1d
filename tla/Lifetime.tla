------------------------------ MODULE Lifetime ------------------------------
(***************************************************************************)
(* What HostContext.OnCleanup and ComponentScope.Close promise a component *)
(* author (plugin/module.go), without the mutex, the goroutines or the     *)
(* channel they are built from: cleanups accepted during the lifetime run  *)
(* after it ended, newest first, one at a time, each once; one that comes  *)
(* too late runs at once; and every Close reports the failures of all of   *)
(* the accepted ones.                                                      *)
(*                                                                         *)
(* ComponentScope is the implementation, and implements this.              *)
(***************************************************************************)
EXTENDS Integers, Sequences

CONSTANTS
    Cleanups,       \* the functions handed to OnCleanup, one registration each
    Closers         \* the calls to Close

(* How a cleanup that ran ended.  A panic is one more way to fail. *)
Outcomes == {"nil", "error", "panic"}
Failed(outcome) == outcome # "nil"

VARIABLES
    ended,       \* Close has begun
    accepted,    \* the cleanups registered during the lifetime, in order
    fate,        \* per cleanup: "waiting", "running" or its outcome
    returned,    \* the Closes that have returned
    reported     \* per Close: the failures it returned

vars == <<ended, accepted, fate, returned, reported>>

Accepted == {accepted[i] : i \in DOMAIN accepted}

Init ==
    /\ ended = FALSE
    /\ accepted = << >>
    /\ fate = [f \in Cleanups |-> "waiting"]
    /\ returned = {}
    /\ reported = [p \in Closers |-> {}]

Accept(f) ==
    /\ ~ended
    /\ f \notin Accepted
    /\ accepted' = Append(accepted, f)
    /\ UNCHANGED <<ended, fate, returned, reported>>

End ==
    /\ ended' = TRUE
    /\ UNCHANGED <<accepted, fate, returned, reported>>

(* Every cleanup registered after this one has already run. *)
RunAccepted(i) ==
    /\ ended
    /\ fate[accepted[i]] = "waiting"
    /\ \A j \in i + 1 .. Len(accepted) : fate[accepted[j]] \in Outcomes
    /\ fate' = [fate EXCEPT ![accepted[i]] = "running"]
    /\ UNCHANGED <<ended, accepted, returned, reported>>

RunLate(f) ==
    /\ ended
    /\ f \notin Accepted
    /\ fate[f] = "waiting"
    /\ fate' = [fate EXCEPT ![f] = "running"]
    /\ UNCHANGED <<ended, accepted, returned, reported>>

Finish(f, outcome) ==
    /\ fate[f] = "running"
    /\ fate' = [fate EXCEPT ![f] = outcome]
    /\ UNCHANGED <<ended, accepted, returned, reported>>

Report(p) ==
    /\ ended
    /\ p \notin returned
    /\ \A f \in Accepted : fate[f] \in Outcomes
    /\ returned' = returned \cup {p}
    /\ reported' = [reported EXCEPT ![p] = {f \in Accepted : Failed(fate[f])}]
    /\ UNCHANGED <<ended, accepted, fate>>

Next ==
    \/ \E f \in Cleanups : Accept(f) \/ RunLate(f)
    \/ \E f \in Cleanups, outcome \in Outcomes : Finish(f, outcome)
    \/ \E i \in DOMAIN accepted : RunAccepted(i)
    \/ \E p \in Closers : Report(p)
    \/ End

Spec == Init /\ [][Next]_vars
=============================================================================
