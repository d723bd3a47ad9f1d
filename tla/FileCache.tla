------------------------------ MODULE FileCache ------------------------------
(***************************************************************************)
(* The file of one key of a filecache.FileCache, shared by every process   *)
(* that was given the same directory: Set (os.WriteFile in place), Get     *)
(* (system.ReadCacheFile, a bounded read, then a decode and the TTL), the  *)
(* clock, and a Set that dies half-way.                                    *)
(*                                                                         *)
(* A file is a sequence of pieces, what one read or write call moves.  The *)
(* first piece of an entry holds its time stamp, the last one closes its   *)
(* JSON object.  A nil cache stores nothing and is left out.               *)
(***************************************************************************)
EXTENDS Integers, Sequences

CONSTANTS
    Sets,      \* the calls of Set
    Gets,      \* the calls of Get
    Sizes,     \* BOUND: the sizes of an encoded entry, in pieces
    Limit,     \* MaxCacheEntryBytes, in pieces
    TTL,
    MaxTime    \* BOUND: the clock's last value

ASSUME CacheAssumption ==
    /\ Sizes \subseteq Nat \ {0}
    /\ Limit \in Nat /\ TTL \in Nat /\ MaxTime \in Nat
    /\ "hole" \notin Sets

VARIABLES
    now,         \* time as it passes
    behind,      \* how far the wall clock has been set back in all
    present,     \* whether the file exists
    file,        \* its pieces
    set,         \* per Set: where it is and what it writes (began, behind: history)
    get,         \* per Get: where it is and what it has read
    clobbered,   \* history: two Sets had the file open since it was last truncated alone
    raced        \* history: the Gets that a Set overlapped, or that found the file clobbered

vars == <<now, behind, present, file, set, get, clobbered, raced>>

(* What time.Now reports; an entry's stamp is read from a file, so it carries
   no monotonic reading that would survive a clock set back. *)
Wall == now - behind

Piece(s, i) == [of |-> s, at |-> i]
Hole == [of |-> "hole", at |-> 0]

Writing(s) == set[s].at = "writing"
Reading(g) == get[g].at = "reading"
Returned(g) == get[g].at \in {"hit", "miss"}

Init ==
    /\ now = 0
    /\ behind = 0
    /\ present = FALSE
    /\ file = << >>
    /\ set = [s \in Sets |-> [at |-> "idle", began |-> 0, behind |-> 0, stamp |-> 0,
                              size |-> 0, offset |-> 0]]
    /\ get = [g \in Gets |-> [at |-> "idle", data |-> << >>]]
    /\ clobbered = FALSE
    /\ raced = {}
-----------------------------------------------------------------------------
(* Set takes the time and encodes the entry. *)
SetEncodes(s) ==
    /\ set[s].at = "idle"
    /\ \E size \in Sizes :
          set' = [set EXCEPT ![s] = [at |-> "encoded", began |-> now, behind |-> behind,
                                     stamp |-> Wall, size |-> size, offset |-> 0]]
    /\ UNCHANGED <<now, behind, present, file, get, clobbered, raced>>

(* Bug: the file is opened without O_TRUNC. *)
OpenedFileKept == file

(* os.WriteFile opens with O_TRUNC: what was there is gone at once. *)
OpenedFile == << >>

SetOpens(s) ==
    /\ set[s].at = "encoded"
    /\ present' = TRUE
    /\ file' = OpenedFile
    /\ set' = [set EXCEPT ![s].at = "writing"]
    /\ clobbered' = \E t \in Sets : Writing(t)
    /\ raced' = raced \cup {g \in Gets : get[g].at \in {"reading", "read"}}
    /\ UNCHANGED <<now, behind, get>>

(* A file with one piece written at an offset of the writer's own, past the
   end perhaps if another Set truncated it. *)
Written(f, offset, piece) ==
    [i \in 1 .. (IF offset < Len(f) THEN Len(f) ELSE offset + 1) |->
        IF i = offset + 1 THEN piece
        ELSE IF i <= Len(f) THEN f[i] ELSE Hole]

SetWrites(s) ==
    /\ Writing(s)
    /\ set[s].offset < set[s].size
    /\ file' = Written(file, set[s].offset, Piece(s, set[s].offset + 1))
    /\ set' = [set EXCEPT ![s].offset = @ + 1]
    /\ UNCHANGED <<now, behind, present, get, clobbered, raced>>

SetReturns(s) ==
    /\ Writing(s)
    /\ set[s].offset = set[s].size
    /\ set' = [set EXCEPT ![s].at = "done"]
    /\ UNCHANGED <<now, behind, present, file, get, clobbered, raced>>

(* The open or a write fails, or the process dies: what has been written stays. *)
SetFails(s) ==
    /\ set[s].at \in {"encoded", "writing"}
    /\ set' = [set EXCEPT ![s].at = "failed"]
    /\ UNCHANGED <<now, behind, present, file, get, clobbered, raced>>
-----------------------------------------------------------------------------
(* The file does not open, or is already too large. *)
Refused == ~present \/ Len(file) > Limit

GetOpens(g) ==
    /\ get[g].at = "idle"
    /\ get' = [get EXCEPT ![g].at = IF Refused THEN "miss" ELSE "reading"]
    /\ raced' = IF ~Refused /\ (clobbered \/ \E s \in Sets : Writing(s))
                THEN raced \cup {g} ELSE raced
    /\ UNCHANGED <<now, behind, present, file, set, clobbered>>

AtEnd(g) == Len(get[g].data) >= Len(file)

(* Bug: a file of exactly the limit is refused. *)
SpentOneEarly(g) == Len(get[g].data) + 1 >= Limit

(* limitedFileReader.remaining is zero. *)
Spent(g) == Len(get[g].data) = Limit

GetReads(g) ==
    /\ Reading(g)
    /\ ~AtEnd(g)
    /\ ~Spent(g)
    /\ get' = [get EXCEPT ![g].data = Append(@, file[Len(@) + 1])]
    /\ UNCHANGED <<now, behind, present, file, set, clobbered, raced>>

(* The file has grown past the limit since it was opened. *)
GetExceedsLimit(g) ==
    /\ Reading(g)
    /\ ~AtEnd(g)
    /\ Spent(g)
    /\ get' = [get EXCEPT ![g].at = "miss"]
    /\ UNCHANGED <<now, behind, present, file, set, clobbered, raced>>

GetReachesEnd(g) ==
    /\ Reading(g)
    /\ AtEnd(g)
    /\ get' = [get EXCEPT ![g].at = "read"]
    /\ UNCHANGED <<now, behind, present, file, set, clobbered, raced>>

Closing(piece) == piece.of \in Sets /\ piece.at = set[piece.of].size

(* json.Unmarshal: one object, closed by the last piece and no earlier.  Of
   pieces of several entries that line up the model takes the worst: they make
   an object, as entries of one layout do. *)
Decodes(data) ==
    /\ data # << >>
    /\ \A i \in DOMAIN data :
          /\ data[i].at = i
          /\ Closing(data[i]) <=> i = Len(data)

Stamp(data) == set[data[1].of].stamp

(* Bug: an entry is served for one unit more than the TTL. *)
FreshOneMore(data) == Wall - Stamp(data) <= TTL + 1

Fresh(data) == Wall - Stamp(data) <= TTL

GetReturns(g) ==
    /\ get[g].at = "read"
    /\ get' = [get EXCEPT ![g].at = IF Decodes(get[g].data) /\ Fresh(get[g].data)
                                    THEN "hit" ELSE "miss"]
    /\ UNCHANGED <<now, behind, present, file, set, clobbered, raced>>
-----------------------------------------------------------------------------
Tick ==
    /\ now < MaxTime
    /\ now' = now + 1
    /\ UNCHANGED <<behind, present, file, set, get, clobbered, raced>>

SetClockBack ==
    /\ behind < now
    /\ behind' = behind + 1
    /\ UNCHANGED <<now, present, file, set, get, clobbered, raced>>

Next ==
    \/ \E s \in Sets :
          SetEncodes(s) \/ SetOpens(s) \/ SetWrites(s) \/ SetReturns(s) \/ SetFails(s)
    \/ \E g \in Gets :
          GetOpens(g) \/ GetReads(g) \/ GetExceedsLimit(g) \/ GetReachesEnd(g) \/ GetReturns(g)
    \/ Tick
    \/ SetClockBack

Spec == Init /\ [][Next]_vars
-----------------------------------------------------------------------------
(* data is the whole of the entry of one Set. *)
Whole(data) == \E s \in Sets : data = [i \in 1 .. set[s].size |-> Piece(s, i)]

(* A hit is the whole entry of one Set, though Sets before it died half-way or
   ran out of space, as long as no Set had the file open together with this Get
   or with another Set (cache.go:83, cache.go:114). *)
HitIsWhole ==
    \A g \in Gets \ raced : get[g].at = "hit" => Whole(get[g].data)

(* A hit is no older than the TTL, counted from before its Set began to write
   to the moment of the answer, but for what the clock was set back in between
   (cache.go:98). *)
HitIsNotStale ==
    [][\A g \in Gets \ raced :
          get[g].at = "read" /\ get'[g].at = "hit" =>
             \A i \in DOMAIN get[g].data :
                LET s == get[g].data[i].of
                IN now - set[s].began <= TTL + (behind - set[s].behind)]_vars

(* A Get that met no race answers for what is there: it hits exactly when the
   file holds one object within the limit and the TTL. *)
QuietGetIsExact ==
    [][\A g \in Gets \ raced' :
          ~Returned(g) /\ get'[g].at \in {"hit", "miss"} =>
             (get'[g].at = "hit"
                <=> ~Refused /\ Decodes(file) /\ Fresh(file))]_vars
=============================================================================
