--------------------------- MODULE FileCacheProofs ---------------------------
(***************************************************************************)
(* Proofs about one key of the file cache, for any number of Sets and Gets *)
(* and any sizes, limit and TTL.                                           *)
(*                                                                         *)
(* The file is only ever mixed when two Sets have it open together.  In    *)
(* between it holds the beginning of one entry, and a Get that no Set      *)
(* overlaps reads a prefix of that, so what it has read decodes only when  *)
(* it is the whole entry.                                                  *)
(***************************************************************************)
EXTENDS FileCache, TLAPS

Pieces == [of : Sets \cup {"hole"}, at : Nat]

SetRecords ==
    [at : {"idle", "encoded", "writing", "done", "failed"}, began : Int, behind : Int,
     stamp : Int, size : Nat, offset : Nat]

GetRecords == [at : {"idle", "reading", "read", "hit", "miss"}, data : Seq(Pieces)]

Typed ==
    /\ now \in Int /\ behind \in Int
    /\ present \in BOOLEAN /\ clobbered \in BOOLEAN
    /\ file \in Seq(Pieces)
    /\ set \in [Sets -> SetRecords]
    /\ get \in [Gets -> GetRecords]
    /\ raced \subseteq Gets

(* An entry's stamp is what the wall clock showed when its Set began, and the
   writing starts at its first piece. *)
Encoded ==
    \A s \in Sets :
       /\ set[s].at # "idle" => set[s].stamp = set[s].began - set[s].behind
       /\ set[s].at = "encoded" => set[s].offset = 0

(* f is the beginning of one of the entries that the Sets have encoded. *)
BeginsOneOf(f, sets) ==
    \A i \in 1 .. Len(f) :
       /\ f[i].of \in Sets
       /\ f[i].of = f[1].of
       /\ f[i].at = i
       /\ sets[f[i].of].at # "idle"
       /\ i <= sets[f[i].of].size

BeginsOneEntry(f) == BeginsOneOf(f, set)

(* What s has written is what the file holds. *)
OwnsFile(s) ==
    /\ Len(file) = set[s].offset
    /\ \A i \in 1 .. Len(file) : file[i].of = s

(* A file that is not clobbered begins one entry, and has one writer at most,
   which wrote all of it. *)
QuietFile ==
    ~clobbered =>
       /\ BeginsOneEntry(file)
       /\ \A s \in Sets : Writing(s) => OwnsFile(s)
       /\ \A s, t \in Sets : Writing(s) /\ Writing(t) => s = t

(* A Get under way that met no race has read the beginning of a file that
   nobody is writing. *)
FollowsFile(g) ==
    /\ present
    /\ ~clobbered
    /\ \A s \in Sets : ~Writing(s)
    /\ Len(file) <= Limit
    /\ Len(get[g].data) <= Len(file)
    /\ \A i \in 1 .. Len(get[g].data) : get[g].data[i] = file[i]

QuietGets ==
    \A g \in Gets \ raced :
       /\ get[g].at \in {"reading", "read"} => FollowsFile(g)
       /\ get[g].at = "read" => Len(get[g].data) = Len(file)

(* What a quiet Get has read is the beginning of one entry, and all of it once
   the Get has hit. *)
QuietData ==
    \A g \in Gets \ raced :
       /\ BeginsOneEntry(get[g].data)
       /\ get[g].at = "hit" =>
             /\ get[g].data # << >>
             /\ Len(get[g].data) = set[get[g].data[1].of].size

(* Nothing is read before the file is open. *)
IdleGets == \A g \in Gets : get[g].at = "idle" => get[g].data = << >>

CacheInv == Typed /\ Encoded /\ QuietFile /\ QuietGets /\ QuietData /\ IdleGets
-----------------------------------------------------------------------------
(* An entry stays the entry it was encoded as. *)
LEMMA EntryStays ==
    ASSUME NEW f, NEW old, NEW new, BeginsOneOf(f, old),
           \A s \in Sets : old[s].at # "idle" => new[s].at # "idle" /\ new[s].size = old[s].size
    PROVE  BeginsOneOf(f, new)
  BY DEF BeginsOneOf

(* A step of one Set changes nothing of the others. *)
LEMMA OnlyThatSet ==
    ASSUME Typed, NEW s \in Sets, NEW r \in SetRecords, set' = [set EXCEPT ![s] = r]
    PROVE  /\ set' \in [Sets -> SetRecords]
           /\ set'[s] = r
           /\ \A t \in Sets : t # s => set'[t] = set[t]
  BY DEF Typed

(* What Gets have read is not touched by a step that keeps the entries. *)
LEMMA DataStays ==
    ASSUME CacheInv, get' = get, raced \subseteq raced',
           \A s \in Sets : set[s].at # "idle" => set'[s].at # "idle" /\ set'[s].size = set[s].size
    PROVE  QuietData' /\ IdleGets'
  <1>t. Typed /\ QuietData /\ IdleGets
    BY DEF CacheInv
  <1>1. ASSUME NEW g \in Gets \ raced'
        PROVE  /\ BeginsOneOf(get[g].data, set')
               /\ get[g].at = "hit" =>
                     /\ get[g].data # << >>
                     /\ Len(get[g].data) = set'[get[g].data[1].of].size
    <2>1. BeginsOneOf(get[g].data, set) BY <1>t, <1>1 DEF QuietData, BeginsOneEntry
    <2>2. BeginsOneOf(get[g].data, set') BY <2>1, EntryStays
    <2>3. ASSUME get[g].at = "hit"
          PROVE  /\ get[g].data # << >>
                 /\ Len(get[g].data) = set'[get[g].data[1].of].size
      <3>1. get[g].data # << >> /\ Len(get[g].data) = set[get[g].data[1].of].size
        BY <2>3, <1>t DEF QuietData
      <3>2. get[g].data \in Seq(Pieces) BY <1>t DEF Typed, GetRecords
      <3>3. get[g].data[1].of \in Sets /\ set[get[g].data[1].of].at # "idle"
        BY <3>1, <3>2, <2>1 DEF BeginsOneOf
      <3>4. QED BY <3>1, <3>3
    <2>4. QED BY <2>2, <2>3
  <1>2. QuietData' BY <1>1 DEF QuietData, BeginsOneEntry
  <1>3. QED BY <1>2, <1>t DEF IdleGets
-----------------------------------------------------------------------------
(* A new entry belongs to a Set of which the file holds nothing yet. *)
LEMMA SetEncodesKeeps ==
    ASSUME CacheInv, NEW s \in Sets, SetEncodes(s) PROVE CacheInv'
  <1>t. Typed /\ Encoded /\ QuietFile /\ QuietGets
    BY DEF CacheInv
  <1>u. UNCHANGED <<now, behind, present, file, get, clobbered, raced>> /\ set[s].at = "idle"
    BY DEF SetEncodes
  <1> PICK size \in Sizes :
          set' = [set EXCEPT ![s] = [at |-> "encoded", began |-> now, behind |-> behind,
                                     stamp |-> Wall, size |-> size, offset |-> 0]]
    BY DEF SetEncodes
  <1> DEFINE r == [at |-> "encoded", began |-> now, behind |-> behind,
                   stamp |-> Wall, size |-> size, offset |-> 0]
  <1>r. r \in SetRecords
    BY <1>t, CacheAssumption DEF SetRecords, Typed, Wall
  <1>1. /\ set' \in [Sets -> SetRecords]
        /\ set'[s] = r
        /\ \A t \in Sets : t # s => set'[t] = set[t]
    BY <1>t, <1>r, OnlyThatSet
  <1>2. \A t \in Sets : set[t].at # "idle" => set'[t].at # "idle" /\ set'[t].size = set[t].size
    BY <1>1, <1>u
  <1>3. \A t \in Sets : (set'[t].at = "writing" <=> set[t].at = "writing")
                        /\ (set[t].at = "writing" => set'[t] = set[t])
    BY <1>1, <1>u
  <1>4. Typed' BY <1>t, <1>u, <1>1 DEF Typed
  <1>5. Encoded' BY <1>t, <1>1 DEF Encoded, Wall
  <1>6. QuietFile'
    <2>1. BeginsOneOf(file, set) => BeginsOneOf(file, set')
      <3> SUFFICES ASSUME BeginsOneOf(file, set) PROVE BeginsOneOf(file, set')
        OBVIOUS
      <3> HIDE DEF r
      <3> QED BY ONLY <1>2, EntryStays, BeginsOneOf(file, set)
    <2>2. QED BY <1>t, <1>u, <1>3, <2>1 DEF QuietFile, BeginsOneEntry, OwnsFile, Writing
  <1>7. QuietGets' BY <1>t, <1>u, <1>3 DEF QuietGets, FollowsFile, Writing
  <1>8. QuietData' /\ IdleGets' BY <1>u, <1>2, DataStays
  <1>9. QED BY <1>4, <1>5, <1>6, <1>7, <1>8 DEF CacheInv

(* A truncated file begins every entry; the Gets under way are raced from now on. *)
LEMMA SetOpensKeeps ==
    ASSUME CacheInv, NEW s \in Sets, SetOpens(s) PROVE CacheInv'
  <1>t. Typed /\ Encoded /\ QuietFile /\ QuietGets
    BY DEF CacheInv
  <1>u. /\ UNCHANGED <<now, behind, get>>
        /\ present' = TRUE
        /\ file' = << >>
        /\ set[s].at = "encoded"
        /\ set' = [set EXCEPT ![s].at = "writing"]
        /\ clobbered' = \E t \in Sets : Writing(t)
        /\ raced' = raced \cup {g \in Gets : get[g].at \in {"reading", "read"}}
    BY DEF SetOpens, OpenedFile
  <1>1. /\ set' \in [Sets -> SetRecords]
        /\ \A t \in Sets : set'[t].size = set[t].size /\ set'[t].stamp = set[t].stamp
                           /\ set'[t].began = set[t].began /\ set'[t].behind = set[t].behind
                           /\ set'[t].offset = set[t].offset
                           /\ (set'[t].at = "idle" <=> set[t].at = "idle")
                           /\ (set'[t].at = "encoded" => set[t].at = "encoded")
                           /\ (set'[t].at = "writing" => t = s \/ set[t].at = "writing")
    BY <1>t, <1>u DEF Typed, SetRecords
  <1>2. Typed' BY <1>t, <1>u, <1>1 DEF Typed
  <1>3. Encoded' BY <1>t, <1>1 DEF Encoded
  <1>4. QuietFile'
    <2>1. \A t \in Sets : set'[t].at = "writing" /\ ~clobbered' => t = s
      BY <1>u, <1>1 DEF Writing
    <2>2. set[s].offset = 0 BY <1>t, <1>u DEF Encoded
    <2>3. QED
      BY <1>u, <1>1, <2>1, <2>2 DEF QuietFile, BeginsOneEntry, BeginsOneOf, OwnsFile, Writing
  <1>5. QuietGets' BY <1>u DEF QuietGets
  <1>6. QuietData' /\ IdleGets' BY <1>u, <1>1, DataStays
  <1>7. QED BY <1>2, <1>3, <1>4, <1>5, <1>6 DEF CacheInv

(* A lone writer's next piece lands at the end of the file. *)
LEMMA SetWritesKeeps ==
    ASSUME CacheInv, NEW s \in Sets, SetWrites(s) PROVE CacheInv'
  <1>t. Typed /\ Encoded /\ QuietFile /\ QuietGets
    BY DEF CacheInv
  <1>u. /\ UNCHANGED <<now, behind, present, get, clobbered, raced>>
        /\ set[s].at = "writing"
        /\ set[s].offset < set[s].size
        /\ file' = Written(file, set[s].offset, Piece(s, set[s].offset + 1))
        /\ set' = [set EXCEPT ![s].offset = set[s].offset + 1]
    BY DEF SetWrites, Writing
  <1>1. /\ set' \in [Sets -> SetRecords]
        /\ \A t \in Sets : set'[t].at = set[t].at /\ set'[t].size = set[t].size
                           /\ set'[t].stamp = set[t].stamp
                           /\ set'[t].began = set[t].began /\ set'[t].behind = set[t].behind
                           /\ (set[t].at = "encoded" => set'[t].offset = set[t].offset)
        /\ set'[s].offset = set[s].offset + 1
    BY <1>t, <1>u DEF Typed, SetRecords
  <1>2. file' \in Seq(Pieces)
    <2> DEFINE n == set[s].offset
               p == Piece(s, n + 1)
    <2>1. file \in Seq(Pieces) /\ n \in Nat /\ p \in Pieces /\ Hole \in Pieces
      BY <1>t DEF Typed, SetRecords, Pieces, Piece, Hole
    <2> HIDE DEF n, p
    <2>2. Written(file, n, p) \in Seq(Pieces)
      BY <2>1 DEF Written
    <2>3. QED BY <2>2, <1>u DEF n, p
  <1>3. Typed' BY <1>t, <1>u, <1>1, <1>2 DEF Typed
  <1>4. Encoded' BY <1>t, <1>1 DEF Encoded
  <1>5. QuietFile'
    <2> SUFFICES ASSUME ~clobbered
                 PROVE  /\ BeginsOneOf(file', set')
                        /\ \A t \in Sets : Writing(t)' => OwnsFile(t)'
                        /\ \A t, v \in Sets : Writing(t)' /\ Writing(v)' => t = v
      BY <1>u DEF QuietFile, BeginsOneEntry
    <2>1. /\ \A t \in Sets : set[t].at = "writing" => t = s
          /\ BeginsOneOf(file, set)
          /\ OwnsFile(s)
      BY <1>t, <1>u DEF QuietFile, BeginsOneEntry, Writing
    <2>2. \A t \in Sets : set'[t].at = "writing" => t = s
      BY <1>1, <2>1
    <2>3. file \in Seq(Pieces) /\ Len(file) = set[s].offset /\ set[s].offset \in Nat
          /\ set[s].size \in Nat
      BY <1>t, <2>1 DEF Typed, SetRecords, OwnsFile
    <2>4. /\ Len(file') = Len(file) + 1
          /\ \A i \in 1 .. Len(file) : file'[i] = file[i]
          /\ file'[Len(file) + 1] = Piece(s, Len(file) + 1)
      BY <1>u, <2>3 DEF Written
    <2>a. Len(file') = set'[s].offset /\ Len(file') <= set'[s].size /\ set'[s].at # "idle"
      BY <2>3, <2>4, <1>1, <1>u
    <2>b. \A i \in 1 .. Len(file) : file[i].of = s /\ file[i].at = i
      BY <2>1 DEF OwnsFile, BeginsOneOf
    <2>c. \A i \in 1 .. Len(file') : file'[i].of = s /\ file'[i].at = i
      <3> TAKE i \in 1 .. Len(file')
      <3>1. CASE i <= Len(file)
        <4>1. i \in 1 .. Len(file) BY <3>1, <2>3, <2>4
        <4>2. QED BY <4>1, <2>b, <2>4
      <3>2. CASE ~(i <= Len(file))
        <4>1. i = Len(file) + 1 BY <3>2, <2>3, <2>4
        <4>2. QED BY <4>1, <2>4 DEF Piece
      <3>3. QED BY <3>1, <3>2
    <2>5. OwnsFile(s)'
      BY <2>a, <2>c DEF OwnsFile
    <2>6. BeginsOneOf(file', set')
      <3> SUFFICES ASSUME NEW i \in 1 .. Len(file')
                   PROVE  /\ file'[i].of \in Sets
                          /\ file'[i].of = file'[1].of
                          /\ file'[i].at = i
                          /\ set'[file'[i].of].at # "idle"
                          /\ i <= set'[file'[i].of].size
        BY DEF BeginsOneOf
      <3>1. 1 \in 1 .. Len(file') BY <2>3, <2>4
      <3>2. file'[i].of = s /\ file'[1].of = s /\ file'[i].at = i
        BY <2>c, <3>1
      <3>3. i <= set'[s].size BY <2>a, <2>3, <2>4, <1>1
      <3>4. QED BY <3>2, <3>3, <2>a
    <2>7. QED BY <2>2, <2>5, <2>6 DEF Writing
  <1>6. QuietGets' BY <1>t, <1>u, <1>1 DEF QuietGets, FollowsFile, Writing
  <1>7. QuietData' /\ IdleGets' BY <1>u, <1>1, DataStays
  <1>8. QED BY <1>3, <1>4, <1>5, <1>6, <1>7 DEF CacheInv

(* A Set that returns or dies leaves the file as it is. *)
LEMMA SetEndsKeeps ==
    ASSUME CacheInv, NEW s \in Sets, SetReturns(s) \/ SetFails(s) PROVE CacheInv'
  <1>t. Typed /\ Encoded /\ QuietFile /\ QuietGets
    BY DEF CacheInv
  <1>u. /\ UNCHANGED <<now, behind, present, file, get, clobbered, raced>>
        /\ set[s].at # "idle"
        /\ \E end \in {"done", "failed"} : set' = [set EXCEPT ![s].at = end]
    BY DEF SetReturns, SetFails, Writing
  <1>1. /\ set' \in [Sets -> SetRecords]
        /\ \A t \in Sets : set'[t].size = set[t].size /\ set'[t].stamp = set[t].stamp
                           /\ set'[t].began = set[t].began /\ set'[t].behind = set[t].behind
                           /\ set'[t].offset = set[t].offset
                           /\ (set'[t].at = "idle" <=> set[t].at = "idle")
                           /\ (set'[t].at \in {"encoded", "writing"} => set'[t].at = set[t].at)
    BY <1>t, <1>u DEF Typed, SetRecords
  <1>2. Typed' BY <1>t, <1>u, <1>1 DEF Typed
  <1>3. Encoded' BY <1>t, <1>1 DEF Encoded
  <1>4. QuietFile'
    <2>1. BeginsOneOf(file, set) => BeginsOneOf(file, set')
      BY ONLY <1>1, EntryStays
    <2>2. QED BY <1>t, <1>u, <1>1, <2>1 DEF QuietFile, BeginsOneEntry, OwnsFile, Writing
  <1>5. QuietGets' BY <1>t, <1>u, <1>1 DEF QuietGets, FollowsFile, Writing
  <1>6. QuietData' /\ IdleGets' BY <1>u, <1>1, DataStays
  <1>7. QED BY <1>2, <1>3, <1>4, <1>5, <1>6 DEF CacheInv
-----------------------------------------------------------------------------
(* A step of one Get leaves the file, the Sets and the other Gets alone: only
   what it does to that Get is to be shown. *)
LEMMA OneGetKeeps ==
    ASSUME CacheInv, NEW g \in Gets, UNCHANGED <<now, behind, present, file, set, clobbered>>,
           raced' \in {raced, raced \cup {g}},
           get' \in [Gets -> GetRecords],
           \A h \in Gets : h # g => get'[h] = get[h],
           get'[g].at = "idle" => get'[g].data = << >>,
           g \notin raced' => /\ get'[g].at \in {"reading", "read"} => FollowsFile(g)'
                              /\ get'[g].at = "read" => Len(get'[g].data) = Len(file)
                              /\ BeginsOneOf(get'[g].data, set)
                              /\ get'[g].at = "hit" =>
                                    /\ get'[g].data # << >>
                                    /\ Len(get'[g].data) = set[get'[g].data[1].of].size
    PROVE  CacheInv'
  <1>t. Typed /\ Encoded /\ QuietFile /\ QuietGets /\ QuietData /\ IdleGets
    BY DEF CacheInv
  <1>1. Typed' BY <1>t DEF Typed
  <1>2. Encoded' /\ QuietFile'
    BY <1>t DEF Encoded, QuietFile, BeginsOneEntry, OwnsFile, Writing
  <1>3. QuietGets'
    <2> SUFFICES ASSUME NEW h \in Gets \ raced'
                 PROVE  /\ get'[h].at \in {"reading", "read"} => FollowsFile(h)'
                        /\ get'[h].at = "read" => Len(get'[h].data) = Len(file')
      BY DEF QuietGets
    <2>1. CASE h = g BY <2>1
    <2>2. CASE h # g
      <3>1. h \in Gets \ raced /\ get'[h] = get[h] BY <2>2
      <3>2. QED BY <3>1, <1>t DEF QuietGets, FollowsFile, Writing
    <2>3. QED BY <2>1, <2>2
  <1>4. QuietData'
    <2> SUFFICES ASSUME NEW h \in Gets \ raced'
                 PROVE  /\ BeginsOneOf(get'[h].data, set')
                        /\ get'[h].at = "hit" =>
                              /\ get'[h].data # << >>
                              /\ Len(get'[h].data) = set'[get'[h].data[1].of].size
      BY DEF QuietData, BeginsOneEntry
    <2>1. CASE h = g BY <2>1
    <2>2. CASE h # g
      <3>1. h \in Gets \ raced /\ get'[h] = get[h] BY <2>2
      <3>2. QED BY <3>1, <1>t DEF QuietData, BeginsOneEntry
    <2>3. QED BY <2>1, <2>2
  <1>5. IdleGets' BY <1>t DEF IdleGets
  <1>6. QED BY <1>1, <1>2, <1>3, <1>4, <1>5 DEF CacheInv

(* A Get that opens a file nobody is writing starts from nothing read. *)
LEMMA GetOpensKeeps ==
    ASSUME CacheInv, NEW g \in Gets, GetOpens(g) PROVE CacheInv'
  <1>t. Typed /\ QuietFile /\ QuietData /\ IdleGets
    BY DEF CacheInv
  <1>u. /\ UNCHANGED <<now, behind, present, file, set, clobbered>>
        /\ get[g].at = "idle"
        /\ get' = [get EXCEPT ![g].at = IF Refused THEN "miss" ELSE "reading"]
        /\ raced' = IF ~Refused /\ (clobbered \/ \E s \in Sets : Writing(s))
                    THEN raced \cup {g} ELSE raced
    BY DEF GetOpens
  <1>1. /\ get' \in [Gets -> GetRecords]
        /\ get'[g].at = IF Refused THEN "miss" ELSE "reading"
        /\ get'[g].data = get[g].data
        /\ \A h \in Gets : h # g => get'[h] = get[h]
    BY <1>t, <1>u DEF Typed, GetRecords
  <1>2. get'[g].data = << >> BY <1>1, <1>t, <1>u DEF IdleGets
  <1>3. BeginsOneOf(<< >>, set) BY DEF BeginsOneOf
  <1>4. ASSUME g \notin raced', get'[g].at = "reading" PROVE FollowsFile(g)'
    <2>1. ~Refused /\ ~clobbered /\ \A s \in Sets : ~Writing(s)
      BY <1>4, <1>1, <1>u
    <2>2. present /\ Len(file) <= Limit /\ Len(file) \in Nat
      BY <2>1, <1>t, CacheAssumption DEF Refused, Typed
    <2>3. QED BY <2>1, <2>2, <1>2, <1>u DEF FollowsFile, Writing
  <1>5. raced' \in {raced, raced \cup {g}} /\ get'[g].at \in {"miss", "reading"}
    BY <1>1, <1>u
  <1>6. QED BY <1>u, <1>1, <1>2, <1>3, <1>4, <1>5, OneGetKeeps

(* One more piece of the file is one more piece of a prefix. *)
LEMMA GetReadsKeeps ==
    ASSUME CacheInv, NEW g \in Gets, GetReads(g) PROVE CacheInv'
  <1>t. Typed /\ QuietFile /\ QuietGets
    BY DEF CacheInv
  <1> DEFINE d == get[g].data
  <1>u. /\ UNCHANGED <<now, behind, present, file, set, clobbered, raced>>
        /\ get[g].at = "reading"
        /\ ~(Len(d) >= Len(file))
        /\ get' = [get EXCEPT ![g].data = Append(d, file[Len(d) + 1])]
    BY DEF GetReads, Reading, AtEnd
  <1>1. d \in Seq(Pieces) /\ file \in Seq(Pieces) BY <1>t DEF Typed, GetRecords
  <1>2. Len(d) + 1 \in 1 .. Len(file) /\ Len(d) \in Nat /\ Len(file) \in Nat
    BY <1>1, <1>u
  <1>3. file[Len(d) + 1] \in Pieces BY <1>1, <1>2
  <1>4. /\ Append(d, file[Len(d) + 1]) \in Seq(Pieces)
        /\ Len(Append(d, file[Len(d) + 1])) = Len(d) + 1
        /\ \A i \in 1 .. Len(d) : Append(d, file[Len(d) + 1])[i] = d[i]
        /\ Append(d, file[Len(d) + 1])[Len(d) + 1] = file[Len(d) + 1]
    BY <1>1, <1>3
  <1>5. /\ get' \in [Gets -> GetRecords]
        /\ get'[g].at = "reading"
        /\ get'[g].data = Append(d, file[Len(d) + 1])
        /\ \A h \in Gets : h # g => get'[h] = get[h]
    BY <1>t, <1>u, <1>4 DEF Typed, GetRecords
  <1>6. ASSUME g \notin raced PROVE FollowsFile(g)' /\ BeginsOneOf(get'[g].data, set)
    <2>1. FollowsFile(g) BY <1>6, <1>t, <1>u DEF QuietGets
    <2>2. \A i \in 1 .. Len(get'[g].data) : get'[g].data[i] = file[i]
      <3> TAKE i \in 1 .. Len(get'[g].data)
      <3>1. i \in 1 .. Len(d) \/ i = Len(d) + 1 BY <1>2, <1>4, <1>5
      <3>2. QED BY <3>1, <2>1, <1>4, <1>5 DEF FollowsFile
    <2>3. Len(get'[g].data) <= Len(file) /\ Len(get'[g].data) \in Nat
      BY <1>2, <1>4, <1>5
    <2>4. FollowsFile(g)' BY <2>1, <2>2, <2>3, <1>u DEF FollowsFile, Writing
    <2>5. BeginsOneOf(file, set) BY <2>1, <1>t DEF FollowsFile, QuietFile, BeginsOneEntry
    <2>6. \A i \in 1 .. Len(get'[g].data) : i \in 1 .. Len(file) /\ 1 \in 1 .. Len(get'[g].data)
      BY <2>3, <1>2
    <2>7. BeginsOneOf(get'[g].data, set) BY <2>2, <2>5, <2>6 DEF BeginsOneOf
    <2>8. QED BY <2>4, <2>7
  <1>7. QED BY <1>u, <1>5, <1>6, OneGetKeeps

(* The three ways on from reading: too large, at the end, answered. *)
LEMMA GetMovesKeeps ==
    ASSUME CacheInv, NEW g \in Gets, GetExceedsLimit(g) \/ GetReachesEnd(g) \/ GetReturns(g)
    PROVE  CacheInv'
  <1>t. Typed /\ QuietFile /\ QuietGets /\ QuietData
    BY DEF CacheInv
  <1> DEFINE d == get[g].data
  <1>u. /\ UNCHANGED <<now, behind, present, file, set, clobbered, raced>>
        /\ get[g].at \in {"reading", "read"}
        /\ \E to \in {"miss", "read", "hit"} :
              /\ get' = [get EXCEPT ![g].at = to]
              /\ to = "read" => Len(d) >= Len(file)
              /\ to = "hit" => Decodes(d)
    BY DEF GetExceedsLimit, GetReachesEnd, GetReturns, Reading, AtEnd
  <1>1. /\ get' \in [Gets -> GetRecords]
        /\ get'[g].at \in {"miss", "read", "hit"}
        /\ get'[g].at = "read" => Len(d) >= Len(file)
        /\ get'[g].at = "hit" => Decodes(d)
        /\ get'[g].data = d
        /\ \A h \in Gets : h # g => get'[h] = get[h]
    BY <1>t, <1>u DEF Typed, GetRecords
  <1>2. ASSUME g \notin raced
        PROVE  /\ FollowsFile(g)'
               /\ get'[g].at = "read" => Len(d) = Len(file)
               /\ BeginsOneOf(d, set)
               /\ get'[g].at = "hit" => d # << >> /\ Len(d) = set[d[1].of].size
    <2>1. FollowsFile(g) BY <1>2, <1>t, <1>u DEF QuietGets
    <2>2. FollowsFile(g)' BY <2>1, <1>1, <1>u DEF FollowsFile, Writing
    <2>3. d \in Seq(Pieces) /\ file \in Seq(Pieces) BY <1>t DEF Typed, GetRecords
    <2>4. get'[g].at = "read" => Len(d) = Len(file)
      BY <2>1, <2>3, <1>1 DEF FollowsFile
    <2>5. BeginsOneOf(d, set) BY <1>2, <1>t DEF QuietData, BeginsOneEntry
    <2>6. ASSUME Decodes(d) PROVE d # << >> /\ Len(d) = set[d[1].of].size
      <3>1. d # << >> /\ Len(d) \in DOMAIN d /\ Len(d) \in 1 .. Len(d)
        BY <2>6, <2>3 DEF Decodes
      <3>2. d[Len(d)].at = set[d[Len(d)].of].size /\ d[Len(d)].at = Len(d)
        BY <2>6, <3>1 DEF Decodes, Closing
      <3>3. QED BY <3>1, <3>2, <2>5 DEF BeginsOneOf
    <2>7. QED BY <2>2, <2>4, <2>5, <2>6, <1>1
  <1>3. QED BY <1>u, <1>1, <1>2, OneGetKeeps

(* Time goes on, or the wall clock is set back. *)
LEMMA ClockKeeps ==
    ASSUME CacheInv, Tick \/ SetClockBack PROVE CacheInv'
  <1>t. Typed BY DEF CacheInv
  <1>1. /\ UNCHANGED <<present, file, set, get, clobbered, raced>>
        /\ now' \in Int /\ behind' \in Int
    BY <1>t DEF Tick, SetClockBack, Typed
  <1>2. QED
    BY <1>1 DEF CacheInv, Typed, Encoded, QuietFile, QuietGets, QuietData, IdleGets,
                BeginsOneEntry, OwnsFile, FollowsFile, Writing
-----------------------------------------------------------------------------
(* The file, the entries and what each Get has read stay in step whatever Sets
   and Gets do to the one file (cache.go:83, cache.go:114). *)
THEOREM CacheAlwaysSound == Spec => []CacheInv
  <1>1. Init => CacheInv
    <2> SUFFICES ASSUME Init PROVE CacheInv
      OBVIOUS
    <2>1. /\ \A s \in Sets : set[s].at = "idle"
          /\ \A g \in Gets : get[g].at = "idle" /\ get[g].data = << >>
      BY DEF Init
    <2>2. Typed
      <3>1. << >> \in Seq(Pieces) OBVIOUS
      <3>2. [at |-> "idle", data |-> << >>] \in GetRecords BY <3>1 DEF GetRecords
      <3>3. get \in [Gets -> GetRecords] BY <3>2 DEF Init
      <3>4. set \in [Sets -> SetRecords] BY DEF Init, SetRecords
      <3>5. present \in BOOLEAN /\ clobbered \in BOOLEAN /\ raced \subseteq Gets BY Zenon DEF Init
      <3>6. now \in Int /\ behind \in Int /\ file \in Seq(Pieces) BY <3>1 DEF Init
      <3>7. QED BY <3>3, <3>4, <3>5, <3>6 DEF Typed
    <2>3. Encoded BY <2>1 DEF Encoded
    <2>4. QuietFile /\ QuietGets /\ QuietData /\ IdleGets
      BY <2>1 DEF Init, QuietFile, QuietGets, QuietData, IdleGets, BeginsOneEntry, BeginsOneOf,
                  Writing
    <2>5. QED BY <2>2, <2>3, <2>4 DEF CacheInv
  <1>2. CacheInv /\ [Next]_vars => CacheInv'
    <2> SUFFICES ASSUME CacheInv, [Next]_vars PROVE CacheInv'
      OBVIOUS
    <2>1. ASSUME NEW s \in Sets,
                 SetEncodes(s) \/ SetOpens(s) \/ SetWrites(s) \/ SetReturns(s) \/ SetFails(s)
          PROVE  CacheInv'
      BY <2>1, SetEncodesKeeps, SetOpensKeeps, SetWritesKeeps, SetEndsKeeps
    <2>2. ASSUME NEW g \in Gets,
                 \/ GetOpens(g) \/ GetReads(g) \/ GetExceedsLimit(g)
                 \/ GetReachesEnd(g) \/ GetReturns(g)
          PROVE  CacheInv'
      BY <2>2, GetOpensKeeps, GetReadsKeeps, GetMovesKeeps
    <2>3. CASE UNCHANGED vars
      BY <2>3 DEF CacheInv, Typed, Encoded, QuietFile, QuietGets, QuietData, IdleGets,
                  BeginsOneEntry, OwnsFile, FollowsFile, Writing, vars
    <2>4. QED BY <2>1, <2>2, <2>3, ClockKeeps DEF Next
  <1>3. QED BY <1>1, <1>2, PTL DEF Spec

(* A hit that no Set overlapped is the whole entry of one Set, whatever died
   half-way before (cache.go:83, cache.go:114). *)
THEOREM HitIsAlwaysWhole == Spec => []HitIsWhole
  <1>1. CacheInv => HitIsWhole
    <2> SUFFICES ASSUME CacheInv, NEW g \in Gets \ raced, get[g].at = "hit"
                 PROVE  Whole(get[g].data)
      BY DEF HitIsWhole
    <2> DEFINE d == get[g].data
               s == d[1].of
    <2>1. d \in Seq(Pieces) BY DEF CacheInv, Typed, GetRecords
    <2>2. d # << >> /\ Len(d) = set[s].size /\ BeginsOneOf(d, set)
      BY DEF CacheInv, QuietData, BeginsOneEntry
    <2>3. 1 \in 1 .. Len(d) BY <2>1, <2>2
    <2>4. s \in Sets BY <2>2, <2>3 DEF BeginsOneOf
    <2>5. \A i \in 1 .. Len(d) : d[i] = Piece(s, i)
      <3> TAKE i \in 1 .. Len(d)
      <3>1. d[i] \in Pieces BY <2>1
      <3>2. d[i].of = s /\ d[i].at = i BY <2>2 DEF BeginsOneOf
      <3>3. QED BY <3>1, <3>2 DEF Pieces, Piece
    <2>6. d = [i \in 1 .. set[s].size |-> Piece(s, i)]
      <3> HIDE DEF d, s
      <3>1. Len(d) = set[s].size BY <2>2
      <3>2. d = [i \in 1 .. Len(d) |-> d[i]] BY <2>1
      <3>3. QED BY <2>5, <3>1, <3>2
    <2>7. QED BY <2>4, <2>6 DEF Whole
  <1>2. QED BY <1>1, CacheAlwaysSound, PTL

(* What a quiet Get is about to answer with, when it answers: the file. *)
LEMMA ReadIsFile ==
    ASSUME CacheInv, NEW g \in Gets \ raced, get[g].at = "read"
    PROVE  get[g].data = file /\ present /\ Len(file) <= Limit
  <1>1. get[g].data \in Seq(Pieces) /\ file \in Seq(Pieces)
    BY DEF CacheInv, Typed, GetRecords
  <1>2. FollowsFile(g) /\ Len(get[g].data) = Len(file)
    BY DEF CacheInv, QuietGets
  <1>3. QED BY <1>1, <1>2 DEF FollowsFile

(* A step that answers a Get is one of these. *)
LEMMA AnsweringSteps ==
    ASSUME CacheInv, [Next]_vars, NEW g \in Gets, ~Returned(g), get'[g].at \in {"hit", "miss"}
    PROVE  GetOpens(g) \/ GetExceedsLimit(g) \/ GetReturns(g)
  <1>1. get'[g].at # get[g].at BY DEF Returned
  <1>2. get \in [Gets -> GetRecords] BY DEF CacheInv, Typed
  <1>3. ASSUME NEW h \in Gets, h # g,
               \/ GetOpens(h) \/ GetReads(h) \/ GetExceedsLimit(h)
               \/ GetReachesEnd(h) \/ GetReturns(h)
        PROVE  get'[g] = get[g]
    BY <1>2, <1>3 DEF GetOpens, GetReads, GetExceedsLimit, GetReachesEnd, GetReturns
  <1>4. ~GetReads(g) BY <1>1, <1>2 DEF GetReads, GetRecords
  <1>5. ~GetReachesEnd(g) BY <1>2 DEF GetReachesEnd, GetRecords
  <1>6. ASSUME get' = get PROVE FALSE BY <1>1, <1>6
  <1>7. QED
    BY <1>1, <1>3, <1>4, <1>5, <1>6
       DEF Next, vars, SetEncodes, SetOpens, SetWrites, SetReturns, SetFails, Tick, SetClockBack

(* A hit that met no race is no older than the TTL, but for what the clock was
   set back in between (cache.go:98). *)
THEOREM HitIsNeverStale == Spec => HitIsNotStale
  <1>1. CacheInv /\ [Next]_vars =>
           [\A g \in Gets \ raced :
               get[g].at = "read" /\ get'[g].at = "hit" =>
                  \A i \in DOMAIN get[g].data :
                     LET s == get[g].data[i].of
                     IN now - set[s].began <= TTL + (behind - set[s].behind)]_vars
    <2> SUFFICES ASSUME CacheInv, [Next]_vars, NEW g \in Gets \ raced,
                        get[g].at = "read", get'[g].at = "hit",
                        NEW i \in DOMAIN get[g].data
                 PROVE  now - set[get[g].data[i].of].began
                           <= TTL + (behind - set[get[g].data[i].of].behind)
      OBVIOUS
    <2> DEFINE d == get[g].data
               s == d[1].of
    <2>1. GetReturns(g)
      <3>1. GetOpens(g) \/ GetExceedsLimit(g) \/ GetReturns(g)
        BY AnsweringSteps DEF Returned
      <3>2. QED BY <3>1 DEF GetOpens, GetExceedsLimit, Reading
    <2>2. get \in [Gets -> GetRecords] /\ d \in Seq(Pieces)
      BY DEF CacheInv, Typed, GetRecords
    <2>3. Fresh(d) BY <2>1, <2>2 DEF GetReturns, GetRecords
    <2>4. BeginsOneOf(d, set) BY DEF CacheInv, QuietData, BeginsOneEntry
    <2>5. i \in 1 .. Len(d) /\ 1 \in 1 .. Len(d) BY <2>2
    <2>6. d[i].of = s /\ s \in Sets /\ set[s].at # "idle" BY <2>4, <2>5 DEF BeginsOneOf
    <2>7. set[s].stamp = set[s].began - set[s].behind BY <2>6 DEF CacheInv, Encoded
    <2>8. /\ now \in Int /\ behind \in Int /\ TTL \in Int
          /\ set[s].began \in Int /\ set[s].behind \in Int
      BY <2>6, CacheAssumption DEF CacheInv, Typed, SetRecords
    <2>9. QED BY <2>3, <2>6, <2>7, <2>8 DEF Fresh, Stamp, Wall
  <1>2. QED BY <1>1, CacheAlwaysSound, PTL DEF Spec, HitIsNotStale

(* A Get that met no race hits exactly when the file holds one object within
   the limit and the TTL (cache.go:90, cache.go:98). *)
THEOREM QuietGetIsAlwaysExact == Spec => QuietGetIsExact
  <1>1. CacheInv /\ [Next]_vars =>
           [\A g \in Gets \ raced' :
               ~Returned(g) /\ get'[g].at \in {"hit", "miss"} =>
                  (get'[g].at = "hit"
                     <=> ~Refused /\ Decodes(file) /\ Fresh(file))]_vars
    <2> SUFFICES ASSUME CacheInv, [Next]_vars, NEW g \in Gets \ raced',
                        ~Returned(g), get'[g].at \in {"hit", "miss"}
                 PROVE  get'[g].at = "hit" <=> ~Refused /\ Decodes(file) /\ Fresh(file)
      OBVIOUS
    <2>t. get \in [Gets -> GetRecords] /\ file \in Seq(Pieces) /\ get[g].data \in Seq(Pieces)
      BY DEF CacheInv, Typed, GetRecords
    <2>1. CASE GetOpens(g)
      BY <2>1, <2>t DEF GetOpens, GetRecords
    <2>2. CASE GetExceedsLimit(g)
      <3>1. Len(get[g].data) = Limit /\ ~(Len(get[g].data) >= Len(file))
        BY <2>2 DEF GetExceedsLimit, Spent, AtEnd
      <3>2. Refused BY <3>1, <2>t, CacheAssumption DEF Refused
      <3>3. get'[g].at = "miss" BY <2>2, <2>t DEF GetExceedsLimit, GetRecords
      <3>4. QED BY <3>2, <3>3
    <2>3. CASE GetReturns(g)
      <3>1. get[g].at = "read" /\ g \in Gets \ raced BY <2>3 DEF GetReturns
      <3>2. get[g].data = file /\ present /\ Len(file) <= Limit BY <3>1, ReadIsFile
      <3>3. ~Refused BY <3>2, <2>t, CacheAssumption DEF Refused
      <3>4. get'[g].at = IF Decodes(get[g].data) /\ Fresh(get[g].data) THEN "hit" ELSE "miss"
        BY <2>3, <2>t DEF GetReturns, GetRecords
      <3>5. QED BY <3>2, <3>3, <3>4
    <2>4. QED BY <2>1, <2>2, <2>3, AnsweringSteps
  <1>2. QED BY <1>1, CacheAlwaysSound, PTL DEF Spec, QuietGetIsExact
=============================================================================
