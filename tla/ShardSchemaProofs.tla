-------------------------- MODULE ShardSchemaProofs -------------------------
(* Theorems about ShardSchema for every number of processes and shards.     *)
EXTENDS ShardSchema, SequenceTheorems, TLAPS

----------------------------------------------------------------------------
(* What is created, and in which order *)

LEMMA JoinedSeq ==
    ASSUME NEW S, NEW s \in Seq(S), NEW t \in Seq(S)
    PROVE  s \o t \in Seq(S) /\ Len(s \o t) = Len(s) + Len(t)
  BY ConcatProperties

LEMMA JoinedLeft ==
    ASSUME NEW S, NEW s \in Seq(S), NEW t \in Seq(S), NEW i \in 1 .. Len(s)
    PROVE  (s \o t)[i] = s[i]
  BY ConcatProperties, LenProperties

LEMMA JoinedRight ==
    ASSUME NEW S, NEW s \in Seq(S), NEW t \in Seq(S), NEW i \in 1 .. Len(t)
    PROVE  (s \o t)[Len(s) + i] = t[i]
<1>1. /\ Len(s) + i \in 1 .. Len(s) + Len(t)
      /\ ~(Len(s) + i <= Len(s)) /\ Len(s) + i - Len(s) = i
  BY LenProperties
<1> QED
  BY <1>1, ConcatProperties

LEMMA CreatedIs ==
    /\ DOMAIN Created = 1 .. 5 /\ Len(Created) = 5
    /\ Created[1] = "journal_mode"
    /\ Created[2] = "fila"
    /\ Created[3] = "shard_metadata"
    /\ Created[4] = "dead_letter_queue"
    /\ Created[5] = "idx_pop_job"
<1> DEFINE S == {"journal_mode", "fila", "shard_metadata", "dead_letter_queue",
                 "idx_pop_job"}
           first == Pragmas \o Tables
<1>1. /\ Pragmas \in Seq(S) /\ Len(Pragmas) = 1
      /\ Tables \in Seq(S) /\ Len(Tables) = 3
      /\ Indexes \in Seq(S) /\ Len(Indexes) = 1
  BY DEF Pragmas, Tables, Indexes
<1> HIDE DEF S
<1>2. first \in Seq(S) /\ Len(first) = Len(Pragmas) + Len(Tables)
  BY <1>1, JoinedSeq
<1>3. Len(first) = 4
  BY <1>1, <1>2
<1>4. /\ first[1] = Pragmas[1]
      /\ first[1 + 1] = Tables[1]
      /\ first[1 + 2] = Tables[2]
      /\ first[1 + 3] = Tables[3]
  <2>1. /\ 1 \in 1 .. Len(Pragmas)
        /\ 1 \in 1 .. Len(Tables) /\ 2 \in 1 .. Len(Tables) /\ 3 \in 1 .. Len(Tables)
    BY <1>1
  <2>2. first[1] = Pragmas[1]
    BY <1>1, <2>1, JoinedLeft
  <2>3. ASSUME NEW i \in 1 .. Len(Tables) PROVE first[Len(Pragmas) + i] = Tables[i]
    <3>1. Pragmas \in Seq(S) /\ Tables \in Seq(S)
      BY <1>1
    <3> QED
      BY ONLY <3>1, i \in 1 .. Len(Tables), JoinedRight
  <2> QED
    BY <1>1, <2>1, <2>2, <2>3
<1>5. Created = first \o Indexes
  BY DEF Created
<1> HIDE DEF first
<1>6. Created \in Seq(S) /\ Len(Created) = Len(first) + Len(Indexes)
  BY <1>1, <1>2, <1>5, JoinedSeq
<1>7. Len(Created) = 5 /\ DOMAIN Created = 1 .. 5
  BY <1>1, <1>3, <1>6
<1>8. \A i \in 1 .. Len(first) : Created[i] = first[i]
  BY <1>1, <1>2, <1>5, JoinedLeft
<1>9. ASSUME NEW i \in 1 .. Len(Indexes) PROVE Created[Len(first) + i] = Indexes[i]
  <2>1. first \in Seq(S) /\ Indexes \in Seq(S)
    BY <1>1, <1>2
  <2> QED
    BY ONLY <1>5, <2>1, i \in 1 .. Len(Indexes), JoinedRight
<1>10. /\ Created[1] = first[1] /\ Created[2] = first[2]
       /\ Created[3] = first[3] /\ Created[4] = first[4]
  BY <1>3, <1>8
<1>11. Created[5] = Indexes[1]
  <2>1. 1 \in 1 .. Len(Indexes) /\ Len(first) + 1 = 5
    BY <1>1, <1>3
  <2> QED
    BY <1>9, <2>1
<1> QED
  BY <1>4, <1>7, <1>10, <1>11 DEF Pragmas, Tables, Indexes

LEMMA CurrentIs ==
    Current = {"journal_mode", "fila", "shard_metadata", "dead_letter_queue",
               "idx_pop_job"}
<1>1. Current = {Created[i] : i \in 1 .. 5}
  BY CreatedIs DEF Current
<1>2. /\ Created[1] = "journal_mode" /\ Created[2] = "fila"
      /\ Created[3] = "shard_metadata" /\ Created[4] = "dead_letter_queue"
      /\ Created[5] = "idx_pop_job"
  BY CreatedIs
<1>3. \A i : i \in 1 .. 5 <=> i \in {1, 2, 3, 4, 5}
  OBVIOUS
<1> QED
  BY <1>1, <1>2, <1>3

\* Each object is created at one place of the order.
LEMMA CreatedOnce ==
    ASSUME NEW i \in 1 .. 5, NEW j \in 1 .. 5, Created[i] = Created[j]
    PROVE  i = j
<1>1. \A k \in 1 .. 5 : k = 1 \/ k = 2 \/ k = 3 \/ k = 4 \/ k = 5
  OBVIOUS
<1> QED
  BY <1>1, CreatedIs

\* The stage after a creation: the next of them, or what comes after the last.
LEMMA AfterCreateIs ==
    ASSUME NEW p \in Opener, NEW i \in 1 .. 5, pc[p] = Created[i]
    PROVE  /\ i < 5 => AfterCreate(p) = Created[i + 1]
           /\ i = 5 => AfterCreate(p) =
                          IF isNew[p] THEN "insert meta" ELSE "read version"
<1>1. (CHOOSE k \in DOMAIN Created : Created[k] = pc[p]) = i
  BY CreatedIs, CreatedOnce
<1>2. i < 5 => pc[p] # Created[5]
  BY CreatedOnce
<1>3. Created[Len(Created)] = Created[5] /\ 1 + i = i + 1
  BY CreatedIs
<1> HIDE DEF Created
<1>4. i < 5 => AfterCreate(p) = Created[1 + i]
  BY <1>1, <1>2, <1>3 DEF AfterCreate
<1>5. i = 5 => AfterCreate(p) = IF isNew[p] THEN "insert meta" ELSE "read version"
  BY <1>3 DEF AfterCreate
<1> QED
  BY <1>3, <1>4, <1>5

----------------------------------------------------------------------------
(* What no step takes away from a file, and what follows for everybody *)

Kept ==
    /\ file \subseteq file' /\ orphans \subseteq orphans' /\ skipped \subseteq skipped'
    /\ \A s \in Shard :
          /\ objects[s] \cap (Current \cup {Constraint}) \subseteq objects'[s]
          /\ Legacy \in objects'[s] => Legacy \in objects[s]
          /\ "fila" \in objects'[s] => "fila" \in objects[s] \/ Constraint \in objects'[s]
          /\ meta[s] # NULL => meta'[s] # NULL

\* Nobody but p goes on.
OthersRest(p) ==
    \A q \in Opener \ {p} : /\ pc'[q] = pc[q] /\ shard'[q] = shard[q]
                            /\ opened'[q] = opened[q] /\ isNew'[q] = isNew[q]

\* A version that is current is so already, or what it tells is true.
VersionsEarned ==
    \A s \in Shard : meta'[s] # NULL /\ meta'[s].version = SCHEMA_VERSION =>
        \/ meta[s] # NULL /\ meta[s].version = SCHEMA_VERSION
        \/ DropTried(s) /\ AlterTried(s)

\* p keeps account of the files it creates.
CreatesAccounted(p) ==
    /\ \A s \in Shard : Creating(p, s) =>
          Creating(p, s)' \/ s \in orphans' \/ meta'[s] # NULL
    /\ \A s \in file' \ file : Creating(p, s)'

LEMMA TriedKept ==
    ASSUME SchemaInv, Kept, NEW s \in Shard
    PROVE  /\ DropTried(s) => DropTried(s)'
           /\ AlterTried(s) => AlterTried(s)'
  BY DEF Kept, DropTried, AlterTried

LEMMA OthersSound ==
    ASSUME SchemaInv, Kept, NEW p \in Opener, OthersRest(p), NEW q \in Opener, q # p
    PROVE  OpenerSound(q)'
<1>1. /\ pc'[q] = pc[q] /\ shard'[q] = shard[q]
      /\ opened'[q] = opened[q] /\ isNew'[q] = isNew[q]
      /\ shard[q] \in Shard
      /\ OpenerSound(q)
  BY DEF OthersRest, SchemaInv, SchemaTypeOK
<1>2. Passed(q)' = Passed(q)
  BY <1>1 DEF Passed
<1>3. /\ pc'[q] # "out" => shard'[q] < opened'[q]
      /\ pc'[q] \in Current \cup AfterIndexes => shard'[q] \in file'
      /\ pc'[q] = "connect" /\ ~isNew'[q] => shard'[q] \in file'
  BY <1>1 DEF OpenerSound, Kept
<1>4. \A s \in Passed(q)' : s \in file' /\ Current \subseteq objects'[s]
  BY <1>1, <1>2 DEF OpenerSound, Kept, Passed
<1>5. \A i \in DOMAIN Created : pc'[q] = Created[i] =>
          \A j \in 1 .. i - 1 : Created[j] \in objects'[shard'[q]]
  <2> SUFFICES ASSUME NEW i \in 1 .. 5, pc[q] = Created[i], NEW j \in 1 .. i - 1
               PROVE  Created[j] \in objects'[shard[q]]
    BY <1>1, CreatedIs
  <2>1. j \in DOMAIN Created /\ i \in DOMAIN Created
    BY CreatedIs
  <2>2. Created[j] \in Current
    BY <2>1 DEF Current
  <2>3. Created[j] \in objects[shard[q]]
    BY <1>1, <2>1 DEF OpenerSound
  <2> QED
    BY <1>1, <2>2, <2>3 DEF Kept
<1>6. pc'[q] \in AfterIndexes => Current \subseteq objects'[shard'[q]]
  BY <1>1 DEF OpenerSound, Kept
<1>7. /\ pc'[q] \in {"alter", "update version"} => DropTried(shard[q])'
      /\ pc'[q] = "update version" => AlterTried(shard[q])'
  BY <1>1 DEF OpenerSound, Kept, DropTried, AlterTried
<1> QED
  BY <1>3, <1>4, <1>5, <1>6, <1>7 DEF OpenerSound

LEMMA AccountKept ==
    ASSUME SchemaInv, Kept, NEW p \in Opener, OthersRest(p), CreatesAccounted(p),
           file' \subseteq Shard
    PROVE  FilesAccounted'
<1> SUFFICES ASSUME NEW s \in file'
             PROVE  \/ meta'[s] # NULL
                    \/ s \in orphans'
                    \/ \E q \in Opener : Creating(q, s)'
  BY DEF FilesAccounted
<1>1. CASE s \notin file
  BY <1>1 DEF CreatesAccounted
<1>2. CASE s \in file
  <2>1. s \in Shard
    OBVIOUS
  <2>2. CASE meta[s] # NULL \/ s \in orphans
    BY <2>1, <2>2 DEF Kept
  <2>3. ASSUME NEW q \in Opener, Creating(q, s)
        PROVE  \/ meta'[s] # NULL
               \/ s \in orphans'
               \/ \E r \in Opener : Creating(r, s)'
    <3>1. CASE q = p
      BY <2>1, <2>3, <3>1 DEF CreatesAccounted
    <3>2. CASE q # p
      BY <2>3, <3>2 DEF OthersRest, Creating
    <3> QED
      BY <3>1, <3>2
  <2> QED
    BY <1>2, <2>2, <2>3 DEF SchemaInv, FilesAccounted
<1> QED
  BY <1>1, <1>2

\* What is left to show of a step of p.
LEMMA StepKeepsInv ==
    ASSUME SchemaInv, NEW p \in Opener, SchemaTypeOK', Kept, OthersRest(p),
           VersionsEarned, CreatesAccounted(p), OpenerSound(p)'
    PROVE  SchemaInv'
<1>1. \A q \in Opener : OpenerSound(q)'
  BY OthersSound
<1>2. FilesAccounted'
  BY AccountKept DEF SchemaTypeOK
<1>3. RowlessIsCurrent'
  BY DEF RowlessIsCurrent, Kept, SchemaInv
<1>4. VersionTellsMigrated'
  BY TriedKept DEF VersionTellsMigrated, VersionsEarned, SchemaInv
<1> QED
  BY <1>1, <1>2, <1>3, <1>4 DEF SchemaInv

----------------------------------------------------------------------------
(* One lemma per step *)

\* After the last statement for a shard the process is through with it.
LEMMA NextShardSound ==
    ASSUME SchemaInv, NEW p \in Opener, Kept, pc[p] \in AfterIndexes,
           NextShard(p), UNCHANGED <<opened, isNew>>
    PROVE  /\ OpenerSound(p)' /\ OthersRest(p)
           /\ shard' \in [Opener -> Shard] /\ pc' \in [Opener -> Stage]
           /\ pc'[p] \in {"look", "ready"}
<1>1. /\ shard[p] \in Shard /\ shard[p] \in Nat
      /\ opened[p] \in Nat /\ opened[p] <= NumShards /\ NumShards \in Nat
      /\ shard[p] < opened[p]
      /\ shard \in [Opener -> Shard] /\ pc \in [Opener -> Stage]
  <2>1. /\ shard[p] \in Shard /\ opened[p] \in 0 .. NumShards
        /\ shard \in [Opener -> Shard] /\ pc \in [Opener -> Stage]
    BY DEF SchemaInv, SchemaTypeOK
  <2>2. shard[p] < opened[p]
    BY DEF SchemaInv, OpenerSound, AfterIndexes
  <2> QED
    BY <2>1, <2>2, SchemaAssumption DEF Shard
<1>2. /\ \A s \in Shard : s <= shard[p] => s \in file /\ Current \subseteq objects[s]
  <2>1. shard[p] \in file /\ Current \subseteq objects[shard[p]]
    BY DEF SchemaInv, OpenerSound
  <2>2. \A s \in Shard : s < shard[p] => s \in file /\ Current \subseteq objects[s]
    BY DEF SchemaInv, OpenerSound, Passed, AfterIndexes
  <2>3. \A s \in Shard : s <= shard[p] => s < shard[p] \/ s = shard[p]
    BY <1>1 DEF Shard
  <2> QED
    BY <2>1, <2>2, <2>3
<1>3. \A s \in Shard : s <= shard[p] => s \in file' /\ Current \subseteq objects'[s]
  BY <1>2 DEF Kept
<1>4. CASE shard[p] + 1 < opened[p]
  <2>1. /\ shard' = [shard EXCEPT ![p] = shard[p] + 1]
        /\ pc' = [pc EXCEPT ![p] = "look"]
    BY <1>4 DEF NextShard, GoTo
  <2>2. shard[p] + 1 \in Shard
    BY <1>1, <1>4 DEF Shard
  <2>3. /\ pc'[p] = "look" /\ shard'[p] = shard[p] + 1 /\ opened'[p] = opened[p]
        /\ shard' \in [Opener -> Shard] /\ pc' \in [Opener -> Stage]
        /\ OthersRest(p)
    BY <1>1, <2>1, <2>2 DEF Stage, OthersRest
  <2>4. \A s \in Passed(p)' : s \in file' /\ Current \subseteq objects'[s]
    <3>1. \A s \in Shard : s < shard[p] + 1 => s <= shard[p]
      BY <1>1 DEF Shard
    <3> QED
      BY <1>3, <2>3, <3>1 DEF Passed
  <2> QED
    BY <1>4, <2>3, <2>4, CreatedIs, CurrentIs DEF OpenerSound, AfterIndexes, Current
<1>5. CASE ~(shard[p] + 1 < opened[p])
  <2>1. /\ shard' = shard
        /\ pc' = [pc EXCEPT ![p] = "ready"]
    BY <1>5 DEF NextShard, GoTo
  <2>2. /\ pc'[p] = "ready" /\ shard'[p] = shard[p] /\ opened'[p] = opened[p]
        /\ shard' \in [Opener -> Shard] /\ pc' \in [Opener -> Stage]
        /\ OthersRest(p)
    BY <1>1, <2>1 DEF Stage, OthersRest
  <2>3. \A s \in Passed(p)' : s \in file' /\ Current \subseteq objects'[s]
    <3>1. \A s \in Shard : s < opened[p] => s <= shard[p]
      BY <1>1, <1>5 DEF Shard
    <3> QED
      BY <1>3, <2>2, <3>1 DEF Passed
  <2> QED
    BY <1>1, <2>2, <2>3, CreatedIs, CurrentIs DEF OpenerSound, AfterIndexes, Current
<1> QED
  BY <1>4, <1>5

LEMMA OpenInv ==
    ASSUME SchemaInv, NEW p \in Opener, NEW n \in 1 .. NumShards, Open(p, n)
    PROVE  SchemaInv'
<1>1. /\ pc[p] = "out" /\ pc' = [pc EXCEPT ![p] = "look"]
      /\ opened' = [opened EXCEPT ![p] = n] /\ shard' = [shard EXCEPT ![p] = 0]
      /\ UNCHANGED <<file, objects, meta, isNew, orphans, skipped>>
  BY DEF Open, GoTo
<1>2. 0 \in Shard /\ n \in 0 .. NumShards /\ 0 < n /\ \A s \in Shard : ~(s < 0)
  BY SchemaAssumption DEF Shard
<1>3. SchemaTypeOK'
  BY <1>1, <1>2 DEF SchemaInv, SchemaTypeOK, Stage
<1>4. Kept /\ VersionsEarned /\ OthersRest(p)
  BY <1>1 DEF Kept, VersionsEarned, OthersRest, SchemaInv, SchemaTypeOK
<1>5. CreatesAccounted(p)
  BY <1>1, CurrentIs DEF CreatesAccounted, Creating
<1>6. pc'[p] = "look" /\ shard'[p] = 0 /\ opened'[p] = n
  BY <1>1 DEF SchemaInv, SchemaTypeOK
<1>7. OpenerSound(p)'
  BY <1>2, <1>6, CreatedIs, CurrentIs DEF OpenerSound, Passed, AfterIndexes, Current
<1> QED
  BY <1>3, <1>4, <1>5, <1>7, StepKeepsInv

LEMMA LookForFileInv ==
    ASSUME SchemaInv, NEW p \in Opener, LookForFile(p)
    PROVE  SchemaInv'
<1>1. /\ pc[p] = "look" /\ pc' = [pc EXCEPT ![p] = "connect"]
      /\ isNew' = [isNew EXCEPT ![p] = (shard[p] \notin file)]
      /\ UNCHANGED <<file, objects, meta, opened, shard, orphans, skipped>>
  BY DEF LookForFile, GoTo, LooksNew
<1>2. SchemaTypeOK'
  BY <1>1 DEF SchemaInv, SchemaTypeOK, Stage
<1>3. Kept /\ VersionsEarned /\ OthersRest(p)
  BY <1>1 DEF Kept, VersionsEarned, OthersRest, SchemaInv, SchemaTypeOK
<1>4. CreatesAccounted(p)
  BY <1>1, CurrentIs DEF CreatesAccounted, Creating
<1>5. pc'[p] = "connect" /\ (isNew'[p] <=> shard[p] \notin file)
  BY <1>1 DEF SchemaInv, SchemaTypeOK
<1>6. OpenerSound(p)'
  BY <1>1, <1>5, CreatedIs, CurrentIs
     DEF SchemaInv, OpenerSound, Passed, AfterIndexes, Current
<1> QED
  BY <1>2, <1>3, <1>4, <1>6, StepKeepsInv

LEMMA ConnectInv ==
    ASSUME SchemaInv, NEW p \in Opener, Connect(p)
    PROVE  SchemaInv'
<1>1. /\ pc[p] = "connect" /\ pc' = [pc EXCEPT ![p] = Created[1]]
      /\ file' = file \cup {shard[p]}
      /\ UNCHANGED <<objects, meta, opened, shard, isNew, orphans, skipped>>
  BY DEF Connect, GoTo, AfterConnect
<1>2. Created[1] = "journal_mode" /\ "journal_mode" \in Current
  BY CreatedIs, CurrentIs
<1>3. SchemaTypeOK'
  BY <1>1, <1>2 DEF SchemaInv, SchemaTypeOK, Stage
<1>4. Kept /\ VersionsEarned /\ OthersRest(p)
  BY <1>1 DEF Kept, VersionsEarned, OthersRest, SchemaInv, SchemaTypeOK
<1>5. pc'[p] = Created[1] /\ shard'[p] = shard[p] /\ isNew'[p] = isNew[p]
  BY <1>1 DEF SchemaInv, SchemaTypeOK
<1>6. CreatesAccounted(p)
  <2>1. \A s \in Shard : ~Creating(p, s)
    BY <1>1, CurrentIs DEF Creating
  <2>2. ASSUME NEW s \in file' \ file PROVE Creating(p, s)'
    <3>1. s = shard[p] /\ isNew[p]
      BY <1>1, <2>2 DEF SchemaInv, OpenerSound, SchemaTypeOK
    <3> QED
      BY <1>2, <1>5, <3>1 DEF Creating
  <2> QED
    BY <2>1, <2>2 DEF CreatesAccounted
<1>7. OpenerSound(p)'
  <2>1. \A s \in Passed(p)' : s \in file' /\ Current \subseteq objects'[s]
    BY <1>1, <1>2, <1>5 DEF SchemaInv, OpenerSound, Passed
  <2>2. \A i \in DOMAIN Created : pc'[p] = Created[i] => i = 1
    BY <1>5, CreatedIs, CreatedOnce
  <2>3. \A i \in DOMAIN Created : pc'[p] = Created[i] =>
          \A j \in 1 .. i - 1 : Created[j] \in objects'[shard'[p]]
    <3>1. \A j : j \notin 1 .. 1 - 1
      OBVIOUS
    <3> QED
      BY <2>2, <3>1
  <2>4. shard'[p] \in file' /\ shard'[p] < opened'[p]
    BY <1>1, <1>5 DEF SchemaInv, OpenerSound
  <2> QED
    BY <1>2, <1>5, <2>1, <2>3, <2>4 DEF OpenerSound, AfterIndexes
<1> QED
  BY <1>3, <1>4, <1>6, <1>7, StepKeepsInv

\* What is there stays there, and the next object comes to it.
LEMMA CreateInv ==
    ASSUME SchemaInv, NEW p \in Opener, Create(p)
    PROVE  SchemaInv'
<1>1. /\ pc[p] \in Current
      /\ objects' = [objects EXCEPT ![shard[p]] = With(objects[shard[p]], pc[p])]
      /\ pc' = [pc EXCEPT ![p] = AfterCreate(p)]
      /\ UNCHANGED <<file, meta, opened, shard, isNew, orphans, skipped>>
  BY DEF Create, GoTo
<1>2. PICK i \in 1 .. 5 : pc[p] = Created[i]
  BY <1>1, CreatedIs DEF Current
<1>3. /\ shard[p] \in Shard /\ shard[p] \in file
      /\ objects[shard[p]] \subseteq Object
      /\ isNew[p] \in BOOLEAN
  BY <1>1 DEF SchemaInv, SchemaTypeOK, OpenerSound
<1>4. /\ With(objects[shard[p]], pc[p]) \subseteq Object
      /\ objects[shard[p]] \cup {pc[p]} \subseteq With(objects[shard[p]], pc[p])
  BY <1>1, <1>3 DEF With, Object
<1>5. /\ i < 5 \/ i = 5
      /\ i < 5 => /\ i + 1 \in 1 .. 5 /\ AfterCreate(p) = Created[i + 1]
                 /\ AfterCreate(p) \in Current
      /\ i = 5 /\ isNew[p] => AfterCreate(p) = "insert meta"
      /\ i = 5 /\ ~isNew[p] => AfterCreate(p) = "read version"
  <2>1. i < 5 \/ i = 5
    BY <1>2
  <2>2. i < 5 => i + 1 \in 1 .. 5
    BY <1>2
  <2>3. i < 5 => AfterCreate(p) = Created[i + 1]
    BY <1>2, AfterCreateIs
  <2>4. i < 5 => AfterCreate(p) \in Current
    BY <2>2, <2>3, CreatedIs DEF Current
  <2>5. i = 5 => AfterCreate(p) = IF isNew[p] THEN "insert meta" ELSE "read version"
    BY <1>2, AfterCreateIs
  <2> QED
    BY <2>1, <2>2, <2>3, <2>4, <2>5
<1>6. SchemaTypeOK'
  BY <1>1, <1>3, <1>4, <1>5 DEF SchemaInv, SchemaTypeOK, Stage
<1>7. Kept
  <2>1. ASSUME NEW s \in Shard
        PROVE  /\ objects[s] \subseteq objects'[s]
               /\ Legacy \in objects'[s] => Legacy \in objects[s]
               /\ "fila" \in objects'[s] => "fila" \in objects[s] \/ Constraint \in objects'[s]
    <3>1. CASE s = shard[p]
      <4>1. objects'[s] = With(objects[s], pc[p])
        BY <1>1, <1>3, <3>1 DEF SchemaInv, SchemaTypeOK
      <4>2. pc[p] # Legacy /\ Constraint # Legacy
        BY <1>1, CurrentIs DEF Legacy, Constraint
      <4> QED
        BY <4>1, <4>2 DEF With
    <3>2. CASE s # shard[p]
      BY <1>1, <3>2 DEF SchemaInv, SchemaTypeOK
    <3> QED
      BY <3>1, <3>2
  <2> QED
    BY <1>1, <2>1 DEF Kept
<1>8. VersionsEarned /\ OthersRest(p)
  BY <1>1 DEF VersionsEarned, OthersRest, SchemaInv, SchemaTypeOK
<1>9. /\ pc'[p] = AfterCreate(p) /\ shard'[p] = shard[p]
      /\ isNew'[p] = isNew[p] /\ opened'[p] = opened[p]
      /\ objects'[shard[p]] = With(objects[shard[p]], pc[p])
  BY <1>1, <1>3 DEF SchemaInv, SchemaTypeOK
<1>10. CreatesAccounted(p)
  <2>2. isNew[p] => pc'[p] \in Current \cup {"insert meta"}
    BY <1>5, <1>9
  <2> QED
    BY <1>1, <1>9, <2>2 DEF CreatesAccounted, Creating
<1>11. OpenerSound(p)'
  <2>1. \A j \in 1 .. i : Created[j] \in objects'[shard'[p]]
    <3>1. \A j \in 1 .. i - 1 : Created[j] \in objects[shard[p]]
      BY <1>2, CreatedIs DEF SchemaInv, OpenerSound
    <3>2. \A j \in 1 .. i : j \in 1 .. i - 1 \/ j = i
      OBVIOUS
    <3> QED
      BY <1>2, <1>4, <1>9, <3>1, <3>2
  <2>2. \A s \in Passed(p)' : s \in file' /\ Current \subseteq objects'[s]
    <3>1. Passed(p)' = Passed(p) /\ Passed(p) \subseteq Shard
      BY <1>1, <1>5, <1>9, CurrentIs DEF Passed
    <3> QED
      BY <1>1, <1>7, <3>1 DEF SchemaInv, OpenerSound, Kept
  <2>3. shard'[p] \in file' /\ shard'[p] < opened'[p]
    BY <1>1, <1>3, <1>9, CurrentIs DEF SchemaInv, OpenerSound
  <2>4. CASE i < 5
    <3>1. pc'[p] = Created[i + 1] /\ i + 1 \in 1 .. 5
      BY <1>5, <1>9, <2>4
    <3>2. pc'[p] \in Current
      BY <3>1, CreatedIs DEF Current
    <3>3. \A k \in DOMAIN Created : pc'[p] = Created[k] => k = i + 1
      BY <3>1, CreatedIs, CreatedOnce
    <3>4. \A k \in DOMAIN Created : pc'[p] = Created[k] =>
             \A j \in 1 .. k - 1 : Created[j] \in objects'[shard'[p]]
      <4>1. i + 1 - 1 = i
        OBVIOUS
      <4> QED
        BY <2>1, <3>3, <4>1
    <3> QED
      BY <2>2, <2>3, <3>2, <3>4, CurrentIs DEF OpenerSound, AfterIndexes
  <2>5. CASE i = 5
    <3>1. pc'[p] \in {"insert meta", "read version"}
      BY <1>5, <1>9, <2>5
    <3>2. Current \subseteq objects'[shard'[p]]
      BY <2>1, <2>5, CreatedIs DEF Current
    <3>3. \A k \in DOMAIN Created : pc'[p] # Created[k]
      BY <3>1, CurrentIs DEF Current
    <3> QED
      BY <2>2, <2>3, <3>1, <3>2, <3>3 DEF OpenerSound, AfterIndexes
  <2> QED
    BY <1>5, <2>4, <2>5
<1> QED
  BY <1>6, <1>7, <1>8, <1>10, <1>11, StepKeepsInv

\* The row a creator writes says what the statements before it made true.
LEMMA InsertMetaInv ==
    ASSUME SchemaInv, NEW p \in Opener, InsertMeta(p)
    PROVE  SchemaInv'
<1>1. /\ pc[p] = "insert meta"
      /\ meta' = [meta EXCEPT ![shard[p]] = Inserted(meta[shard[p]])]
      /\ NextShard(p)
      /\ UNCHANGED <<file, objects, opened, isNew, orphans, skipped>>
  BY DEF InsertMeta
<1>2. /\ NewMeta \in Meta /\ NewMeta # NULL
      /\ shard[p] \in Shard /\ meta \in [Shard -> Meta \cup {NULL}]
  <2>1. 0 \in 0 .. MaxCount
    BY SchemaAssumption
  <2>2. NewMeta \in Meta /\ NewMeta \in [version : Nat, processed : Nat]
    BY <2>1 DEF NewMeta, Meta, SCHEMA_VERSION
  <2> QED
    BY <2>2, SchemaAssumption DEF SchemaInv, SchemaTypeOK
<1>3. /\ meta' \in [Shard -> Meta \cup {NULL}]
      /\ meta'[shard[p]] # NULL
      /\ \A s \in Shard : meta[s] # NULL \/ s # shard[p] => meta'[s] = meta[s]
  BY <1>1, <1>2 DEF Inserted
<1>4. Kept
  BY <1>1, <1>3 DEF Kept
<1>5. /\ OpenerSound(p)' /\ OthersRest(p)
      /\ shard' \in [Opener -> Shard] /\ pc' \in [Opener -> Stage]
  BY <1>1, <1>4, NextShardSound DEF AfterIndexes
<1>6. SchemaTypeOK'
  BY <1>1, <1>3, <1>5 DEF SchemaInv, SchemaTypeOK
<1>7. VersionsEarned
  <2> SUFFICES ASSUME NEW s \in Shard, meta[s] = NULL, s = shard[p]
               PROVE  DropTried(s) /\ AlterTried(s)
    BY <1>3 DEF VersionsEarned
  <2>1. "fila" \in objects[s]
    BY <1>1, CurrentIs DEF SchemaInv, OpenerSound, AfterIndexes
  <2> QED
    BY <2>1 DEF SchemaInv, RowlessIsCurrent, DropTried, AlterTried
<1>8. CreatesAccounted(p)
  BY <1>1, <1>3 DEF CreatesAccounted, Creating
<1> QED
  BY <1>4, <1>5, <1>6, <1>7, <1>8, StepKeepsInv

\* A version that is current, or taken for it, has been earned before.
LEMMA ReadVersionInv ==
    ASSUME SchemaInv, NEW p \in Opener, ReadVersion(p)
    PROVE  SchemaInv'
<1>1. /\ pc[p] = "read version"
      /\ \/ NextShard(p)
         \/ pc' = [pc EXCEPT ![p] = "drop"] /\ shard' = shard
      /\ UNCHANGED <<file, objects, meta, opened, isNew, orphans, skipped>>
  BY DEF ReadVersion, GoTo, FirstMigration
<1>2. Kept /\ VersionsEarned
  BY <1>1 DEF Kept, VersionsEarned
<1>3. /\ OpenerSound(p)' /\ OthersRest(p)
      /\ shard' \in [Opener -> Shard] /\ pc' \in [Opener -> Stage]
  <2>1. CASE NextShard(p)
    BY <1>1, <1>2, <2>1, NextShardSound DEF AfterIndexes
  <2>2. CASE pc' = [pc EXCEPT ![p] = "drop"] /\ shard' = shard
    <3>1. /\ pc'[p] = "drop" /\ shard' \in [Opener -> Shard]
          /\ pc' \in [Opener -> Stage] /\ OthersRest(p)
      BY <1>1, <2>2 DEF SchemaInv, SchemaTypeOK, Stage, OthersRest
    <3>2. Passed(p)' = Passed(p)
      BY <1>1, <2>2, <3>1 DEF Passed
    <3> QED
      BY <1>1, <2>2, <3>1, <3>2, CurrentIs
         DEF SchemaInv, OpenerSound, AfterIndexes, Current
  <2> QED
    BY <1>1, <2>1, <2>2
<1>4. SchemaTypeOK'
  BY <1>1, <1>3 DEF SchemaInv, SchemaTypeOK
<1>5. CreatesAccounted(p)
  BY <1>1, CurrentIs DEF CreatesAccounted, Creating
<1> QED
  BY <1>2, <1>3, <1>4, <1>5, StepKeepsInv

\* A step of the migration leaves its mark in the file or in the log.
LEMMA MigrationStepInv ==
    ASSUME SchemaInv, NEW p \in Opener, DropLegacy(p) \/ AlterTable(p)
    PROVE  SchemaInv'
<1>1. /\ \/ /\ pc[p] = "drop" /\ DropLegacy(p)
            /\ pc' = [pc EXCEPT ![p] = "alter"]
         \/ /\ pc[p] = "alter" /\ AlterTable(p)
            /\ pc' = [pc EXCEPT ![p] = "update version"]
      /\ UNCHANGED <<file, meta, opened, shard, isNew, orphans>>
  BY DEF DropLegacy, AlterTable, GoTo
<1>2. /\ shard[p] \in Shard /\ objects \in [Shard -> SUBSET Object]
      /\ skipped \subseteq Shard \X {Legacy, Constraint}
      /\ pc \in [Opener -> Stage]
  BY DEF SchemaInv, SchemaTypeOK
<1>3. /\ objects' \in [Shard -> SUBSET Object]
      /\ skipped' \subseteq Shard \X {Legacy, Constraint}
      /\ Kept
      /\ pc[p] = "drop" => DropTried(shard[p])'
      /\ pc[p] = "alter" => AlterTried(shard[p])'
  <2>1. Legacy # Constraint /\ Legacy # "fila" /\ Constraint # "fila"
        /\ Legacy \notin Current /\ Constraint \notin Current
        /\ Constraint \in Object
    BY CurrentIs DEF Legacy, Constraint, Object
  <2>2. CASE DropLegacy(p)
    <3>1. CASE objects' = [objects EXCEPT ![shard[p]] = @ \ {Legacy}] /\ skipped' = skipped
      <4>1. objects'[shard[p]] = objects[shard[p]] \ {Legacy}
        BY <1>2, <3>1
      <4>2. \A s \in Shard \ {shard[p]} : objects'[s] = objects[s]
        BY <1>2, <3>1
      <4>3. objects' \in [Shard -> SUBSET Object]
        BY <1>2, <3>1
      <4>4. Kept
        BY <1>1, <2>1, <3>1, <4>1, <4>2 DEF Kept
      <4>5. pc[p] # "alter" /\ DropTried(shard[p])'
        BY <1>1, <2>2, <4>1 DEF DropLegacy, DropTried
      <4> QED
        BY <1>2, <3>1, <4>3, <4>4, <4>5
    <3>2. CASE Skip(p, Legacy)
      BY <1>1, <1>2, <2>1, <2>2, <3>2 DEF DropLegacy, Skip, Kept, DropTried
    <3> QED
      BY <2>2, <3>1, <3>2 DEF DropLegacy
  <2>3. CASE AlterTable(p)
    <3>1. CASE objects' = [objects EXCEPT ![shard[p]] = @ \cup {Constraint}] /\ skipped' = skipped
      <4>1. objects'[shard[p]] = objects[shard[p]] \cup {Constraint}
        BY <1>2, <3>1
      <4>2. \A s \in Shard \ {shard[p]} : objects'[s] = objects[s]
        BY <1>2, <3>1
      <4>3. objects' \in [Shard -> SUBSET Object]
        BY <1>2, <2>1, <3>1
      <4>4. Kept
        BY <1>1, <2>1, <3>1, <4>1, <4>2 DEF Kept
      <4>5. pc[p] # "drop" /\ AlterTried(shard[p])'
        BY <1>1, <2>3, <4>1 DEF AlterTable, AlterTried
      <4> QED
        BY <1>2, <3>1, <4>3, <4>4, <4>5
    <3>2. CASE Skip(p, Constraint)
      <4>1. objects' = objects /\ skipped' = skipped \cup {<<shard[p], Constraint>>}
        BY <3>2 DEF Skip
      <4>2. pc[p] # "drop" /\ AlterTried(shard[p])'
        BY <1>1, <2>3, <4>1 DEF AlterTable, AlterTried
      <4>3. Kept
        BY <1>1, <4>1 DEF Kept
      <4> QED
        BY <1>2, <4>1, <4>2, <4>3
    <3> QED
      BY <2>3, <3>1, <3>2 DEF AlterTable
  <2> QED
    BY <2>2, <2>3
<1>4. /\ pc' \in [Opener -> Stage] /\ OthersRest(p)
      /\ \/ pc[p] = "drop" /\ pc'[p] = "alter"
         \/ pc[p] = "alter" /\ pc'[p] = "update version"
  BY <1>1, <1>2 DEF Stage, OthersRest
<1>5. SchemaTypeOK'
  BY <1>1, <1>3, <1>4 DEF SchemaInv, SchemaTypeOK
<1>6. VersionsEarned
  BY <1>1 DEF VersionsEarned
<1>7. CreatesAccounted(p)
  BY <1>1, <1>4, CurrentIs DEF CreatesAccounted, Creating
<1>8. OpenerSound(p)'
  <2>1. Passed(p)' = Passed(p) /\ Passed(p) \subseteq Shard
    BY <1>1, <1>4 DEF Passed
  <2>2. /\ \A s \in Passed(p)' : s \in file' /\ Current \subseteq objects'[s]
        /\ shard'[p] \in file' /\ shard'[p] < opened'[p]
        /\ Current \subseteq objects'[shard'[p]]
    BY <1>1, <1>2, <1>3, <1>4, <2>1
       DEF SchemaInv, OpenerSound, AfterIndexes, Kept
  <2>3. /\ pc'[p] \in {"alter", "update version"} => DropTried(shard[p])'
        /\ pc'[p] = "update version" => AlterTried(shard[p])'
    BY <1>1, <1>2, <1>3, <1>4
       DEF SchemaInv, OpenerSound, Kept, DropTried, AlterTried
  <2> QED
    BY <1>4, <2>2, <2>3, CurrentIs DEF OpenerSound, AfterIndexes, Current
<1> QED
  BY <1>3, <1>4, <1>5, <1>6, <1>7, <1>8, StepKeepsInv

LEMMA UpdateVersionInv ==
    ASSUME SchemaInv, NEW p \in Opener, UpdateVersion(p)
    PROVE  SchemaInv'
<1>1. /\ pc[p] = "update version" /\ NextShard(p)
      /\ meta' = IF shard[p] = 0 /\ meta[0] # NULL
                 THEN [meta EXCEPT ![0].version = SCHEMA_VERSION]
                 ELSE meta
      /\ UNCHANGED <<file, objects, opened, isNew, orphans, skipped>>
  BY DEF UpdateVersion
<1>2. /\ meta' \in [Shard -> Meta \cup {NULL}]
      /\ \A s \in Shard : (meta[s] # NULL => meta'[s] # NULL)
                          /\ (s # shard[p] => meta'[s] = meta[s])
                          /\ (meta[s] = NULL => meta'[s] = NULL)
  <2>1. 0 \in Shard /\ meta \in [Shard -> Meta \cup {NULL}]
    BY SchemaAssumption DEF SchemaInv, SchemaTypeOK, Shard
  <2>2. CASE shard[p] = 0 /\ meta[0] # NULL
    <3>1. meta[0] \in Meta
      BY <2>1, <2>2
    <3>2. [meta[0] EXCEPT !.version = SCHEMA_VERSION] \in Meta
      BY <3>1 DEF Meta, SCHEMA_VERSION
    <3>3. [meta[0] EXCEPT !.version = SCHEMA_VERSION] # NULL
      BY <3>2, SchemaAssumption DEF Meta, SCHEMA_VERSION
    <3>4. meta' = [meta EXCEPT ![0] = [meta[0] EXCEPT !.version = SCHEMA_VERSION]]
      BY <1>1, <2>2
    <3> QED
      BY <2>1, <2>2, <3>2, <3>3, <3>4
  <2>3. CASE ~(shard[p] = 0 /\ meta[0] # NULL)
    BY <1>1, <2>1, <2>3
  <2> QED
    BY <2>2, <2>3
<1>3. Kept
  BY <1>1, <1>2 DEF Kept
<1>4. /\ OpenerSound(p)' /\ OthersRest(p)
      /\ shard' \in [Opener -> Shard] /\ pc' \in [Opener -> Stage]
  BY <1>1, <1>3, NextShardSound DEF AfterIndexes
<1>5. SchemaTypeOK'
  BY <1>1, <1>2, <1>4 DEF SchemaInv, SchemaTypeOK
<1>6. VersionsEarned
  <2>1. DropTried(shard[p]) /\ AlterTried(shard[p])
    BY <1>1 DEF SchemaInv, OpenerSound
  <2> QED
    BY <1>2, <2>1 DEF VersionsEarned
<1>7. CreatesAccounted(p)
  BY <1>1, CurrentIs DEF CreatesAccounted, Creating
<1> QED
  BY <1>3, <1>4, <1>5, <1>6, <1>7, StepKeepsInv

\* Whoever ends while it creates leaves an orphan that is known as such.
LEMMA EndInv ==
    ASSUME SchemaInv, NEW p \in Opener, End(p)
    PROVE  SchemaInv'
<1>1. /\ pc' = [pc EXCEPT ![p] = "out"] /\ opened' = [opened EXCEPT ![p] = 0]
      /\ shard' = [shard EXCEPT ![p] = 0] /\ isNew' = [isNew EXCEPT ![p] = FALSE]
      /\ orphans' = orphans \cup {s \in Shard : Creating(p, s)}
      /\ UNCHANGED <<file, objects, meta, skipped>>
  BY DEF End, GoTo
<1>2. 0 \in Shard /\ 0 \in 0 .. NumShards /\ \A s \in Shard : ~(s < 0)
  BY SchemaAssumption DEF Shard
<1>3. SchemaTypeOK'
  BY <1>1, <1>2 DEF SchemaInv, SchemaTypeOK, Stage
<1>4. Kept /\ VersionsEarned /\ OthersRest(p)
  BY <1>1 DEF Kept, VersionsEarned, OthersRest, SchemaInv, SchemaTypeOK
<1>5. CreatesAccounted(p)
  BY <1>1 DEF CreatesAccounted
<1>6. pc'[p] = "out" /\ shard'[p] = 0
  BY <1>1 DEF SchemaInv, SchemaTypeOK
<1>7. OpenerSound(p)'
  BY <1>2, <1>6, CreatedIs, CurrentIs DEF OpenerSound, Passed, AfterIndexes, Current
<1> QED
  BY <1>3, <1>4, <1>5, <1>7, StepKeepsInv

LEMMA CountJobInv ==
    ASSUME SchemaInv, NEW p \in Opener, NEW s \in Shard, CountJob(p, s)
    PROVE  SchemaInv'
<1>1. /\ meta[s] # NULL /\ meta[s].processed < MaxCount
      /\ meta' = [meta EXCEPT ![s] = [meta[s] EXCEPT !.processed = meta[s].processed + 1]]
      /\ UNCHANGED <<file, objects, opened, pc, shard, isNew, orphans, skipped>>
  BY DEF CountJob
<1>2. meta[s] \in Meta /\ meta \in [Shard -> Meta \cup {NULL}]
  BY <1>1 DEF SchemaInv, SchemaTypeOK
<1>3. meta[s].processed + 1 \in 0 .. MaxCount
  BY <1>1, <1>2, SchemaAssumption DEF Meta
<1>4. /\ meta'[s] \in Meta /\ meta'[s].version = meta[s].version
      /\ meta' \in [Shard -> Meta \cup {NULL}]
      /\ \A r \in Shard \ {s} : meta'[r] = meta[r]
  BY <1>1, <1>2, <1>3 DEF Meta
<1>5. meta'[s] # NULL
  BY <1>4, SchemaAssumption DEF Meta, SCHEMA_VERSION
<1>6. SchemaTypeOK'
  BY <1>1, <1>4 DEF SchemaInv, SchemaTypeOK
<1>7. Kept /\ VersionsEarned /\ OthersRest(p)
  BY <1>1, <1>4, <1>5 DEF Kept, VersionsEarned, OthersRest
<1>8. CreatesAccounted(p)
  BY <1>1 DEF CreatesAccounted, Creating
<1>9. OpenerSound(p)'
  BY <1>1 DEF SchemaInv, OpenerSound, Passed, DropTried, AlterTried
<1> QED
  BY <1>6, <1>7, <1>8, <1>9, StepKeepsInv

----------------------------------------------------------------------------

LEMMA SchemaInitInv == SchemaInit => SchemaInv
<1> SUFFICES ASSUME SchemaInit PROVE SchemaInv
  OBVIOUS
<1>1. PICK old \in 0 .. NumShards :
         /\ file = 0 .. old - 1
         /\ objects = [s \in Shard |-> IF s < old THEN OldObjects ELSE {}]
         /\ meta = [s \in Shard |-> IF s < old
                                    THEN [version |-> 1, processed |-> 0]
                                    ELSE NULL]
  BY DEF SchemaInit
<1>2. /\ NumShards \in Nat /\ 0 \in 0 .. MaxCount /\ 0 \in Shard
      /\ 0 \in 0 .. NumShards /\ \A s \in Shard : ~(s < 0)
  BY SchemaAssumption DEF Shard
<1>3. /\ [version |-> 1, processed |-> 0] \in Meta
      /\ [version |-> 1, processed |-> 0] \in [version : Nat, processed : Nat]
  BY <1>2 DEF Meta
<1>4. OldObjects \subseteq Object /\ file \subseteq Shard
  BY <1>1, <1>2, CurrentIs DEF OldObjects, Object, Shard
<1>5. SchemaTypeOK
  <2>1. /\ objects \in [Shard -> SUBSET Object] /\ meta \in [Shard -> Meta \cup {NULL}]
    BY <1>1, <1>3, <1>4
  <2> QED
    BY <1>2, <1>4, <2>1 DEF SchemaInit, SchemaTypeOK, Stage
<1>6. \A p \in Opener : OpenerSound(p)
  BY <1>2, CreatedIs, CurrentIs
     DEF SchemaInit, OpenerSound, Passed, AfterIndexes, Current
<1>7. \A s \in file : meta[s] # NULL
  BY <1>1, <1>3, <1>4, SchemaAssumption DEF Shard
<1>8. RowlessIsCurrent
  BY <1>1, <1>3, SchemaAssumption DEF RowlessIsCurrent
<1>9. VersionTellsMigrated
  <2>1. ASSUME NEW s \in Shard, meta[s] # NULL PROVE meta[s].version = 1
    BY <1>1, <2>1
  <2> QED
    BY <2>1 DEF VersionTellsMigrated, SCHEMA_VERSION
<1> QED
  BY <1>5, <1>6, <1>7, <1>8, <1>9 DEF SchemaInv, FilesAccounted

LEMMA SchemaInvStep ==
    ASSUME SchemaInv, [SchemaNext]_schemaVars
    PROVE  SchemaInv'
<1>1. CASE UNCHANGED schemaVars
  <2>1. SchemaTypeOK'
    BY <1>1 DEF SchemaInv, SchemaTypeOK, schemaVars
  <2>2. \A p \in Opener : OpenerSound(p)'
    BY <1>1 DEF SchemaInv, OpenerSound, Passed, DropTried, AlterTried, schemaVars
  <2>3. FilesAccounted' /\ RowlessIsCurrent' /\ VersionTellsMigrated'
    BY <1>1 DEF SchemaInv, FilesAccounted, Creating, RowlessIsCurrent,
                VersionTellsMigrated, DropTried, AlterTried, schemaVars
  <2> QED
    BY <2>1, <2>2, <2>3 DEF SchemaInv
<1>2. ASSUME NEW p \in Opener, NEW n \in 1 .. NumShards, Open(p, n) PROVE SchemaInv'
  BY <1>2, OpenInv
<1>3. ASSUME NEW p \in Opener, NEW s \in Shard, CountJob(p, s) PROVE SchemaInv'
  BY <1>3, CountJobInv
<1>4. ASSUME NEW p \in Opener, Migrate(p) PROVE SchemaInv'
  BY <1>4, ReadVersionInv, MigrationStepInv, UpdateVersionInv DEF Migrate
<1> QED
  BY <1>1, <1>2, <1>3, <1>4, LookForFileInv, ConnectInv, CreateInv,
     InsertMetaInv, EndInv
     DEF SchemaNext

\* What the openers of a directory rely on.
THEOREM SchemaCorrect == SchemaSpec => []SchemaInv
  BY SchemaInitInv, SchemaInvStep, PTL DEF SchemaSpec

\* A constructor that returns leaves every shard complete, whoever else opens
\* the directory and wherever they end.
THEOREM ReadyCorrect == SchemaSpec => []ReadyIsComplete
<1>1. SchemaInv => ReadyIsComplete
  <2> SUFFICES ASSUME SchemaInv, NEW p \in Opener, pc[p] = "ready",
                      NEW s \in 0 .. opened[p] - 1
               PROVE  Current \subseteq objects[s]
    BY DEF ReadyIsComplete
  <2>1. opened[p] \in 0 .. NumShards
    BY DEF SchemaInv, SchemaTypeOK
  <2>2. s \in Passed(p)
    BY <2>1, SchemaAssumption DEF Passed, Shard
  <2> QED
    BY <2>2 DEF SchemaInv, OpenerSound
<1> QED
  BY <1>1, SchemaCorrect, PTL

\* Only a file whose creator ended half way is without its counters.
THEOREM CountedCorrect == SchemaSpec => []CountedUnlessOrphaned
<1>1. SchemaInv => CountedUnlessOrphaned
  <2> SUFFICES ASSUME SchemaInv, NEW p \in Opener, pc[p] = "ready",
                      NEW s \in 0 .. opened[p] - 1
               PROVE  \/ meta[s] # NULL
                      \/ s \in orphans
                      \/ \E q \in Opener : Creating(q, s)
    BY DEF CountedUnlessOrphaned
  <2>1. opened[p] \in 0 .. NumShards
    BY DEF SchemaInv, SchemaTypeOK
  <2>2. s \in Passed(p)
    BY <2>1, SchemaAssumption DEF Passed, Shard
  <2> QED
    BY <2>2 DEF SchemaInv, OpenerSound, FilesAccounted
<1> QED
  BY <1>1, SchemaCorrect, PTL

\* A current version is worth what it says.
THEOREM VersionCorrect == SchemaSpec => []VersionTellsMigrated
<1>1. SchemaInv => VersionTellsMigrated
  BY DEF SchemaInv
<1> QED
  BY <1>1, SchemaCorrect, PTL

=============================================================================
