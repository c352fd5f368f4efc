------------------------ MODULE ShardConnectionProofs ------------------------
(* Theorems about ShardConnection for every set of threads and jobs, every   *)
(* limit of attempts and every size of a batch.                              *)
EXTENDS ShardConnection, TLAPS

----------------------------------------------------------------------------
(* Rows and contents *)

Statuses == {"absent", "pending", "processing", "failed", "gone"}

Stages == {"idle", "batching", "inserted", "popping", "claimed", "running",
           "deleting", "deleted", "failing", "retrying", "burying", "buried",
           "written", "updated", "waiting", "dead"}

LEMMA SetStatusRows ==
    ASSUME NEW c \in Content, NEW j \in Job, NEW s \in Statuses
    PROVE  /\ SetStatus(c, j, s) \in Content
           /\ SetStatus(c, j, s).letters = c.letters
           /\ SetStatus(c, j, s).rows[j] = [c.rows[j] EXCEPT !.status = s]
           /\ \A k \in Job \ {j} : SetStatus(c, j, s).rows[k] = c.rows[k]
  BY DEF SetStatus, Content, Row, Statuses

LEMMA InsertedRows ==
    ASSUME NEW c \in Content, NEW j \in Job
    PROVE  /\ Inserted(c, j) \in Content
           /\ Inserted(c, j).letters = c.letters
           /\ Inserted(c, j).rows[j] = [status |-> "pending", claims |-> 0]
           /\ \A k \in Job \ {j} : Inserted(c, j).rows[k] = c.rows[k]
  BY DEF Inserted, Content, Row, NoRow

LEMMA ClaimedRows ==
    ASSUME NEW c \in Content, NEW j \in Job
    PROVE  LET d == [c EXCEPT !.rows[j] = Claimed(@)]
           IN  /\ d \in Content
               /\ d.letters = c.letters
               /\ d.rows[j] = Claimed(c.rows[j])
               /\ \A k \in Job \ {j} : d.rows[k] = c.rows[k]
<1>1. c.rows[j] \in Row
  BY DEF Content
<1>2. ASSUME NEW a \in Row PROVE Claimed(a) \in Row
  <2>1. ASSUME NEW b \in Row PROVE [b EXCEPT !.claims = b.claims + 1] \in Row
    BY DEF Row
  <2>2. [a EXCEPT !.status = "processing"] \in Row
    BY DEF Row
  <2> QED
    BY <2>1, <2>2 DEF Claimed
<1>3. ASSUME NEW r \in Row
      PROVE  LET d == [c EXCEPT !.rows[j] = r]
             IN  /\ d \in Content /\ d.letters = c.letters
                 /\ d.rows[j] = r
                 /\ \A k \in Job \ {j} : d.rows[k] = c.rows[k]
  BY DEF Content
<1> QED
  BY <1>1, <1>2, <1>3

LEMMA LettersRows ==
    ASSUME NEW c \in Content, NEW j \in Job
    PROVE  LET d == [c EXCEPT !.letters = @ \cup {j}]
           IN  /\ d \in Content
               /\ d.letters = c.letters \cup {j}
               /\ d.rows = c.rows
  BY DEF Content

LEMMA RowFields ==
    ASSUME NEW a \in Row
    PROVE  /\ a = [status |-> a.status, claims |-> a.claims]
           /\ a.status \in Statuses /\ a.claims \in Nat
           /\ NoRow.status = "absent" /\ NoRow.claims = 0
           /\ Claimed(a).status = "processing" /\ Claimed(a).claims = a.claims + 1
           /\ \A s \in Statuses : /\ [a EXCEPT !.status = s].status = s
                                  /\ [a EXCEPT !.status = s].claims = a.claims
  BY DEF Row, Statuses, NoRow, Claimed

----------------------------------------------------------------------------
(* The database under the threads *)

DbOK ==
    /\ file \in Content
    /\ txn \in [Thread -> {"none", "begun", "reading", "stale", "writing"}]
    /\ view \in [Thread -> Content \cup {NULL}]
    /\ \A t \in Thread : view[t] = NULL <=> txn[t] \in {"none", "begun"}
    /\ \A t \in Thread : txn[t] = "reading" => view[t] = file
    /\ \A t, u \in Thread : txn[t] = "writing" /\ txn[u] = "writing" => t = u

ThreadsOK ==
    /\ stage \in [Thread -> Stages]
    /\ sending \in [Thread -> SUBSET Job]
    /\ held \in [Thread -> Job \cup {NULL}]
    /\ offered \in 0 .. MaxJobs
    /\ acked \subseteq Job
    /\ ran \subseteq Job

LEMMA TypeParts == ConnTypeOK <=> DbOK /\ ThreadsOK
  BY DEF ConnTypeOK, DbOK, ThreadsOK, Stages

LEMMA TypePartsNext == ConnTypeOK' <=> DbOK' /\ ThreadsOK'
  BY DEF ConnTypeOK, DbOK, ThreadsOK, Stages

LEMMA SeesTyped ==
    ASSUME DbOK, NEW t \in Thread
    PROVE  /\ Sees(t) \in Content
           /\ txn[t] = "writing" => Sees(t) = view[t]
           /\ txn[t] \in {"none", "begun", "reading"} => Sees(t) = file
           /\ txn[t] = "writing" => view[t] \in Content
  BY ConnAssumption DEF DbOK, Sees

\* What t does to the transactions: it reads, writes, begins or rolls back.
Touched(t) ==
    /\ file' = file
    /\ \A u \in Thread \ {t} : txn'[u] = txn[u] /\ view'[u] = view[u]

LEMMA WriteTouches ==
    ASSUME DbOK, NEW t \in Thread, NEW c \in Content, Write(t, c)
    PROVE  /\ DbOK' /\ Touched(t)
           /\ txn'[t] = "writing" /\ view'[t] = c /\ txn[t] # "stale"
<1>1. /\ txn'[t] = "writing" /\ view'[t] = c /\ Touched(t)
  BY DEF DbOK, Write, Touched
<1>2. /\ file' \in Content
      /\ txn' \in [Thread -> {"none", "begun", "reading", "stale", "writing"}]
      /\ view' \in [Thread -> Content \cup {NULL}]
  BY DEF DbOK, Write
<1>3. /\ \A u \in Thread : view'[u] = NULL <=> txn'[u] \in {"none", "begun"}
      /\ \A u \in Thread : txn'[u] = "reading" => view'[u] = file'
  <2> SUFFICES ASSUME NEW u \in Thread
               PROVE  /\ view'[u] = NULL <=> txn'[u] \in {"none", "begun"}
                      /\ txn'[u] = "reading" => view'[u] = file'
    OBVIOUS
  <2>1. CASE u = t
    BY <1>1, <2>1, ConnAssumption
  <2>2. CASE u # t
    BY <1>1, <2>2 DEF DbOK, Touched
  <2> QED
    BY <2>1, <2>2
<1>4. \A u \in Thread \ {t} : txn[u] # "writing"
  BY DEF DbOK, Write, MayWrite, LockFree
<1>5. \A u, v \in Thread : txn'[u] = "writing" /\ txn'[v] = "writing" => u = v
  BY <1>1, <1>4 DEF Touched
<1>6. txn[t] # "stale"
  BY DEF Write, MayWrite
<1> QED
  BY <1>1, <1>2, <1>3, <1>5, <1>6 DEF DbOK

\* One pointwise argument for every change of one thread's transaction.
LEMMA OneTouched ==
    ASSUME DbOK, NEW t \in Thread, Touched(t),
           NEW x \in {"none", "begun", "reading", "stale", "writing"},
           NEW c \in Content \cup {NULL},
           txn' = [txn EXCEPT ![t] = x], view' = [view EXCEPT ![t] = c],
           c = NULL <=> x \in {"none", "begun"},
           x = "reading" => c = file,
           x = "writing" => txn[t] = "writing"
    PROVE  DbOK'
<1>1. /\ file' \in Content
      /\ txn' \in [Thread -> {"none", "begun", "reading", "stale", "writing"}]
      /\ view' \in [Thread -> Content \cup {NULL}]
  BY DEF DbOK, Touched
<1>2. txn'[t] = x /\ view'[t] = c
  BY DEF DbOK
<1>3. ASSUME NEW u \in Thread
      PROVE  /\ view'[u] = NULL <=> txn'[u] \in {"none", "begun"}
             /\ txn'[u] = "reading" => view'[u] = file'
             /\ txn'[u] = "writing" => txn[u] = "writing"
  <2>1. CASE u = t
    BY <1>2, <2>1 DEF Touched
  <2>2. CASE u # t
    BY <1>3, <2>2 DEF DbOK, Touched
  <2> QED
    BY <2>1, <2>2
<1>4. \A u, v \in Thread : txn'[u] = "writing" /\ txn'[v] = "writing" => u = v
  BY <1>3 DEF DbOK
<1> QED
  BY <1>1, <1>3, <1>4 DEF DbOK

LEMMA ReadTouches ==
    ASSUME DbOK, NEW t \in Thread, Read(t)
    PROVE  /\ DbOK' /\ Touched(t)
           /\ txn'[t] = IF txn[t] = "begun" THEN "reading" ELSE txn[t]
           /\ view'[t] = IF txn[t] = "begun" THEN file ELSE view[t]
<1> DEFINE x == IF txn[t] = "begun" THEN "reading" ELSE txn[t]
           c == IF txn[t] = "begun" THEN file ELSE view[t]
<1>1. /\ x \in {"none", "begun", "reading", "stale", "writing"}
      /\ c \in Content \cup {NULL}
      /\ txn' = [txn EXCEPT ![t] = x] /\ view' = [view EXCEPT ![t] = c]
  BY DEF DbOK, Read
<1>2. /\ Touched(t) /\ txn'[t] = x /\ view'[t] = c
  BY DEF DbOK, Read, Touched
<1>3. /\ c = NULL <=> x \in {"none", "begun"}
      /\ x = "reading" => c = file
      /\ x = "writing" => txn[t] = "writing"
  BY ConnAssumption DEF DbOK
<1> HIDE DEF x, c
<1>4. DbOK'
  BY <1>1, <1>2, <1>3, OneTouched
<1> QED
  BY <1>2, <1>4 DEF x, c

LEMMA RollBackTouches ==
    ASSUME DbOK, NEW t \in Thread, RollBack(t)
    PROVE  /\ DbOK' /\ Touched(t)
           /\ txn'[t] = "none" /\ view'[t] = NULL
<1>1. Touched(t) /\ txn'[t] = "none" /\ view'[t] = NULL
  BY DEF DbOK, RollBack, Touched
<1>2. DbOK'
  BY <1>1, OneTouched DEF RollBack
<1> QED
  BY <1>1, <1>2

LEMMA WriteRaisesTouches ==
    ASSUME DbOK, NEW t \in Thread, WriteRaises(t)
    PROVE  /\ DbOK' /\ Touched(t)
           /\ \/ view'[t] = view[t] /\ txn'[t] = txn[t]
              \/ txn'[t] \in {"none", "begun"}
<1>1. CASE RollBack(t)
  BY <1>1, RollBackTouches
<1>2. CASE /\ txn' = [txn EXCEPT ![t] = IF txn[t] = "none" THEN "begun" ELSE txn[t]]
           /\ UNCHANGED <<file, view>>
  <2> DEFINE x == IF txn[t] = "none" THEN "begun" ELSE txn[t]
  <2>1. /\ x \in {"none", "begun", "reading", "stale", "writing"}
        /\ view[t] \in Content \cup {NULL}
        /\ txn' = [txn EXCEPT ![t] = x] /\ view' = [view EXCEPT ![t] = view[t]]
    BY <1>2 DEF DbOK
  <2>2. /\ Touched(t) /\ txn'[t] = x /\ view'[t] = view[t]
    BY <1>2 DEF DbOK, Touched
  <2>3. /\ view[t] = NULL <=> x \in {"none", "begun"}
        /\ x = "reading" => view[t] = file
        /\ x = "writing" => txn[t] = "writing"
    BY DEF DbOK
  <2> HIDE DEF x
  <2>4. DbOK'
    BY <2>1, <2>2, <2>3, OneTouched
  <2> QED
    BY <2>2, <2>4 DEF x
<1> QED
  BY <1>1, <1>2 DEF WriteRaises

LEMMA BeginTouches ==
    ASSUME DbOK, NEW t \in Thread, BeginImmediate(t)
    PROVE  /\ DbOK' /\ Touched(t)
           /\ txn'[t] = "writing" /\ view'[t] = file
<1>1. file \in Content /\ Write(t, file)
  BY DEF DbOK, BeginImmediate, Write, MayWrite
<1> QED
  BY <1>1, WriteTouches

LEMMA BeginRaisesTouches ==
    ASSUME DbOK, NEW t \in Thread, BeginRaises(t)
    PROVE  /\ DbOK' /\ Touched(t)
           /\ \/ view'[t] = view[t] /\ txn'[t] = txn[t]
              \/ txn'[t] = "writing" /\ view'[t] = file
<1>1. CASE txn[t] \in {"begun", "reading"} /\ LockFree
  <2>1. file \in Content /\ Write(t, file)
    BY <1>1 DEF DbOK, BeginRaises, Write, MayWrite
  <2> QED
    BY <2>1, WriteTouches
<1>2. CASE UNCHANGED <<file, txn, view>>
  BY <1>2 DEF DbOK, Touched
<1> QED
  BY <1>1, <1>2 DEF BeginRaises

LEMMA CommitDone ==
    ASSUME DbOK, NEW t \in Thread, Commit(t)
    PROVE  /\ DbOK'
           /\ txn'[t] = "none" /\ view'[t] = NULL
           /\ file' = IF txn[t] = "writing" THEN view[t] ELSE file
           /\ \A u \in Thread \ {t} :
                 /\ view'[u] = view[u]
                 /\ \/ txn'[u] = txn[u]
                    \/ txn[u] = "reading" /\ txn'[u] = "stale"
<1>1. PICK wrote \in BOOLEAN :
         /\ wrote => txn[t] = "writing"
         /\ Sees(t) # file => wrote \/ txn[t] # "writing"
         /\ txn' = [u \in Thread |->
                      CASE u = t -> "none"
                        [] u # t /\ wrote /\ txn[u] = "reading" -> "stale"
                        [] OTHER -> txn[u]]
  BY DEF Commit
<1>2. /\ file' = IF txn[t] = "writing" THEN view[t] ELSE file
      /\ view' = [view EXCEPT ![t] = NULL]
  BY DEF Commit
<1>3. txn'[t] = "none" /\ view'[t] = NULL
  BY <1>1, <1>2 DEF DbOK
<1>4. \A u \in Thread \ {t} :
         /\ view'[u] = view[u]
         /\ txn'[u] = IF wrote /\ txn[u] = "reading" THEN "stale" ELSE txn[u]
  BY <1>1, <1>2 DEF DbOK
<1>5. file' \in Content /\ (wrote \/ file' = file)
  BY <1>1, <1>2, SeesTyped DEF DbOK
<1>6. /\ txn' \in [Thread -> {"none", "begun", "reading", "stale", "writing"}]
      /\ view' \in [Thread -> Content \cup {NULL}]
  BY <1>1, <1>2 DEF DbOK
<1>7. ASSUME NEW u \in Thread
      PROVE  /\ view'[u] = NULL <=> txn'[u] \in {"none", "begun"}
             /\ txn'[u] = "reading" => view'[u] = file'
             /\ txn'[u] = "writing" => txn[u] = "writing"
  <2>1. CASE u = t
    BY <1>3, <2>1
  <2>2. CASE u # t
    BY <1>4, <1>5, <1>7, <2>2 DEF DbOK
  <2> QED
    BY <2>1, <2>2
<1>8. \A u, v \in Thread : txn'[u] = "writing" /\ txn'[v] = "writing" => u = v
  BY <1>7 DEF DbOK
<1> QED
  BY <1>2, <1>3, <1>4, <1>5, <1>6, <1>7, <1>8 DEF DbOK

----------------------------------------------------------------------------
(* What a commit does to a row of the file *)

Moved(j, a, b) ==
    \/ b = a
    \/ a = NoRow /\ b.status = "pending" /\ b.claims = 0 /\ j <= offered
    \/ a.status = "pending" /\ a.claims < Limit /\ b = Claimed(a)
    \/ /\ a.status = "processing"
       /\ \/ b = [a EXCEPT !.status = "gone"] /\ j \in ran
          \/ b = [a EXCEPT !.status = "pending"] /\ a.claims < Limit
          \/ b = [a EXCEPT !.status = "failed"]

LEMMA DraftMoves ==
    ASSUME ConnInv, NEW t \in Thread, txn[t] = "writing", NEW j \in Job
    PROVE  Moved(j, file.rows[j], view[t].rows[j])
<1>1. Draft(t, j) /\ ThreadSound(t) /\ FileSound
  BY DEF ConnInv, ThreadSound, DraftSound
<1>2. CASE j # held[t]
  BY <1>1, <1>2 DEF Draft, Moved
<1>3. CASE j = held[t]
  <2>1. held[t] # NULL
    BY <1>3, ConnAssumption DEF Job
  <2>2. CASE stage[t] = "claimed"
    BY <1>1, <1>3, <2>2 DEF Draft, Moved, FileSound
  <2>3. CASE stage[t] # "claimed"
    BY <1>1, <1>3, <2>1, <2>3 DEF Draft, Moved, ThreadSound
  <2> QED
    BY <2>2, <2>3
<1> QED
  BY <1>2, <1>3

LEMMA MovedFields ==
    ASSUME NEW j \in Job, NEW a \in Row, NEW b \in Row, Moved(j, a, b)
    PROVE  /\ a.status # "absent" => b.status # "absent"
           /\ b.status = "absent" => b = a
           /\ b.status = "pending" =>
                 \/ b = a \/ (b.claims = 0 /\ a = NoRow)
                 \/ (b.claims = a.claims /\ a.claims < Limit)
           /\ b.status = "gone" => a.status = "gone" \/ j \in ran
           /\ b.status = "failed" => b = a \/ a.status = "processing"
           /\ \/ b = a
              \/ a = NoRow /\ j <= offered
              \/ a.status \in {"pending", "processing"}
  BY RowFields DEF Moved, Statuses

----------------------------------------------------------------------------
(* The other threads, and what nobody commits *)

\* A step of t, as far as the other threads see it.
Alone(t) ==
    /\ \A u \in Thread \ {t} : /\ stage'[u] = stage[u]
                               /\ held'[u] = held[u]
                               /\ sending'[u] = sending[u]
    /\ ran \subseteq ran'
    /\ offered <= offered'

LEMMA CommitKeepsHeld ==
    ASSUME ConnInv, NEW t \in Thread, Commit(t), NEW u \in Thread \ {t},
           held[u] # NULL, stage[u] # "claimed"
    PROVE  file'.rows[held[u]] = file.rows[held[u]]
<1>1. DbOK /\ ThreadsOK /\ ThreadSound(u)
  BY TypeParts DEF ConnInv
<1>2. held[u] \in Job /\ held[u] # held[t]
  BY <1>1 DEF ConnInv, HeldOnce, ThreadsOK
<1>3. file.rows[held[u]].status = "processing"
  BY <1>1 DEF ThreadSound
<1>4. CASE txn[t] = "writing"
  <2>1. Draft(t, held[u])
    BY <1>2, <1>4 DEF ConnInv, ThreadSound, DraftSound
  <2>2. view[t].rows[held[u]] = file.rows[held[u]]
    BY <1>2, <1>3, <2>1 DEF Draft, NoRow
  <2> QED
    BY <1>1, <1>4, <2>2, CommitDone
<1>5. CASE txn[t] # "writing"
  BY <1>1, <1>5, CommitDone
<1> QED
  BY <1>4, <1>5

LEMMA OthersSound ==
    ASSUME ConnInv, NEW t \in Thread, Alone(t), offered' \in Nat, Touched(t) \/ Commit(t),
           NEW u \in Thread \ {t}
    PROVE  ThreadSound(u)'
<1>1. /\ DbOK /\ ThreadsOK /\ ThreadSound(u)
      /\ stage'[u] = stage[u] /\ held'[u] = held[u] /\ sending'[u] = sending[u]
      /\ ran \subseteq ran'
  BY TypeParts DEF ConnInv, Alone
<1>a. \A j \in Job : j <= offered => j <= offered'
  BY <1>1, ConnAssumption DEF Alone, ThreadsOK, Job
<1>b. \A j \in sending[u] : j <= offered => j <= offered'
  BY <1>1, <1>a DEF ThreadsOK
<1>2. CASE Touched(t)
  <2>1. file' = file /\ txn'[u] = txn[u] /\ view'[u] = view[u]
    BY <1>2 DEF Touched
  <2>2. ASSUME NEW j \in Job, Draft(u, j) PROVE Draft(u, j)'
    BY <1>1, <1>a, <2>1, <2>2 DEF Draft
  <2>3. DraftSound(u)'
    BY <1>1, <2>1, <2>2 DEF ThreadSound, DraftSound
  <2> QED
    BY <1>1, <1>b, <2>1, <2>3 DEF ThreadSound
<1>3. CASE Commit(t)
  <2>1. /\ view'[u] = view[u]
        /\ \/ txn'[u] = txn[u]
           \/ txn[u] = "reading" /\ txn'[u] = "stale"
        /\ file' = IF txn[t] = "writing" THEN view[t] ELSE file
    BY <1>1, <1>3, CommitDone
  <2>2. CASE txn[u] = "writing"
    <3>1. file' = file /\ txn'[u] = txn[u]
      BY <1>1, <2>1, <2>2 DEF DbOK
    <3>2. ASSUME NEW j \in Job, Draft(u, j) PROVE Draft(u, j)'
      BY <1>1, <1>a, <2>1, <3>1, <3>2 DEF Draft
    <3>3. DraftSound(u)'
      BY <1>1, <2>1, <3>1, <3>2 DEF ThreadSound, DraftSound
    <3> QED
      BY <1>1, <1>b, <2>1, <3>1, <3>3 DEF ThreadSound
  <2>3. CASE txn[u] # "writing"
    <3>1. /\ stage[u] \notin {"batching", "inserted", "popping", "claimed",
                              "deleting", "deleted", "buried", "updated"}
          /\ txn'[u] # "writing"
      BY <1>1, <1>b, <2>1, <2>3 DEF ThreadSound
    <3>2. held[u] # NULL => file'.rows[held[u]] = file.rows[held[u]]
      BY <1>3, <3>1, CommitKeepsHeld
    <3>3. DraftSound(u)'
      BY <3>1 DEF DraftSound
    <3> QED
      BY <1>1, <1>b, <2>1, <3>1, <3>2, <3>3 DEF ThreadSound
  <2> QED
    BY <2>2, <2>3
<1> QED
  BY <1>2, <1>3

LEMMA FileKept ==
    ASSUME ConnInv, file' = file, offered' \in Nat, offered <= offered',
           acked' = acked, ran \subseteq ran'
    PROVE  FileSound' /\ NothingLost' /\ DeadHasLetter'
<1>1. offered \in Nat /\ \A j \in Job : j > offered' => j > offered
  BY ConnAssumption, TypeParts DEF ConnInv, ThreadsOK, Job
<1>2. FileSound'
  BY <1>1 DEF ConnInv, FileSound
<1>3. NothingLost'
  BY DEF ConnInv, NothingLost
<1>4. DeadHasLetter'
  BY DEF ConnInv, DeadHasLetter
<1> QED
  BY <1>2, <1>3, <1>4

\* What is committed is sound, and adds to the jobs that were acknowledged
\* none but those the commit is about.
LEMMA Committed ==
    ASSUME ConnInv, NEW t \in Thread, Commit(t), stage[t] # "buried",
           offered' = offered, ran' = ran,
           acked' \subseteq acked \cup {j \in Job : /\ stage[t] = "inserted"
                                                  /\ j \in sending[t]}
    PROVE  FileSound' /\ NothingLost' /\ DeadHasLetter'
<1>1. /\ DbOK /\ ThreadsOK /\ ThreadSound(t)
      /\ file' \in Content /\ file \in Content
      /\ file' = IF txn[t] = "writing" THEN view[t] ELSE file
  BY TypeParts, CommitDone DEF ConnInv, DbOK
<1>2. ASSUME NEW j \in Job
      PROVE  /\ Moved(j, file.rows[j], file'.rows[j])
             /\ file.rows[j] \in Row /\ file'.rows[j] \in Row
  <2>1. file.rows[j] \in Row /\ file'.rows[j] \in Row
    BY <1>1 DEF Content
  <2>2. CASE txn[t] = "writing"
    BY <1>1, <2>1, <2>2, DraftMoves
  <2>3. CASE txn[t] # "writing"
    BY <1>1, <2>1, <2>3 DEF Moved
  <2> QED
    BY <2>1, <2>2, <2>3
<1>3. FileSound'
  <2> SUFFICES ASSUME NEW j \in Job
               PROVE  /\ file'.rows[j].status = "absent" => file'.rows[j] = NoRow
                      /\ file'.rows[j].status = "pending" => file'.rows[j].claims < Limit
                      /\ file'.rows[j].status = "gone" => j \in ran
                      /\ j > offered => file'.rows[j] = NoRow
    BY DEF FileSound
  <2>1. /\ file.rows[j].status = "absent" => file.rows[j] = NoRow
        /\ file.rows[j].status = "pending" => file.rows[j].claims < Limit
        /\ file.rows[j].status = "gone" => j \in ran
        /\ j > offered => file.rows[j] = NoRow
    BY DEF ConnInv, FileSound
  <2>2. 0 < Limit
    BY ConnAssumption
  <2>3. j > offered => ~(j <= offered)
    BY <1>1, ConnAssumption DEF ThreadsOK, Job
  <2>4. j > offered => file'.rows[j] = NoRow
    BY <1>2, <2>1, <2>3, MovedFields, RowFields
  <2> QED
    BY <1>2, <2>1, <2>2, <2>4, MovedFields
<1>4. NothingLost'
  <2> SUFFICES ASSUME NEW j \in acked'
               PROVE  /\ file'.rows[j].status # "absent"
                      /\ file'.rows[j].status = "gone" => j \in ran
    BY DEF NothingLost
  <2>1. j \in Job
    BY <1>1 DEF ThreadsOK
  <2>2. file'.rows[j].status = "gone" => j \in ran
    BY <1>3, <2>1 DEF FileSound
  <2>3. CASE j \in acked
    BY <1>2, <2>1, <2>2, <2>3, MovedFields DEF ConnInv, NothingLost
  <2>4. CASE stage[t] = "inserted" /\ j \in sending[t]
    <3>1. file'.rows[j] # NoRow
      BY <1>1, <2>4 DEF ThreadSound
    <3> QED
      BY <1>3, <2>1, <2>2, <3>1 DEF FileSound
  <2> QED
    BY <2>3, <2>4
<1>5. DeadHasLetter'
  <2> SUFFICES ASSUME NEW j \in Job, file'.rows[j].status = "failed"
               PROVE  j \in file'.letters
    BY DEF DeadHasLetter
  <2>1. CASE txn[t] = "writing"
    BY <1>1, <2>1 DEF ThreadSound, DraftSound
  <2>2. CASE txn[t] # "writing"
    BY <1>1, <2>2 DEF ConnInv, DeadHasLetter
  <2> QED
    BY <2>1, <2>2
<1> QED
  BY <1>3, <1>4, <1>5

----------------------------------------------------------------------------
(* What one step has to show *)

\* The program of t goes on: to statement s, holding h, inserting e.
Goes(t, s, h, e) ==
    /\ s \in Stages /\ h \in Job \cup {NULL} /\ e \in SUBSET Job
    /\ stage' = [stage EXCEPT ![t] = s]
    /\ held' = [held EXCEPT ![t] = h]
    /\ sending' = [sending EXCEPT ![t] = e]

LEMMA GoesTo ==
    ASSUME ThreadsOK, NEW t \in Thread,
           NEW s, NEW h, NEW e, Goes(t, s, h, e)
    PROVE  /\ stage'[t] = s /\ held'[t] = h /\ sending'[t] = e
           /\ stage' \in [Thread -> Stages]
           /\ held' \in [Thread -> Job \cup {NULL}]
           /\ sending' \in [Thread -> SUBSET Job]
           /\ \A u \in Thread \ {t} : /\ stage'[u] = stage[u]
                                      /\ held'[u] = held[u]
                                      /\ sending'[u] = sending[u]
  BY DEF ThreadsOK, Goes

LEMMA StepKeeps ==
    ASSUME ConnInv, NEW t \in Thread, DbOK', Touched(t) \/ Commit(t),
           NEW s, NEW h, NEW e, Goes(t, s, h, e),
           h \in {NULL, held[t]} \/ \A u \in Thread : held[u] # h,
           offered' \in 0 .. MaxJobs, offered <= offered',
           ran \subseteq ran', ran' \subseteq Job, acked' \subseteq Job,
           FileSound' /\ NothingLost' /\ DeadHasLetter',
           ThreadSound(t)'
    PROVE  ConnInv'
<1>1. ThreadsOK /\ HeldOnce
  BY TypeParts DEF ConnInv
<1>2. /\ held'[t] = h
      /\ \A u \in Thread \ {t} : /\ stage'[u] = stage[u]
                                 /\ held'[u] = held[u]
                                 /\ sending'[u] = sending[u]
  BY <1>1, GoesTo
<1>3. ConnTypeOK'
  <2>1. ThreadsOK'
    BY <1>1, GoesTo DEF ThreadsOK
  <2> QED
    BY <2>1, TypePartsNext
<1>4. \A u \in Thread : ThreadSound(u)'
  <2>1. offered' \in Nat /\ Alone(t)
    BY <1>2, ConnAssumption DEF Alone
  <2> QED
    BY <2>1, OthersSound
<1>5. HeldOnce'
  BY <1>1, <1>2 DEF HeldOnce
<1> QED
  BY <1>3, <1>4, <1>5 DEF ConnInv

\* A step that commits nothing.
LEMMA TouchKeeps ==
    ASSUME ConnInv, NEW t \in Thread, DbOK', Touched(t),
           NEW s, NEW h, NEW e, Goes(t, s, h, e),
           h \in {NULL, held[t]} \/ \A u \in Thread : held[u] # h,
           offered' \in 0 .. MaxJobs, offered <= offered',
           acked' = acked, ran \subseteq ran', ran' \subseteq Job,
           ThreadSound(t)'
    PROVE  ConnInv'
<1>1. file' = file /\ offered' \in Nat /\ acked' \subseteq Job
  BY ConnAssumption, TypeParts DEF Touched, ConnInv, ThreadsOK
<1>2. FileSound' /\ NothingLost' /\ DeadHasLetter'
  BY <1>1, FileKept
<1> QED
  BY <1>1, <1>2, StepKeeps

\* A commit, with which t has nothing to write any more.
LEMMA CommitKeeps ==
    ASSUME ConnInv, NEW t \in Thread, Commit(t), stage[t] # "buried",
           NEW s, NEW h, NEW e, Goes(t, s, h, e),
           h = NULL \/ h = held[t],
           offered' = offered, ran' = ran,
           acked' \subseteq acked \cup {j \in Job : /\ stage[t] = "inserted"
                                                  /\ j \in sending[t]},
           h = NULL => s = "idle",
           h # NULL => s = "running" /\ file'.rows[h].status = "processing"
    PROVE  ConnInv'
<1>1. DbOK /\ ThreadsOK /\ ThreadSound(t)
  BY TypeParts DEF ConnInv
<1>2. FileSound' /\ NothingLost' /\ DeadHasLetter'
  BY Committed
<1>3. /\ DbOK' /\ txn'[t] = "none"
      /\ stage'[t] = s /\ held'[t] = h /\ sending'[t] = e
  BY <1>1, CommitDone, GoesTo
<1>4. ThreadSound(t)'
  BY <1>1, <1>3 DEF ThreadSound, DraftSound
<1>5. /\ offered' \in 0 .. MaxJobs /\ offered <= offered'
      /\ ran \subseteq ran' /\ ran' \subseteq Job /\ acked' \subseteq Job
  BY <1>1, ConnAssumption DEF ThreadsOK
<1> QED
  BY <1>2, <1>3, <1>4, <1>5, StepKeeps

\* A rollback, with which t lets go of its job or stays where it was.
LEMMA RollBackKeeps ==
    ASSUME ConnInv, NEW t \in Thread, RollBack(t),
           NEW s, NEW h, NEW e, Goes(t, s, h, e),
           \/ h = NULL /\ s \in {"idle", "dead"}
           \/ h = held[t] /\ h # NULL /\ s \in {"running", "failing"} /\ stage[t] # "claimed",
           UNCHANGED <<offered, acked, ran>>
    PROVE  ConnInv'
<1>1. DbOK /\ ThreadsOK /\ ThreadSound(t)
  BY TypeParts DEF ConnInv
<1>2. /\ DbOK' /\ Touched(t) /\ txn'[t] = "none" /\ file' = file
      /\ stage'[t] = s /\ held'[t] = h /\ sending'[t] = e
  BY <1>1, RollBackTouches, GoesTo DEF Touched
<1>3. ThreadSound(t)'
  <2>1. CASE h = NULL /\ s \in {"idle", "dead"}
    BY <1>2, <2>1 DEF ThreadSound, DraftSound
  <2>2. CASE /\ h = held[t] /\ h # NULL
             /\ s \in {"running", "failing"} /\ stage[t] # "claimed"
    <3>1. t \in Consumer /\ file.rows[h].status = "processing"
      BY <1>1, <2>2 DEF ThreadSound
    <3> QED
      BY <1>2, <2>2, <3>1 DEF ThreadSound, DraftSound
  <2> QED
    BY <2>1, <2>2
<1>4. /\ offered' \in 0 .. MaxJobs /\ offered <= offered'
      /\ ran \subseteq ran' /\ ran' \subseteq Job
  BY <1>1, ConnAssumption DEF ThreadsOK
<1> QED
  BY <1>2, <1>3, <1>4, TouchKeeps

\* What the next statement of t starts from.
LEMMA SeenFile ==
    ASSUME ConnInv, NEW t \in Thread, txn[t] # "stale"
    PROVE  /\ \A j \in Job \ {held[t]} :
                 \/ Sees(t).rows[j] = file.rows[j]
                 \/ /\ file.rows[j] = NoRow /\ Sees(t).rows[j].status = "pending"
                    /\ Sees(t).rows[j].claims = 0 /\ j <= offered
           /\ file.letters \subseteq Sees(t).letters
           /\ stage[t] # "buried" =>
                 \A j \in Job : Sees(t).rows[j].status = "failed" => j \in Sees(t).letters
           /\ held[t] # NULL /\ stage[t] \in {"running", "batching", "inserted", "deleting"} =>
                 Sees(t).rows[held[t]] = file.rows[held[t]]
           /\ held[t] # NULL /\ stage[t] \in {"failing", "retrying", "burying"} =>
                 \/ Sees(t).rows[held[t]] = file.rows[held[t]]
                 \/ /\ Sees(t).rows[held[t]] = [file.rows[held[t]] EXCEPT !.status = "gone"]
                    /\ held[t] \in ran
<1>1. DbOK /\ ThreadsOK /\ ThreadSound(t)
  BY TypeParts DEF ConnInv
<1>2. CASE txn[t] = "writing"
  <2>1. /\ Sees(t) = view[t] /\ held[t] \in Job \cup {NULL}
        /\ DraftSound(t)
    BY <1>1, <1>2, SeesTyped DEF ThreadSound, ThreadsOK
  <2>2. \A j \in Job : Draft(t, j)
    BY <1>2, <2>1 DEF DraftSound
  <2>3. \A j \in Job \ {held[t]} :
           \/ Sees(t).rows[j] = file.rows[j]
           \/ /\ file.rows[j] = NoRow /\ Sees(t).rows[j].status = "pending"
              /\ Sees(t).rows[j].claims = 0 /\ j <= offered
    BY <2>1, <2>2 DEF Draft
  <2>4. /\ file.letters \subseteq Sees(t).letters
        /\ stage[t] # "buried" =>
              \A j \in Job : Sees(t).rows[j].status = "failed" => j \in Sees(t).letters
    BY <1>2, <2>1 DEF DraftSound
  <2>5. held[t] # NULL => Draft(t, held[t])
    BY <2>1, <2>2
  <2>6. held[t] # NULL /\ stage[t] \in {"running", "batching", "inserted", "deleting"} =>
           Sees(t).rows[held[t]] = file.rows[held[t]]
    BY <2>1, <2>5 DEF Draft
  <2>7. held[t] # NULL /\ stage[t] \in {"failing", "retrying", "burying"} =>
           \/ Sees(t).rows[held[t]] = file.rows[held[t]]
           \/ /\ Sees(t).rows[held[t]] = [file.rows[held[t]] EXCEPT !.status = "gone"]
              /\ held[t] \in ran
    BY <2>1, <2>5 DEF Draft
  <2> QED
    BY <2>3, <2>4, <2>6, <2>7
<1>3. CASE txn[t] # "writing"
  <2>1. Sees(t) = file
    BY <1>1, <1>3, SeesTyped DEF DbOK
  <2> QED
    BY <2>1 DEF ConnInv, DeadHasLetter
<1> QED
  BY <1>2, <1>3

\* A statement of t raises and leaves its transaction to the next one.
LEMMA RaisedKeeps ==
    ASSUME ConnInv, NEW t \in Thread, DbOK', Touched(t),
           NEW s, NEW e, Goes(t, s, held[t], e),
           \/ s = stage[t] /\ stage[t] \in {"idle", "running"}
           \/ stage[t] = "batching" /\ s = IF held[t] = NULL THEN "idle" ELSE "running"
           \/ stage[t] \in {"running", "deleting", "deleted"} /\ s = "failing",
           \/ txn'[t] = txn[t] /\ view'[t] = view[t]
           \/ txn'[t] \in {"none", "begun"}
           \/ txn'[t] = "writing" /\ view'[t] = file,
           offered' \in 0 .. MaxJobs, offered <= offered',
           acked' = acked, ran \subseteq ran', ran' \subseteq Job
    PROVE  ConnInv'
<1>1. /\ DbOK /\ ThreadsOK /\ ThreadSound(t) /\ file' = file
      /\ stage'[t] = s /\ held'[t] = held[t] /\ sending'[t] = e
  BY TypeParts, GoesTo DEF ConnInv, Touched
<1>2. \A j \in Job : j <= offered => j <= offered'
  BY <1>1, ConnAssumption DEF ThreadsOK, Job
<1>3. /\ s \in {"idle", "running", "failing"}
      /\ held[t] = NULL <=> s = "idle"
      /\ stage[t] # "claimed"
      /\ t \in Consumer => txn[t] \notin {"reading", "stale"}
  BY <1>1 DEF ThreadSound
<1>4. DraftSound(t)'
  <2>1. CASE txn'[t] # "writing"
    BY <2>1 DEF DraftSound
  <2>2. CASE txn'[t] = "writing" /\ view'[t] = file
    <3>1. \A j \in Job : Draft(t, j)'
      BY <1>1, <1>3, <2>2 DEF Draft
    <3> QED
      BY <1>1, <2>2, <3>1 DEF DraftSound, ConnInv, DeadHasLetter
  <2>3. CASE txn'[t] = "writing" /\ txn[t] = "writing" /\ view'[t] = view[t]
    <3>1. stage[t] \in {"idle", "running", "batching", "deleting", "deleted"}
      OBVIOUS
    <3>2. ASSUME NEW j \in Job PROVE Draft(t, j)'
      <4>1. Draft(t, j)
        BY <1>1, <2>3 DEF ThreadSound, DraftSound
      <4>2. CASE j # held[t]
        BY <1>1, <1>2, <2>3, <4>1, <4>2 DEF Draft
      <4>3. CASE j = held[t] /\ stage[t] # "deleted"
        BY <1>1, <1>3, <2>3, <3>1, <4>1, <4>3 DEF Draft
      <4>4. CASE j = held[t] /\ stage[t] = "deleted"
        <5>1. s = "failing"
          BY <4>4
        <5> QED
          BY <1>1, <2>3, <4>1, <4>4, <5>1 DEF Draft
      <4> QED
        BY <4>2, <4>3, <4>4
    <3> QED
      BY <1>1, <2>3, <3>1, <3>2 DEF ThreadSound, DraftSound
  <2> QED
    BY <2>1, <2>2, <2>3
<1>5. t \in Consumer => txn'[t] \notin {"reading", "stale"}
  BY <1>3
<1>6. ThreadSound(t)'
  BY <1>1, <1>3, <1>4, <1>5, ConnAssumption DEF ThreadSound
<1> QED
  BY <1>6, TouchKeeps

----------------------------------------------------------------------------
(* insert_job and insert_jobs_batch *)

\* A statement that adds a row to what t sees.
LEMMA InsertedKeeps ==
    ASSUME ConnInv, NEW t \in Thread,
           NEW j \in Job, j # held[t], file.rows[j] = NoRow,
           Write(t, Inserted(Sees(t), j)), stage[t] # "buried",
           held[t] = NULL \/ stage[t] \in {"running", "batching"},
           NEW s \in {"batching", "inserted"}, NEW e, Goes(t, s, held[t], e),
           offered' \in 0 .. MaxJobs, offered <= offered', j <= offered',
           UNCHANGED <<acked, ran>>,
           \A k \in e : k <= offered',
           s = "inserted" => \A k \in e : k = j \/ Sees(t).rows[k] # NoRow
    PROVE  ConnInv'
<1>1. /\ DbOK /\ ThreadsOK /\ ThreadSound(t)
      /\ Sees(t) \in Content /\ Inserted(Sees(t), j) \in Content
      /\ stage'[t] = s /\ held'[t] = held[t] /\ sending'[t] = e
      /\ e \subseteq Job
  BY TypeParts, SeesTyped, InsertedRows, GoesTo DEF ConnInv, Goes
<1>2. /\ DbOK' /\ Touched(t) /\ file' = file /\ txn[t] # "stale"
      /\ txn'[t] = "writing" /\ view'[t] = Inserted(Sees(t), j)
  BY <1>1, WriteTouches DEF Touched
<1>3. /\ view'[t].letters = Sees(t).letters
      /\ view'[t].rows[j] = [status |-> "pending", claims |-> 0]
      /\ \A k \in Job \ {j} : view'[t].rows[k] = Sees(t).rows[k]
  BY <1>1, <1>2, InsertedRows
<1>4. \A k \in Job : k <= offered => k <= offered'
  BY <1>1, ConnAssumption DEF ThreadsOK, Job
<1>5. ASSUME NEW k \in Job PROVE Draft(t, k)'
  <2>1. CASE k = j
    BY <1>1, <1>2, <1>3, <2>1 DEF Draft
  <2>2. CASE k # j /\ k = held[t]
    <3>1. held[t] # NULL
      BY <2>2, ConnAssumption DEF Job
    <3>2. Sees(t).rows[k] = file.rows[k]
      BY <1>2, <2>2, <3>1, SeenFile
    <3> QED
      BY <1>1, <1>2, <1>3, <2>2, <3>2 DEF Draft
  <2>3. CASE k # j /\ k # held[t]
    <3>1. \/ Sees(t).rows[k] = file.rows[k]
          \/ /\ file.rows[k] = NoRow /\ Sees(t).rows[k].status = "pending"
             /\ Sees(t).rows[k].claims = 0 /\ k <= offered
      BY <1>2, <2>3, SeenFile
    <3> QED
      BY <1>1, <1>2, <1>3, <1>4, <2>3, <3>1 DEF Draft
  <2> QED
    BY <2>1, <2>2, <2>3
<1>6. DraftSound(t)'
  <2>1. /\ file.letters \subseteq Sees(t).letters
        /\ \A k \in Job : Sees(t).rows[k].status = "failed" => k \in Sees(t).letters
    BY <1>2, SeenFile
  <2> QED
    BY <1>2, <1>3, <1>5, <2>1 DEF DraftSound
<1>7. s = "inserted" => \A k \in e : view'[t].rows[k] # NoRow
  BY <1>1, <1>3 DEF NoRow
<1>8. held[t] # NULL => t \in Consumer /\ file.rows[held[t]].status = "processing"
  BY <1>1 DEF ThreadSound
<1>9. ThreadSound(t)'
  BY <1>1, <1>2, <1>6, <1>7, <1>8 DEF ThreadSound
<1> QED
  BY <1>1, <1>2, <1>9, TouchKeeps DEF ThreadsOK

\* The next job to be handed to an insert is nobody's and has no row.
LEMMA NextIsNew ==
    ASSUME ConnInv, offered < MaxJobs
    PROVE  /\ offered + 1 \in Job /\ file.rows[offered + 1] = NoRow
           /\ offered + 1 \in 0 .. MaxJobs /\ offered <= offered + 1
           /\ Batch(1) = {offered + 1}
<1>1. offered \in 0 .. MaxJobs /\ MaxJobs \in Nat
  BY TypeParts, ConnAssumption DEF ConnInv, ThreadsOK
<1>2. offered + 1 \in Job /\ offered + 1 > offered
  BY <1>1 DEF Job
<1>3. Batch(1) = {offered + 1}
  BY <1>1 DEF Batch
<1> QED
  BY <1>1, <1>2, <1>3 DEF ConnInv, FileSound

\* A job without a row is not the one that a thread holds, but for a claim.
LEMMA NoRowNotHeld ==
    ASSUME ConnInv, NEW t \in Thread, NEW j \in Job, stage[t] # "claimed",
           file.rows[j] = NoRow
    PROVE  j # held[t]
<1>1. ThreadSound(t) /\ NULL \notin Job
  BY ConnAssumption DEF ConnInv, Job
<1> QED
  BY <1>1 DEF ThreadSound, NoRow

LEMMA InsertJobInv ==
    ASSUME ConnInv, NEW t \in Thread, InsertJob(t) PROVE ConnInv'
<1>1. /\ DbOK /\ ThreadsOK /\ offered < MaxJobs /\ offered' = offered + 1
      /\ held[t] \in Job \cup {NULL} /\ sending[t] \in SUBSET Job
      /\ UNCHANGED <<held, acked, ran>>
      /\ stage[t] = IF held[t] = NULL THEN "idle" ELSE "running"
  BY TypeParts DEF ConnInv, InsertJob, MayCall, ThreadsOK
<1>2. held' = [held EXCEPT ![t] = held[t]]
  BY <1>1 DEF ThreadsOK
<1>3. CASE /\ Write(t, Inserted(Sees(t), offered + 1))
           /\ sending' = [sending EXCEPT ![t] = Batch(1)]
           /\ Goto(t, "inserted")
  <2>1. /\ offered + 1 \in Job /\ file.rows[offered + 1] = NoRow
        /\ offered' \in 0 .. MaxJobs /\ offered <= offered' /\ offered + 1 <= offered'
        /\ Batch(1) = {offered + 1} /\ Batch(1) \in SUBSET Job
    BY <1>1, NextIsNew, ConnAssumption
  <2>2. offered + 1 # held[t]
    BY <1>1, <2>1, NoRowNotHeld
  <2>3. Goes(t, "inserted", held[t], Batch(1))
    BY <1>1, <1>2, <1>3, <2>1 DEF Goes, Goto, Stages
  <2>4. \A k \in Batch(1) : k <= offered'
    BY <2>1
  <2>5. \A k \in Batch(1) : k = offered + 1 \/ Sees(t).rows[k] # NoRow
    BY <2>1
  <2> QED
    BY <1>1, <1>3, <2>1, <2>2, <2>3, <2>4, <2>5, InsertedKeeps
<1>4. CASE WriteRaises(t) /\ UNCHANGED <<sending, stage>>
  <2>1. /\ stage' = [stage EXCEPT ![t] = stage[t]]
        /\ sending' = [sending EXCEPT ![t] = sending[t]]
        /\ stage[t] \in Stages
    BY <1>1, <1>4 DEF ThreadsOK
  <2>2. Goes(t, stage[t], held[t], sending[t])
    BY <1>1, <1>2, <2>1 DEF Goes
  <2>3. offered' \in 0 .. MaxJobs /\ offered <= offered'
    BY <1>1, NextIsNew
  <2>4. /\ DbOK' /\ Touched(t)
        /\ \/ view'[t] = view[t] /\ txn'[t] = txn[t]
           \/ txn'[t] \in {"none", "begun"}
    BY <1>1, <1>4, WriteRaisesTouches
  <2>5. ran \subseteq ran' /\ ran' \subseteq Job
    BY <1>1 DEF ThreadsOK
  <2> QED
    BY <1>1, <2>2, <2>3, <2>4, <2>5, RaisedKeeps
<1> QED
  BY <1>3, <1>4 DEF InsertJob

\* Where t may begin to write without having written.
LEMMA BegunKeeps ==
    ASSUME ConnInv, NEW t \in Thread, DbOK', Touched(t),
           txn'[t] = "writing", view'[t] = file,
           NEW s, NEW e, Goes(t, s, held[t], e),
           \/ s = "batching" /\ stage[t] \in {"idle", "running"}
           \/ s \in {"popping", "updated"} /\ stage[t] = "idle"
           \/ s = "deleting" /\ stage[t] = "running" /\ held[t] \in ran',
           s = "batching" => \A k \in e : k <= offered',
           offered' \in 0 .. MaxJobs, offered <= offered',
           acked' = acked, ran \subseteq ran', ran' \subseteq Job
    PROVE  ConnInv'
<1>1. /\ DbOK /\ ThreadsOK /\ ThreadSound(t) /\ file' = file
      /\ stage'[t] = s /\ held'[t] = held[t] /\ sending'[t] = e
  BY TypeParts, GoesTo DEF ConnInv, Touched
<1>2. \A j \in Job : Draft(t, j)'
  BY <1>1 DEF Draft
<1>3. DraftSound(t)'
  BY <1>1, <1>2 DEF DraftSound, ConnInv, DeadHasLetter
<1>4. /\ held[t] # NULL => /\ t \in Consumer /\ stage[t] = "running"
                           /\ file.rows[held[t]].status = "processing"
      /\ held[t] = NULL => stage[t] = "idle"
  BY <1>1 DEF ThreadSound
<1>5. ThreadSound(t)'
  BY <1>1, <1>3, <1>4 DEF ThreadSound
<1> QED
  BY <1>1, <1>5, TouchKeeps

LEMMA BatchIsNew ==
    ASSUME ConnInv, offered + BatchSize <= MaxJobs
    PROVE  /\ Batch(BatchSize) \in SUBSET Job
           /\ offered + BatchSize \in 0 .. MaxJobs
           /\ offered <= offered + BatchSize
           /\ \A k \in Batch(BatchSize) : k <= offered + BatchSize
<1>1. offered \in 0 .. MaxJobs /\ MaxJobs \in Nat /\ BatchSize \in Nat
  BY TypeParts, ConnAssumption DEF ConnInv, ThreadsOK
<1> QED
  BY <1>1 DEF Batch, Job

LEMMA InsertJobsBatchInv ==
    ASSUME ConnInv, NEW t \in Thread, InsertJobsBatch(t) PROVE ConnInv'
<1>1. /\ DbOK /\ ThreadsOK
      /\ offered + BatchSize <= MaxJobs /\ offered' = offered + BatchSize
      /\ held[t] \in Job \cup {NULL} /\ sending[t] \in SUBSET Job
      /\ UNCHANGED <<held, acked, ran>>
      /\ stage[t] \in {"idle", "running"}
  BY TypeParts DEF ConnInv, InsertJobsBatch, MayCall, ThreadsOK
<1>2. held' = [held EXCEPT ![t] = held[t]] /\ ran \subseteq ran' /\ ran' \subseteq Job
  BY <1>1 DEF ThreadsOK
<1>3. /\ Batch(BatchSize) \in SUBSET Job
      /\ offered' \in 0 .. MaxJobs /\ offered <= offered'
      /\ \A k \in Batch(BatchSize) : k <= offered'
  BY <1>1, BatchIsNew
<1>4. CASE /\ BeginImmediate(t)
           /\ sending' = [sending EXCEPT ![t] = Batch(BatchSize)]
           /\ Goto(t, "batching")
  <2>1. Goes(t, "batching", held[t], Batch(BatchSize))
    BY <1>1, <1>2, <1>3, <1>4 DEF Goes, Goto, Stages
  <2>2. DbOK' /\ Touched(t) /\ txn'[t] = "writing" /\ view'[t] = file
    BY <1>1, <1>4, BeginTouches
  <2> QED
    BY <1>1, <1>2, <1>3, <2>1, <2>2, BegunKeeps
<1>5. CASE BeginRaises(t) /\ UNCHANGED <<sending, stage>>
  <2>1. /\ stage' = [stage EXCEPT ![t] = stage[t]]
        /\ sending' = [sending EXCEPT ![t] = sending[t]]
        /\ stage[t] \in Stages
    BY <1>1, <1>5 DEF ThreadsOK
  <2>2. Goes(t, stage[t], held[t], sending[t])
    BY <1>1, <1>2, <2>1 DEF Goes
  <2>3. /\ DbOK' /\ Touched(t)
        /\ \/ view'[t] = view[t] /\ txn'[t] = txn[t]
           \/ txn'[t] = "writing" /\ view'[t] = file
    BY <1>1, <1>5, BeginRaisesTouches
  <2> QED
    BY <1>1, <1>2, <1>3, <2>2, <2>3, RaisedKeeps
<1> QED
  BY <1>4, <1>5 DEF InsertJobsBatch

LEMMA InsertRowInv ==
    ASSUME ConnInv, NEW t \in Thread, InsertRow(t) PROVE ConnInv'
<1>1. /\ DbOK /\ ThreadsOK /\ ThreadSound(t) /\ stage[t] = "batching"
      /\ held[t] \in Job \cup {NULL} /\ sending[t] \in SUBSET Job
      /\ UNCHANGED <<sending, held, offered, acked, ran>>
  BY TypeParts DEF ConnInv, InsertRow, ThreadsOK
<1>2. /\ txn[t] = "writing" /\ Sees(t) = view[t]
      /\ \A k \in sending[t] : k <= offered
  BY <1>1, SeesTyped DEF ThreadSound
<1>3. PICK j \in Unsent(t) :
         /\ Write(t, Inserted(Sees(t), j))
         /\ Goto(t, IF Unsent(t) = {j} THEN "inserted" ELSE "batching")
  BY DEF InsertRow
<1>4. j \in Job /\ j \in sending[t] /\ view[t].rows[j] = NoRow
  BY <1>1, <1>3 DEF Unsent
<1>5. j # held[t] /\ file.rows[j] = NoRow
  <2>1. Moved(j, file.rows[j], NoRow)
    BY <1>2, <1>4, DraftMoves
  <2>2. file.rows[j] \in Row
    BY <1>1, <1>4 DEF DbOK, Content
  <2>3. NoRow \in Row
    BY DEF NoRow, Row
  <2>4. file.rows[j] = NoRow
    BY <1>4, <2>1, <2>2, <2>3, MovedFields, RowFields
  <2> QED
    BY <1>1, <1>4, <2>4, NoRowNotHeld
<1>6. /\ held' = [held EXCEPT ![t] = held[t]]
      /\ sending' = [sending EXCEPT ![t] = sending[t]]
      /\ offered' \in 0 .. MaxJobs /\ offered <= offered' /\ offered' = offered
      /\ ran \subseteq ran' /\ ran' \subseteq Job
  BY <1>1, ConnAssumption DEF ThreadsOK
<1>7. PICK s \in {"batching", "inserted"} :
         /\ Goto(t, s)
         /\ s = "inserted" => \A k \in sending[t] : k = j \/ Sees(t).rows[k] # NoRow
  BY <1>2, <1>3 DEF Unsent
<1>8. Goes(t, s, held[t], sending[t])
  BY <1>1, <1>6, <1>7 DEF Goes, Goto, Stages
<1>9. /\ j <= offered' /\ \A k \in sending[t] : k <= offered'
  BY <1>2, <1>4, <1>6
<1> QED
  BY <1>1, <1>3, <1>4, <1>5, <1>6, <1>7, <1>8, <1>9, InsertedKeeps

LEMMA FinishInsertInv ==
    ASSUME ConnInv, NEW t \in Thread, FinishInsert(t) PROVE ConnInv'
<1>1. /\ DbOK /\ ThreadsOK /\ ThreadSound(t) /\ stage[t] = "inserted" /\ Commit(t)
      /\ held[t] \in Job \cup {NULL} /\ sending[t] \subseteq Job
      /\ acked' = acked \cup sending[t] /\ UNCHANGED <<held, offered, ran>>
  BY TypeParts DEF ConnInv, FinishInsert, ThreadsOK
<1>2. /\ held' = [held EXCEPT ![t] = held[t]]
      /\ sending' = [sending EXCEPT ![t] = {}]
      /\ Goto(t, IF held[t] = NULL THEN "idle" ELSE "running")
  BY <1>1 DEF ThreadsOK, FinishInsert, Back
<1>3. PICK s \in {"idle", "running"} :
         Goto(t, s) /\ s = IF held[t] = NULL THEN "idle" ELSE "running"
  BY <1>2
<1>4. Goes(t, s, held[t], {})
  BY <1>1, <1>2, <1>3 DEF Goes, Goto, Stages
<1>5. acked' \subseteq acked \cup {j \in Job : /\ stage[t] = "inserted"
                                              /\ j \in sending[t]}
  BY <1>1
<1>6. held[t] # NULL => file'.rows[held[t]].status = "processing"
  <2>1. txn[t] = "writing" /\ Sees(t) = view[t] /\ file' = view[t]
    BY <1>1, SeesTyped, CommitDone DEF ThreadSound
  <2>2. held[t] # NULL => /\ Sees(t).rows[held[t]] = file.rows[held[t]]
                          /\ file.rows[held[t]].status = "processing"
    BY <1>1, <2>1, SeenFile DEF ThreadSound
  <2> QED
    BY <2>1, <2>2
<1> QED
  BY <1>1, <1>3, <1>4, <1>5, <1>6, CommitKeeps

LEMMA InsertRaisesInv ==
    ASSUME ConnInv, NEW t \in Thread, InsertRaises(t) PROVE ConnInv'
<1>1. /\ DbOK /\ ThreadsOK
      /\ held[t] \in Job \cup {NULL} /\ UNCHANGED <<held, offered, acked, ran>>
  BY TypeParts DEF ConnInv, InsertRaises, ThreadsOK
<1>2. /\ held' = [held EXCEPT ![t] = held[t]]
      /\ sending' = [sending EXCEPT ![t] = {}]
      /\ Goto(t, IF held[t] = NULL THEN "idle" ELSE "running")
      /\ offered' \in 0 .. MaxJobs /\ offered <= offered'
      /\ ran \subseteq ran' /\ ran' \subseteq Job
  BY <1>1, ConnAssumption DEF ThreadsOK, InsertRaises, Back
<1>3. PICK s \in {"idle", "running"} :
         Goto(t, s) /\ s = IF held[t] = NULL THEN "idle" ELSE "running"
  BY <1>2
<1>4. Goes(t, s, held[t], {})
  BY <1>1, <1>2, <1>3 DEF Goes, Goto, Stages
<1>5. CASE stage[t] = "batching" /\ WriteRaises(t)
  <2>1. /\ DbOK' /\ Touched(t)
        /\ \/ view'[t] = view[t] /\ txn'[t] = txn[t]
           \/ txn'[t] \in {"none", "begun"}
    BY <1>1, <1>5, WriteRaisesTouches
  <2> QED
    BY <1>1, <1>2, <1>3, <1>4, <1>5, <2>1, RaisedKeeps
<1>6. CASE stage[t] = "inserted" /\ RollBack(t)
  BY <1>1, <1>3, <1>4, <1>6, RollBackKeeps
<1> QED
  BY <1>5, <1>6 DEF InsertRaises

----------------------------------------------------------------------------
(* pop_job *)

LEMMA GoesWith ==
    ASSUME ThreadsOK, NEW t \in Thread, NEW s \in Stages, Goto(t, s),
           UNCHANGED <<sending, held>>
    PROVE  Goes(t, s, held[t], sending[t])
<1>1. /\ held[t] \in Job \cup {NULL} /\ sending[t] \in SUBSET Job
      /\ held' = [held EXCEPT ![t] = held[t]]
      /\ sending' = [sending EXCEPT ![t] = sending[t]]
  BY DEF ThreadsOK
<1> QED
  BY <1>1 DEF Goes, Goto

LEMMA GoesWithJob ==
    ASSUME ThreadsOK, NEW t \in Thread, NEW s \in Stages, Goto(t, s),
           NEW h \in Job \cup {NULL},
           held' = [held EXCEPT ![t] = h], UNCHANGED sending
    PROVE  Goes(t, s, h, sending[t])
<1>1. /\ sending[t] \in SUBSET Job
      /\ sending' = [sending EXCEPT ![t] = sending[t]]
  BY DEF ThreadsOK
<1> QED
  BY <1>1 DEF Goes, Goto

LEMMA NothingNew ==
    ASSUME ThreadsOK, UNCHANGED <<offered, acked, ran>>
    PROVE  /\ offered' \in 0 .. MaxJobs /\ offered <= offered' /\ offered' = offered
           /\ acked' = acked /\ ran \subseteq ran' /\ ran' \subseteq Job /\ ran' = ran
           /\ acked' \subseteq acked
  BY ConnAssumption DEF ThreadsOK

LEMMA BeginPopInv ==
    ASSUME ConnInv, NEW t \in Thread, BeginPop(t) PROVE ConnInv'
<1>1. /\ DbOK /\ ThreadsOK /\ stage[t] = "idle" /\ BeginImmediate(t)
      /\ Goto(t, "popping") /\ UNCHANGED <<sending, held>>
      /\ UNCHANGED <<offered, acked, ran>>
  BY TypeParts DEF ConnInv, BeginPop
<1>2. Goes(t, "popping", held[t], sending[t])
  BY <1>1, GoesWith DEF Stages
<1>3. DbOK' /\ Touched(t) /\ txn'[t] = "writing" /\ view'[t] = file
  BY <1>1, BeginTouches
<1> QED
  BY <1>1, <1>2, <1>3, NothingNew, BegunKeeps

LEMMA ClaimJobInv ==
    ASSUME ConnInv, NEW t \in Thread, t \in Consumer, ClaimJob(t) PROVE ConnInv'
<1>1. /\ DbOK /\ ThreadsOK /\ ThreadSound(t) /\ stage[t] = "popping"
      /\ Goto(t, "claimed") /\ UNCHANGED sending
      /\ UNCHANGED <<offered, acked, ran>>
  BY TypeParts DEF ConnInv, ClaimJob
<1>2. /\ txn[t] = "writing" /\ view[t] = file /\ held[t] = NULL
      /\ file \in Content
  BY <1>1 DEF ThreadSound, DbOK
<1>3. PICK j \in PendingIn(view[t]) :
         /\ Write(t, [view[t] EXCEPT !.rows[j] = Claimed(@)])
         /\ held' = [held EXCEPT ![t] = j]
  BY DEF ClaimJob
<1>4. j \in Job /\ file.rows[j].status = "pending"
  BY <1>2, <1>3 DEF PendingIn
<1> DEFINE c == [file EXCEPT !.rows[j] = Claimed(@)]
<1>5. /\ c \in Content /\ c.letters = file.letters
      /\ c.rows[j] = Claimed(file.rows[j])
      /\ \A k \in Job \ {j} : c.rows[k] = file.rows[k]
  BY <1>2, <1>4, ClaimedRows
<1>6. Write(t, c)
  BY <1>2, <1>3
<1> HIDE DEF c
<1>7. /\ DbOK' /\ Touched(t) /\ file' = file
      /\ txn'[t] = "writing" /\ view'[t] = c
  BY <1>1, <1>5, <1>6, WriteTouches DEF Touched
<1>8. Goes(t, "claimed", j, sending[t])
  BY <1>1, <1>3, <1>4, GoesWithJob DEF Stages
<1>9. stage'[t] = "claimed" /\ held'[t] = j /\ j # NULL
  BY <1>1, <1>4, <1>8, GoesTo, ConnAssumption DEF Job
<1>10. ASSUME NEW u \in Thread PROVE held[u] # j
  <2>1. CASE txn[u] = "writing"
    BY <1>1, <1>2, <1>9, <2>1 DEF DbOK
  <2>2. CASE txn[u] # "writing" /\ held[u] = j
    BY <1>4, <1>9, <2>2 DEF ConnInv, ThreadSound
  <2> QED
    BY <2>1, <2>2
<1>11. DraftSound(t)'
  <2>1. \A k \in Job : Draft(t, k)'
    BY <1>4, <1>5, <1>7, <1>9 DEF Draft
  <2>2. file.rows[j] \in Row
    BY <1>2, <1>4 DEF Content
  <2>3. c.rows[j].status = "processing"
    BY <1>5, <2>2, RowFields
  <2>4. \A k \in Job : c.rows[k].status = "failed" => k \in c.letters
    BY <1>5, <2>3 DEF ConnInv, DeadHasLetter
  <2> QED
    BY <1>5, <1>7, <2>1, <2>4 DEF DraftSound
<1>12. ThreadSound(t)'
  BY <1>7, <1>9, <1>11 DEF ThreadSound
<1> QED
  BY <1>1, <1>7, <1>8, <1>10, <1>12, NothingNew, TouchKeeps

LEMMA TakeInv ==
    ASSUME ConnInv, NEW t \in Thread, Take(t) PROVE ConnInv'
<1>1. /\ DbOK /\ ThreadsOK /\ ThreadSound(t) /\ Commit(t)
      /\ UNCHANGED <<sending, held>> /\ UNCHANGED <<offered, acked, ran>>
  BY TypeParts DEF ConnInv, Take
<1>2. CASE stage[t] = "claimed" /\ Goto(t, "running")
  <2>1. Goes(t, "running", held[t], sending[t])
    BY <1>1, <1>2, GoesWith DEF Stages
  <2>2. held[t] # NULL /\ held[t] \in Job /\ txn[t] = "writing" /\ file' = view[t]
    BY <1>1, <1>2, CommitDone DEF ThreadSound, ThreadsOK
  <2>3. Draft(t, held[t])
    BY <1>1, <2>2 DEF ThreadSound, DraftSound
  <2>4. file'.rows[held[t]] = Claimed(file.rows[held[t]])
    BY <1>2, <2>2, <2>3 DEF Draft
  <2>5. file'.rows[held[t]].status = "processing"
    <3>1. file.rows[held[t]] \in Row
      BY <1>1, <2>2 DEF DbOK, Content
    <3> QED
      BY <2>4, <3>1, RowFields
  <2> QED
    BY <1>1, <1>2, <2>1, <2>2, <2>5, NothingNew, CommitKeeps
<1>3. CASE stage[t] = "popping" /\ Goto(t, "idle")
  <2>1. Goes(t, "idle", held[t], sending[t])
    BY <1>1, <1>3, GoesWith DEF Stages
  <2>2. held[t] = NULL
    BY <1>1, <1>3 DEF ThreadSound
  <2> QED
    BY <1>1, <1>3, <2>1, <2>2, NothingNew, CommitKeeps
<1> QED
  BY <1>2, <1>3 DEF Take

LEMMA PopRaisesInv ==
    ASSUME ConnInv, NEW t \in Thread, PopRaises(t) PROVE ConnInv'
<1>1. /\ ThreadsOK /\ RollBack(t) /\ Goto(t, "idle")
      /\ held' = [held EXCEPT ![t] = NULL] /\ UNCHANGED sending
      /\ UNCHANGED <<offered, acked, ran>>
  BY TypeParts DEF ConnInv, PopRaises
<1>2. Goes(t, "idle", NULL, sending[t])
  BY <1>1, GoesWithJob DEF Stages
<1> QED
  BY <1>1, <1>2, RollBackKeeps

----------------------------------------------------------------------------
(* complete_job *)

LEMMA BeginCompleteInv ==
    ASSUME ConnInv, NEW t \in Thread, BeginComplete(t) PROVE ConnInv'
<1>1. /\ DbOK /\ ThreadsOK /\ ThreadSound(t) /\ stage[t] = "running"
      /\ ran' = ran \cup {held[t]} /\ UNCHANGED <<sending, held>>
      /\ UNCHANGED <<offered, acked>>
  BY TypeParts DEF ConnInv, BeginComplete
<1>2. /\ ran \subseteq ran' /\ ran' \subseteq Job /\ held[t] \in ran'
      /\ offered' \in 0 .. MaxJobs /\ offered <= offered'
  <2>1. held[t] \in Job
    BY <1>1 DEF ThreadSound, ThreadsOK
  <2> QED
    BY <1>1, <2>1, ConnAssumption DEF ThreadsOK
<1>3. CASE BeginImmediate(t) /\ Goto(t, "deleting")
  <2>1. Goes(t, "deleting", held[t], sending[t])
    BY <1>1, <1>3, GoesWith DEF Stages
  <2>2. DbOK' /\ Touched(t) /\ txn'[t] = "writing" /\ view'[t] = file
    BY <1>1, <1>3, BeginTouches
  <2> QED
    BY <1>1, <1>2, <2>1, <2>2, BegunKeeps
<1>4. CASE BeginRaises(t) /\ Goto(t, "failing")
  <2>1. Goes(t, "failing", held[t], sending[t])
    BY <1>1, <1>4, GoesWith DEF Stages
  <2>2. /\ DbOK' /\ Touched(t)
        /\ \/ view'[t] = view[t] /\ txn'[t] = txn[t]
           \/ txn'[t] = "writing" /\ view'[t] = file
    BY <1>1, <1>4, BeginRaisesTouches
  <2> QED
    BY <1>1, <1>2, <2>1, <2>2, RaisedKeeps
<1> QED
  BY <1>3, <1>4 DEF BeginComplete

LEMMA FinishCompleteInv ==
    ASSUME ConnInv, NEW t \in Thread, FinishComplete(t) PROVE ConnInv'
<1>1. /\ ThreadsOK /\ Commit(t) /\ Goto(t, "idle") /\ stage[t] = "deleted"
      /\ held' = [held EXCEPT ![t] = NULL] /\ UNCHANGED sending
      /\ UNCHANGED <<offered, acked, ran>>
  BY TypeParts DEF ConnInv, FinishComplete
<1>2. Goes(t, "idle", NULL, sending[t])
  BY <1>1, GoesWithJob DEF Stages
<1> QED
  BY <1>1, <1>2, NothingNew, CommitKeeps

LEMMA CompleteRaisesInv ==
    ASSUME ConnInv, NEW t \in Thread, CompleteRaises(t) PROVE ConnInv'
<1>1. /\ DbOK /\ ThreadsOK /\ WriteRaises(t) /\ Goto(t, "failing")
      /\ stage[t] \in {"deleting", "deleted"} /\ UNCHANGED <<sending, held>>
      /\ UNCHANGED <<offered, acked, ran>>
  BY TypeParts DEF ConnInv, CompleteRaises
<1>2. Goes(t, "failing", held[t], sending[t])
  BY <1>1, GoesWith DEF Stages
<1>3. /\ DbOK' /\ Touched(t)
      /\ \/ view'[t] = view[t] /\ txn'[t] = txn[t]
         \/ txn'[t] \in {"none", "begun"}
  BY <1>1, WriteRaisesTouches
<1> QED
  BY <1>1, <1>2, <1>3, NothingNew, RaisedKeeps

\* A statement of t writes the row of the job it holds, or its letter.
LEMMA OwnRowKeeps ==
    ASSUME ConnInv, NEW t \in Thread, NEW h \in Job, h = held[t],
           NEW c \in Content, Write(t, c), t \in Consumer,
           \A k \in Job \ {h} : c.rows[k] = Sees(t).rows[k],
           Sees(t).letters \subseteq c.letters,
           NEW s \in {"deleted", "buried", "written"},
           Goes(t, s, h, sending[t]),
           stage[t] \in {"deleting", "retrying", "burying", "buried"},
           \/ c.rows[h] = [file.rows[h] EXCEPT !.status = "gone"] /\ h \in ran
           \/ s = "written" /\ c.rows[h] = file.rows[h]
           \/ /\ s = "written" /\ file.rows[h].claims < Limit
              /\ c.rows[h] = [file.rows[h] EXCEPT !.status = "pending"]
           \/ /\ s = "buried" \/ (s = "written" /\ h \in c.letters)
              /\ c.rows[h] = [file.rows[h] EXCEPT !.status = "failed"],
           UNCHANGED <<offered, acked, ran>>
    PROVE  ConnInv'
<1>1. /\ DbOK /\ ThreadsOK /\ ThreadSound(t)
      /\ stage'[t] = s /\ held'[t] = h /\ sending'[t] = sending[t]
      /\ h # NULL /\ file.rows[h].status = "processing" /\ file.rows[h] \in Row
  <2>1. DbOK /\ ThreadsOK /\ ThreadSound(t)
    BY TypeParts DEF ConnInv
  <2>2. stage'[t] = s /\ held'[t] = h /\ sending'[t] = sending[t]
    BY <2>1, GoesTo
  <2>3. h # NULL
    BY ConnAssumption DEF Job
  <2>4. file.rows[h].status = "processing" /\ file.rows[h] \in Row
    BY <2>1, <2>3 DEF ThreadSound, DbOK, Content
  <2> QED
    BY <2>1, <2>2, <2>3, <2>4
<1>2. /\ DbOK' /\ Touched(t) /\ file' = file /\ txn[t] # "stale"
      /\ txn'[t] = "writing" /\ view'[t] = c
  BY <1>1, WriteTouches DEF Touched
<1>3. ASSUME NEW k \in Job PROVE Draft(t, k)'
  <2>1. CASE k = h
    BY <1>1, <1>2, <2>1 DEF Draft
  <2>2. CASE k # h
    <3>1. \/ Sees(t).rows[k] = file.rows[k]
          \/ /\ file.rows[k] = NoRow /\ Sees(t).rows[k].status = "pending"
             /\ Sees(t).rows[k].claims = 0 /\ k <= offered
      BY <1>2, <2>2, SeenFile
    <3> QED
      BY <1>1, <1>2, <2>2, <3>1 DEF Draft
  <2> QED
    BY <2>1, <2>2
<1>4. \A k \in Job \ {h} : Sees(t).rows[k].status = "failed" => k \in Sees(t).letters
  <2>1. CASE stage[t] # "buried"
    BY <1>2, <2>1, SeenFile
  <2>2. CASE stage[t] = "buried"
    <3>1. txn[t] = "writing" /\ Sees(t) = view[t]
      BY <1>1, <2>2, SeesTyped DEF ThreadSound
    <3> QED
      BY <1>1, <3>1 DEF ThreadSound, DraftSound
  <2> QED
    BY <2>1, <2>2
<1>5. c.rows[h].status = "failed" => s = "buried" \/ h \in c.letters
  BY <1>1, RowFields DEF Statuses
<1>6. DraftSound(t)'
  <2>1. file.letters \subseteq Sees(t).letters
    BY <1>2, SeenFile
  <2> QED
    BY <1>1, <1>2, <1>3, <1>4, <1>5, <2>1 DEF DraftSound
<1>7. ThreadSound(t)'
  BY <1>1, <1>2, <1>6 DEF ThreadSound
<1> QED
  BY <1>1, <1>2, <1>7, NothingNew, TouchKeeps

LEMMA DeleteInv ==
    ASSUME ConnInv, NEW t \in Thread, Delete(t) PROVE ConnInv'
<1>1. /\ DbOK /\ ThreadsOK /\ ThreadSound(t) /\ stage[t] = "deleting"
      /\ Goto(t, "deleted") /\ UNCHANGED <<sending, held>>
      /\ UNCHANGED <<offered, acked, ran>>
      /\ Write(t, SetStatus(view[t], held[t], "gone"))
  BY TypeParts DEF ConnInv, Delete
<1>2. /\ held[t] \in Job /\ held[t] # NULL /\ t \in Consumer /\ held[t] \in ran
      /\ txn[t] = "writing" /\ view[t] = Sees(t) /\ Sees(t) \in Content
  BY <1>1, SeesTyped DEF ThreadSound, ThreadsOK
<1>3. Goes(t, "deleted", held[t], sending[t])
  BY <1>1, GoesWith DEF Stages
<1>4. /\ SetStatus(view[t], held[t], "gone") \in Content
      /\ SetStatus(view[t], held[t], "gone").letters = Sees(t).letters
      /\ SetStatus(view[t], held[t], "gone").rows[held[t]]
            = [Sees(t).rows[held[t]] EXCEPT !.status = "gone"]
      /\ \A k \in Job \ {held[t]} :
            SetStatus(view[t], held[t], "gone").rows[k] = Sees(t).rows[k]
  <2>1. "gone" \in Statuses
    BY DEF Statuses
  <2> QED
    BY <1>2, <2>1, SetStatusRows
<1>5. Sees(t).rows[held[t]] = file.rows[held[t]]
  BY <1>1, <1>2, SeenFile
<1> QED
  BY <1>1, <1>2, <1>3, <1>4, <1>5, OwnRowKeeps

----------------------------------------------------------------------------
(* fail_job *)

LEMMA RaiseInv ==
    ASSUME ConnInv, NEW t \in Thread, Raise(t) PROVE ConnInv'
<1>1. /\ DbOK /\ ThreadsOK /\ stage[t] = "running" /\ Goto(t, "failing")
      /\ UNCHANGED <<file, txn, view>> /\ UNCHANGED <<sending, held>>
      /\ UNCHANGED <<offered, acked, ran>>
  BY TypeParts DEF ConnInv, Raise
<1>2. Goes(t, "failing", held[t], sending[t])
  BY <1>1, GoesWith DEF Stages
<1>3. DbOK' /\ Touched(t) /\ view'[t] = view[t] /\ txn'[t] = txn[t]
  BY <1>1 DEF DbOK, Touched
<1> QED
  BY <1>1, <1>2, <1>3, NothingNew, RaisedKeeps

LEMMA ReadRowInv ==
    ASSUME ConnInv, NEW t \in Thread, ReadRow(t) PROVE ConnInv'
<1>1. /\ DbOK /\ ThreadsOK /\ ThreadSound(t) /\ stage[t] = "failing"
      /\ Read(t) /\ UNCHANGED <<sending, held>>
      /\ UNCHANGED <<offered, acked, ran>>
  BY TypeParts DEF ConnInv, ReadRow
<1>2. /\ held[t] \in Job /\ held[t] # NULL /\ t \in Consumer
      /\ file.rows[held[t]].status = "processing"
      /\ txn[t] \notin {"reading", "stale"}
  BY <1>1 DEF ThreadSound, ThreadsOK
<1>3. PICK s \in {"written", "burying", "retrying"} :
         /\ Goto(t, s)
         /\ s = "retrying" => /\ Present(Sees(t), held[t])
                              /\ ~(Sees(t).rows[held[t]].claims + 1 > Limit)
  <2>1. PICK permanent \in BOOLEAN :
          Goto(t, CASE ~permanent /\ ~Present(Sees(t), held[t]) -> "written"
                    [] permanent \/ Sees(t).rows[held[t]].claims + 1 > Limit -> "burying"
                    [] OTHER -> "retrying")
    BY DEF ReadRow
  <2>2. CASE permanent
    BY <2>1, <2>2
  <2>3. CASE ~permanent /\ ~Present(Sees(t), held[t])
    BY <2>1, <2>3
  <2>4. CASE ~permanent /\ Present(Sees(t), held[t])
    BY <2>1, <2>4
  <2> QED
    BY <2>2, <2>3, <2>4
<1>4. Goes(t, s, held[t], sending[t])
  BY <1>1, <1>3, GoesWith DEF Stages
<1>5. /\ DbOK' /\ Touched(t) /\ file' = file
      /\ txn'[t] = IF txn[t] = "begun" THEN "reading" ELSE txn[t]
      /\ view'[t] = IF txn[t] = "begun" THEN file ELSE view[t]
      /\ stage'[t] = s /\ held'[t] = held[t] /\ sending'[t] = sending[t]
  BY <1>1, <1>4, ReadTouches, GoesTo DEF Touched
<1>6. s = "retrying" => file.rows[held[t]].claims < Limit
  <2> SUFFICES ASSUME s = "retrying" PROVE file.rows[held[t]].claims < Limit
    OBVIOUS
  <2>1. file.rows[held[t]] \in Row
    BY <1>1, <1>2 DEF DbOK, Content
  <2>2. [file.rows[held[t]] EXCEPT !.status = "gone"].status = "gone"
    BY <2>1, RowFields DEF Statuses
  <2>3. Sees(t).rows[held[t]] = file.rows[held[t]]
    BY <1>1, <1>2, <1>3, <2>2, SeenFile DEF Present
  <2>4. file.rows[held[t]].claims \in Nat /\ Limit \in Nat
    BY <2>1, RowFields, ConnAssumption
  <2>5. ~(file.rows[held[t]].claims + 1 > Limit)
    BY <1>3, <2>3
  <2> QED
    BY <2>4, <2>5
<1>7. DraftSound(t)'
  <2> SUFFICES ASSUME txn'[t] = "writing"
               PROVE  /\ \A j \in Job : Draft(t, j)'
                      /\ file'.letters \subseteq view'[t].letters
                      /\ \A j \in Job :
                            view'[t].rows[j].status = "failed" =>
                               \/ j \in view'[t].letters
                               \/ stage'[t] = "buried" /\ j = held'[t]
    BY DEF DraftSound
  <2>1. txn[t] = "writing" /\ view'[t] = view[t] /\ DraftSound(t)
    BY <1>1, <1>5 DEF ThreadSound
  <2>2. ASSUME NEW j \in Job PROVE Draft(t, j)'
    <3>1. Draft(t, j)
      BY <2>1 DEF DraftSound
    <3> QED
      BY <1>1, <1>5, <2>1, <3>1 DEF Draft
  <2> QED
    BY <1>1, <1>5, <2>1, <2>2 DEF DraftSound
<1>8. ThreadSound(t)'
  BY <1>1, <1>2, <1>5, <1>6, <1>7 DEF ThreadSound
<1> QED
  BY <1>1, <1>4, <1>5, <1>8, NothingNew, TouchKeeps

\* What t sees of the job it is failing.
LEMMA FailingSees ==
    ASSUME ConnInv, NEW t \in Thread, txn[t] # "stale",
           stage[t] \in {"retrying", "burying"}
    PROVE  /\ held[t] \in Job /\ held[t] # NULL /\ t \in Consumer
           /\ Sees(t) \in Content
           /\ file.rows[held[t]].status = "processing"
           /\ \/ /\ Sees(t).rows[held[t]] = file.rows[held[t]]
                 /\ Present(Sees(t), held[t])
              \/ /\ Sees(t).rows[held[t]] = [file.rows[held[t]] EXCEPT !.status = "gone"]
                 /\ held[t] \in ran
                 /\ ~Present(Sees(t), held[t])
           /\ stage[t] = "retrying" => file.rows[held[t]].claims < Limit
<1>1. DbOK /\ ThreadsOK /\ ThreadSound(t)
  BY TypeParts DEF ConnInv
<1>2. /\ held[t] \in Job /\ held[t] # NULL /\ t \in Consumer
      /\ file.rows[held[t]].status = "processing"
      /\ stage[t] = "retrying" => file.rows[held[t]].claims < Limit
  BY <1>1 DEF ThreadSound, ThreadsOK
<1>3. file.rows[held[t]] \in Row /\ Sees(t) \in Content
  BY <1>1, <1>2, SeesTyped DEF DbOK, Content
<1>4. [file.rows[held[t]] EXCEPT !.status = "gone"].status = "gone"
  BY <1>3, RowFields DEF Statuses
<1>5. \/ Sees(t).rows[held[t]] = file.rows[held[t]]
      \/ /\ Sees(t).rows[held[t]] = [file.rows[held[t]] EXCEPT !.status = "gone"]
         /\ held[t] \in ran
  BY <1>2, SeenFile
<1> QED
  BY <1>2, <1>3, <1>4, <1>5 DEF Present

LEMMA ScheduleRetryInv ==
    ASSUME ConnInv, NEW t \in Thread, ScheduleRetry(t) PROVE ConnInv'
<1>1. /\ ThreadsOK /\ stage[t] = "retrying"
      /\ Goto(t, "written") /\ UNCHANGED <<sending, held>>
      /\ UNCHANGED <<offered, acked, ran>>
      /\ Write(t, IF Present(Sees(t), held[t])
                  THEN SetStatus(Sees(t), held[t], "pending") ELSE Sees(t))
  BY TypeParts DEF ConnInv, ScheduleRetry
<1>2. txn[t] # "stale"
  BY <1>1 DEF Write, MayWrite
<1>3. Goes(t, "written", held[t], sending[t])
  BY <1>1, GoesWith DEF Stages
<1>4. CASE Present(Sees(t), held[t])
  <2>1. /\ SetStatus(Sees(t), held[t], "pending") \in Content
        /\ SetStatus(Sees(t), held[t], "pending").letters = Sees(t).letters
        /\ SetStatus(Sees(t), held[t], "pending").rows[held[t]]
              = [file.rows[held[t]] EXCEPT !.status = "pending"]
        /\ \A k \in Job \ {held[t]} :
              SetStatus(Sees(t), held[t], "pending").rows[k] = Sees(t).rows[k]
    <3>1. "pending" \in Statuses
      BY DEF Statuses
    <3>2. /\ held[t] \in Job /\ Sees(t) \in Content
          /\ Sees(t).rows[held[t]] = file.rows[held[t]]
      BY <1>1, <1>2, <1>4, FailingSees
    <3> QED
      BY <3>1, <3>2, SetStatusRows
  <2> QED
    BY <1>1, <1>2, <1>3, <1>4, <2>1, FailingSees, OwnRowKeeps
<1>5. CASE ~Present(Sees(t), held[t])
  BY <1>1, <1>2, <1>3, <1>5, FailingSees, OwnRowKeeps
<1> QED
  BY <1>4, <1>5

LEMMA FailPermanentInv ==
    ASSUME ConnInv, NEW t \in Thread, FailPermanent(t) PROVE ConnInv'
<1>1. /\ ThreadsOK /\ stage[t] = "burying"
      /\ Goto(t, "buried") /\ UNCHANGED <<sending, held>>
      /\ UNCHANGED <<offered, acked, ran>>
      /\ Write(t, IF Present(Sees(t), held[t])
                  THEN SetStatus(Sees(t), held[t], "failed") ELSE Sees(t))
  BY TypeParts DEF ConnInv, FailPermanent
<1>2. txn[t] # "stale"
  BY <1>1 DEF Write, MayWrite
<1>3. Goes(t, "buried", held[t], sending[t])
  BY <1>1, GoesWith DEF Stages
<1>4. CASE Present(Sees(t), held[t])
  <2>1. /\ SetStatus(Sees(t), held[t], "failed") \in Content
        /\ SetStatus(Sees(t), held[t], "failed").letters = Sees(t).letters
        /\ SetStatus(Sees(t), held[t], "failed").rows[held[t]]
              = [file.rows[held[t]] EXCEPT !.status = "failed"]
        /\ \A k \in Job \ {held[t]} :
              SetStatus(Sees(t), held[t], "failed").rows[k] = Sees(t).rows[k]
    <3>1. "failed" \in Statuses
      BY DEF Statuses
    <3>2. /\ held[t] \in Job /\ Sees(t) \in Content
          /\ Sees(t).rows[held[t]] = file.rows[held[t]]
      BY <1>1, <1>2, <1>4, FailingSees
    <3> QED
      BY <3>1, <3>2, SetStatusRows
  <2> QED
    BY <1>1, <1>2, <1>3, <1>4, <2>1, FailingSees, OwnRowKeeps
<1>5. CASE ~Present(Sees(t), held[t])
  BY <1>1, <1>2, <1>3, <1>5, FailingSees, OwnRowKeeps
<1> QED
  BY <1>4, <1>5

LEMMA MoveToDlqInv ==
    ASSUME ConnInv, NEW t \in Thread, MoveToDlq(t) PROVE ConnInv'
<1>1. /\ DbOK /\ ThreadsOK /\ ThreadSound(t) /\ stage[t] = "buried"
      /\ Goto(t, "written") /\ UNCHANGED <<sending, held>>
      /\ UNCHANGED <<offered, acked, ran>>
      /\ Write(t, IF Present(view[t], held[t])
                  THEN [view[t] EXCEPT !.letters = @ \cup {held[t]}] ELSE view[t])
  BY TypeParts DEF ConnInv, MoveToDlq
<1>2. /\ held[t] \in Job /\ held[t] # NULL /\ t \in Consumer
      /\ file.rows[held[t]].status = "processing"
      /\ txn[t] = "writing" /\ view[t] = Sees(t) /\ Sees(t) \in Content
  BY <1>1, SeesTyped DEF ThreadSound, ThreadsOK
<1>3. file.rows[held[t]] \in Row
  BY <1>1, <1>2 DEF DbOK, Content
<1>4. Goes(t, "written", held[t], sending[t])
  BY <1>1, GoesWith DEF Stages
<1>5. \/ /\ Sees(t).rows[held[t]] = [file.rows[held[t]] EXCEPT !.status = "gone"]
         /\ held[t] \in ran
      \/ Sees(t).rows[held[t]] = [file.rows[held[t]] EXCEPT !.status = "failed"]
  <2>1. Draft(t, held[t])
    BY <1>1, <1>2 DEF ThreadSound, DraftSound
  <2> QED
    BY <1>1, <1>2, <2>1 DEF Draft
<1>6. /\ [file.rows[held[t]] EXCEPT !.status = "gone"].status = "gone"
      /\ [file.rows[held[t]] EXCEPT !.status = "failed"].status = "failed"
  BY <1>3, RowFields DEF Statuses
<1>7. CASE Present(Sees(t), held[t])
  <2> DEFINE c == [Sees(t) EXCEPT !.letters = @ \cup {held[t]}]
  <2>1. /\ c \in Content /\ c.letters = Sees(t).letters \cup {held[t]}
        /\ c.rows = Sees(t).rows
    BY <1>2, LettersRows
  <2>2. Write(t, c)
    BY <1>1, <1>2, <1>7
  <2> HIDE DEF c
  <2>3. c.rows[held[t]] = [file.rows[held[t]] EXCEPT !.status = "failed"]
    BY <1>5, <1>6, <1>7, <2>1 DEF Present
  <2> QED
    BY <1>1, <1>2, <1>4, <2>1, <2>2, <2>3, OwnRowKeeps
<1>8. CASE ~Present(Sees(t), held[t])
  <2>1. /\ Sees(t).rows[held[t]] = [file.rows[held[t]] EXCEPT !.status = "gone"]
        /\ held[t] \in ran
    BY <1>5, <1>6, <1>8 DEF Present
  <2>2. Write(t, Sees(t))
    BY <1>1, <1>2, <1>8
  <2> QED
    BY <1>1, <1>2, <1>4, <2>1, <2>2, OwnRowKeeps
<1> QED
  BY <1>7, <1>8

LEMMA FinishFailInv ==
    ASSUME ConnInv, NEW t \in Thread, FinishFail(t) PROVE ConnInv'
<1>1. /\ ThreadsOK /\ Commit(t) /\ Goto(t, "idle") /\ stage[t] = "written"
      /\ held' = [held EXCEPT ![t] = NULL] /\ UNCHANGED sending
      /\ UNCHANGED <<offered, acked, ran>>
  BY TypeParts DEF ConnInv, FinishFail
<1>2. Goes(t, "idle", NULL, sending[t])
  BY <1>1, GoesWithJob DEF Stages
<1> QED
  BY <1>1, <1>2, NothingNew, CommitKeeps

LEMMA FailRaisesInv ==
    ASSUME ConnInv, NEW t \in Thread, FailRaises(t) PROVE ConnInv'
<1>1. /\ ThreadsOK /\ RollBack(t)
      /\ held' = [held EXCEPT ![t] = NULL] /\ UNCHANGED sending
      /\ UNCHANGED <<offered, acked, ran>>
  BY TypeParts DEF ConnInv, FailRaises, AfterFail
<1>2. PICK s \in {"idle", "dead"} : Goto(t, s)
  BY DEF FailRaises
<1>3. Goes(t, s, NULL, sending[t])
  BY <1>1, <1>2, GoesWithJob DEF Stages
<1> QED
  BY <1>1, <1>2, <1>3, RollBackKeeps

----------------------------------------------------------------------------
(* The operations of one implicit transaction, waiting, and closing *)

LEMMA UpdateInv ==
    ASSUME ConnInv, NEW t \in Thread, Update(t) PROVE ConnInv'
<1>1. /\ DbOK /\ ThreadsOK /\ ThreadSound(t) /\ stage[t] = "idle" /\ held[t] = NULL
      /\ UNCHANGED <<sending, held>> /\ UNCHANGED <<offered, acked, ran>>
  BY TypeParts DEF ConnInv, Update, ThreadSound
<1>2. CASE Write(t, Sees(t)) /\ Goto(t, "updated")
  <2>1. Sees(t) \in Content
    BY <1>1, SeesTyped
  <2>2. /\ DbOK' /\ Touched(t) /\ file' = file /\ txn[t] # "stale"
        /\ txn'[t] = "writing" /\ view'[t] = Sees(t)
    BY <1>1, <1>2, <2>1, WriteTouches DEF Touched
  <2>3. Goes(t, "updated", held[t], sending[t])
    BY <1>1, <1>2, GoesWith DEF Stages
  <2>4. stage'[t] = "updated" /\ held'[t] = NULL /\ sending'[t] = sending[t]
    BY <1>1, <2>3, GoesTo
  <2>5. ASSUME NEW j \in Job PROVE Draft(t, j)'
    <3>1. j # held[t]
      BY <1>1, ConnAssumption DEF Job
    <3>2. \/ Sees(t).rows[j] = file.rows[j]
          \/ /\ file.rows[j] = NoRow /\ Sees(t).rows[j].status = "pending"
             /\ Sees(t).rows[j].claims = 0 /\ j <= offered
      BY <2>2, <3>1, SeenFile
    <3> QED
      BY <1>1, <2>2, <2>4, <3>1, <3>2 DEF Draft
  <2>6. DraftSound(t)'
    <3>1. /\ file.letters \subseteq Sees(t).letters
          /\ \A j \in Job : Sees(t).rows[j].status = "failed" => j \in Sees(t).letters
      BY <1>1, <2>2, SeenFile
    <3> QED
      BY <2>2, <2>5, <3>1 DEF DraftSound
  <2>7. ThreadSound(t)'
    BY <2>2, <2>4, <2>6 DEF ThreadSound
  <2> QED
    BY <1>1, <2>2, <2>3, <2>7, NothingNew, TouchKeeps
<1>3. CASE WriteRaises(t) /\ UNCHANGED stage
  <2>1. Goto(t, stage[t]) /\ stage[t] \in Stages
    BY <1>1, <1>3 DEF Goto, ThreadsOK
  <2>2. Goes(t, stage[t], held[t], sending[t])
    BY <1>1, <2>1, GoesWith
  <2>3. /\ DbOK' /\ Touched(t)
        /\ \/ view'[t] = view[t] /\ txn'[t] = txn[t]
           \/ txn'[t] \in {"none", "begun"}
    BY <1>1, <1>3, WriteRaisesTouches
  <2> QED
    BY <1>1, <2>2, <2>3, NothingNew, RaisedKeeps
<1> QED
  BY <1>2, <1>3 DEF Update

LEMMA FinishUpdateInv ==
    ASSUME ConnInv, NEW t \in Thread, FinishUpdate(t) PROVE ConnInv'
<1>1. /\ ThreadsOK /\ ThreadSound(t) /\ stage[t] = "updated" /\ Goto(t, "idle")
      /\ UNCHANGED <<sending, held>> /\ UNCHANGED <<offered, acked, ran>>
  BY TypeParts DEF ConnInv, FinishUpdate
<1>2. held[t] = NULL /\ Goes(t, "idle", held[t], sending[t])
  BY <1>1, GoesWith DEF Stages, ThreadSound
<1>3. CASE Commit(t)
  BY <1>1, <1>2, <1>3, NothingNew, CommitKeeps
<1>4. CASE RollBack(t)
  BY <1>1, <1>2, <1>4, RollBackKeeps
<1> QED
  BY <1>3, <1>4 DEF FinishUpdate

LEMMA OperateInv ==
    ASSUME ConnInv, NEW t \in Thread, t \notin Consumer, Operate(t) \/ Look(t)
    PROVE  ConnInv'
<1>1. /\ DbOK /\ ThreadsOK /\ ThreadSound(t) /\ stage[t] \in {"idle", "waiting"}
      /\ held[t] = NULL
      /\ UNCHANGED <<sending, held>> /\ UNCHANGED <<offered, acked, ran>>
  BY TypeParts DEF ConnInv, Operate, BeginWait, WaitTimesOut, Close, Look, ThreadSound
<1>2. PICK s \in {"idle", "waiting"} : Goto(t, s)
  <2>1. stage' = [stage EXCEPT ![t] = stage[t]]
           \/ \E s \in {"idle", "waiting"} : Goto(t, s)
    BY <1>1 DEF Operate, BeginWait, WaitTimesOut, Close, Look, ThreadsOK
  <2> QED
    BY <1>1, <2>1 DEF Goto
<1>3. Goes(t, s, held[t], sending[t])
  BY <1>1, <1>2, GoesWith DEF Stages
<1>4. stage'[t] = s /\ held'[t] = NULL /\ sending'[t] = sending[t]
  BY <1>1, <1>3, GoesTo
<1>5. \/ UNCHANGED <<file, txn, view>>
      \/ Read(t)
      \/ RollBack(t)
  BY DEF Operate, BeginWait, WaitTimesOut, Close, Look
<1>6. /\ DbOK' /\ Touched(t) /\ file' = file
      /\ \/ txn'[t] # "writing"
         \/ txn'[t] = "writing" /\ txn[t] = "writing" /\ view'[t] = view[t]
  <2>1. CASE UNCHANGED <<file, txn, view>>
    BY <1>1, <2>1 DEF DbOK, Touched
  <2>2. CASE Read(t)
    BY <1>1, <2>2, ReadTouches DEF Touched
  <2>3. CASE RollBack(t)
    BY <1>1, <2>3, RollBackTouches DEF Touched
  <2> QED
    BY <1>5, <2>1, <2>2, <2>3
<1>7. DraftSound(t)'
  <2> SUFFICES ASSUME txn'[t] = "writing"
               PROVE  /\ \A j \in Job : Draft(t, j)'
                      /\ file'.letters \subseteq view'[t].letters
                      /\ \A j \in Job :
                            view'[t].rows[j].status = "failed" =>
                               \/ j \in view'[t].letters
                               \/ stage'[t] = "buried" /\ j = held'[t]
    BY DEF DraftSound
  <2>1. txn[t] = "writing" /\ view'[t] = view[t] /\ DraftSound(t)
    BY <1>1, <1>6 DEF ThreadSound
  <2>2. ASSUME NEW j \in Job PROVE Draft(t, j)'
    <3>1. Draft(t, j) /\ j # held[t]
      BY <1>1, <2>1, ConnAssumption DEF DraftSound, Job
    <3> QED
      BY <1>1, <1>4, <1>6, <2>1, <3>1 DEF Draft
  <2> QED
    BY <1>1, <1>6, <2>1, <2>2 DEF DraftSound
<1>8. ThreadSound(t)'
  BY <1>4, <1>6, <1>7 DEF ThreadSound
<1> QED
  BY <1>1, <1>3, <1>6, <1>8, NothingNew, TouchKeeps

----------------------------------------------------------------------------
(* The invariant of the connections *)

LEMMA ConnInvInit == ConnInit => ConnInv
<1> SUFFICES ASSUME ConnInit PROVE ConnInv
  OBVIOUS
<1>1. /\ file = [rows |-> [j \in Job |-> NoRow], letters |-> {}]
      /\ offered = 0 /\ acked = {} /\ ran = {}
      /\ \A t \in Thread : /\ txn[t] = "none" /\ view[t] = NULL /\ stage[t] = "idle"
                           /\ sending[t] = {} /\ held[t] = NULL
  BY DEF ConnInit
<1>2. /\ NoRow \in Row /\ NoRow.status = "absent"
      /\ file \in Content /\ \A j \in Job : file.rows[j] = NoRow
  BY <1>1 DEF NoRow, Row, Content
<1>3. ConnTypeOK
  <2>1. DbOK
    BY <1>1, <1>2 DEF DbOK, ConnInit
  <2>2. ThreadsOK
    BY <1>1, ConnAssumption DEF ThreadsOK, Stages, ConnInit
  <2> QED
    BY <2>1, <2>2, TypeParts
<1>4. FileSound
  BY <1>2 DEF FileSound
<1>5. \A t \in Thread : ThreadSound(t)
  BY <1>1 DEF ThreadSound, DraftSound
<1>6. HeldOnce /\ NothingLost
  BY <1>1 DEF HeldOnce, NothingLost
<1>7. DeadHasLetter
  BY <1>2 DEF DeadHasLetter
<1> QED
  BY <1>3, <1>4, <1>5, <1>6, <1>7 DEF ConnInv

LEMMA ConnInvStutter ==
    ASSUME ConnInv, UNCHANGED connVars PROVE ConnInv'
<1>1. /\ file' = file /\ txn' = txn /\ view' = view /\ stage' = stage
      /\ sending' = sending /\ held' = held /\ offered' = offered
      /\ acked' = acked /\ ran' = ran
  BY DEF connVars
<1>2. ConnTypeOK' /\ FileSound' /\ HeldOnce' /\ NothingLost' /\ DeadHasLetter'
  BY <1>1 DEF ConnInv, ConnTypeOK, FileSound, HeldOnce, NothingLost, DeadHasLetter
<1>3. ASSUME NEW t \in Thread PROVE ThreadSound(t)'
  <2>1. ThreadSound(t)
    BY DEF ConnInv
  <2>2. ASSUME NEW j \in Job, Draft(t, j) PROVE Draft(t, j)'
    BY <1>1, <2>2 DEF Draft
  <2>3. DraftSound(t)'
    BY <1>1, <2>1, <2>2 DEF ThreadSound, DraftSound
  <2> QED
    BY <1>1, <2>1, <2>3 DEF ThreadSound
<1> QED
  BY <1>2, <1>3 DEF ConnInv

LEMMA ConnInvStep == ConnInv /\ [ConnNext]_connVars => ConnInv'
<1> SUFFICES ASSUME ConnInv, [ConnNext]_connVars PROVE ConnInv'
  OBVIOUS
<1>1. ASSUME NEW t \in Thread, GoOn(t) \/ Update(t) PROVE ConnInv'
  BY <1>1, InsertRowInv, FinishInsertInv, InsertRaisesInv, FinishUpdateInv,
     UpdateInv DEF GoOn
<1>2. ASSUME NEW t \in Consumer, Consume(t) PROVE ConnInv'
  <2>1. t \in Thread
    BY DEF Thread
  <2>2. CASE BeginPop(t) \/ ClaimJob(t) \/ Take(t) \/ PopRaises(t)
    BY <2>1, <2>2, BeginPopInv, ClaimJobInv, TakeInv, PopRaisesInv
  <2>3. CASE \/ BeginComplete(t) \/ Delete(t) \/ FinishComplete(t)
             \/ CompleteRaises(t) \/ Raise(t)
    BY <2>1, <2>3, BeginCompleteInv, DeleteInv, FinishCompleteInv,
       CompleteRaisesInv, RaiseInv
  <2>4. CASE \/ ReadRow(t) \/ ScheduleRetry(t) \/ FailPermanent(t)
             \/ MoveToDlq(t) \/ FinishFail(t) \/ FailRaises(t)
    BY <2>1, <2>4, ReadRowInv, ScheduleRetryInv, FailPermanentInv,
       MoveToDlqInv, FinishFailInv, FailRaisesInv
  <2> QED
    BY <1>2, <2>2, <2>3, <2>4 DEF Consume
<1>3. ASSUME NEW t \in Producer, Produce(t) PROVE ConnInv'
  BY <1>3, InsertJobInv, InsertJobsBatchInv DEF Produce, Thread
<1>4. ASSUME NEW t \in Producer \ Consumer, Operate(t) \/ Look(t) PROVE ConnInv'
  BY <1>4, OperateInv DEF Thread
<1> QED
  BY <1>1, <1>2, <1>3, <1>4, ConnInvStutter DEF ConnNext

\* Whatever statements raise, and whatever transactions are left open for the
\* next operation of their thread, the file, the drafts of those who may write
\* and the statements the threads are at agree.
THEOREM ConnCorrect == ConnSpec => []ConnInv
  BY ConnInvInit, ConnInvStep, PTL DEF ConnSpec

\* A job whose insert returned stays until its process_function returned.
THEOREM NothingLostCorrect == ConnSpec => []NothingLost
<1>1. ConnInv => NothingLost
  BY DEF ConnInv
<1> QED
  BY <1>1, ConnCorrect, PTL

\* fail_job that raises between its statements leaves no failed row without a
\* letter for a later commit of its thread.
THEOREM DeadHasLetterCorrect == ConnSpec => []DeadHasLetter
<1>1. ConnInv => DeadHasLetter
  BY DEF ConnInv
<1> QED
  BY <1>1, ConnCorrect, PTL

----------------------------------------------------------------------------
(* The file keeps the contract of each job *)

\* Only a commit changes the file.
LEMMA FileStep ==
    ASSUME [ConnNext]_connVars
    PROVE  file' = file \/ \E t \in Thread : Commit(t)
<1>1. ASSUME NEW t \in Thread, GoOn(t) \/ Update(t)
      PROVE  file' = file \/ Commit(t)
  BY <1>1 DEF GoOn, Update, InsertRow, FinishInsert, InsertRaises, FinishUpdate,
              Write, WriteRaises, RollBack
<1>2. ASSUME NEW t \in Consumer, Consume(t)
      PROVE  file' = file \/ Commit(t)
  <2>1. CASE BeginPop(t) \/ ClaimJob(t) \/ Take(t) \/ PopRaises(t)
    BY <2>1 DEF BeginPop, ClaimJob, Take, PopRaises, BeginImmediate, Write, RollBack
  <2>2. CASE \/ BeginComplete(t) \/ Delete(t) \/ FinishComplete(t)
             \/ CompleteRaises(t) \/ Raise(t)
    BY <2>2 DEF BeginComplete, Delete, FinishComplete, CompleteRaises, Raise,
                BeginImmediate, BeginRaises, Write, WriteRaises, RollBack
  <2>3. CASE \/ ReadRow(t) \/ ScheduleRetry(t) \/ FailPermanent(t)
             \/ MoveToDlq(t) \/ FinishFail(t) \/ FailRaises(t)
    BY <2>3 DEF ReadRow, ScheduleRetry, FailPermanent, MoveToDlq, FinishFail,
                FailRaises, AfterFail, Read, Write, RollBack
  <2> QED
    BY <1>2, <2>1, <2>2, <2>3 DEF Consume
<1>3. ASSUME NEW t \in Producer, Produce(t)
      PROVE  file' = file
  BY <1>3 DEF Produce, InsertJob, InsertJobsBatch, Write, WriteRaises, RollBack,
              BeginImmediate, BeginRaises
<1>4. ASSUME NEW t \in Producer \ Consumer, Operate(t) \/ Look(t)
      PROVE  file' = file
  BY <1>4 DEF Operate, BeginWait, WaitTimesOut, Close, Look, Read, RollBack
<1> QED
  BY <1>1, <1>2, <1>3, <1>4 DEF ConnNext, connVars, Thread

LEMMA RowsMove ==
    ASSUME ConnInv, [ConnNext]_connVars, NEW j \in Job
    PROVE  /\ file.rows[j] \in Row /\ file'.rows[j] \in Row
           /\ Moved(j, file.rows[j], file'.rows[j])
<1>1. DbOK /\ DbOK'
  BY TypeParts, TypePartsNext, ConnInvStep DEF ConnInv
<1>2. file.rows[j] \in Row /\ file'.rows[j] \in Row
  BY <1>1 DEF DbOK, Content
<1>3. CASE file' = file
  BY <1>2, <1>3 DEF Moved
<1>4. ASSUME NEW t \in Thread, Commit(t)
      PROVE  Moved(j, file.rows[j], file'.rows[j])
  <2>1. file' = IF txn[t] = "writing" THEN view[t] ELSE file
    BY <1>1, <1>4, CommitDone
  <2>2. CASE txn[t] = "writing"
    BY <2>1, <2>2, DraftMoves
  <2>3. CASE txn[t] # "writing"
    BY <2>1, <2>3 DEF Moved
  <2> QED
    BY <2>2, <2>3
<1> QED
  BY <1>2, <1>3, <1>4, FileStep

\* The life that a row shows, for each of its statuses.
Life(row) ==
    [state   |-> CASE row.status = "absent" -> "unborn"
                   [] row.status = "pending" -> "waiting"
                   [] row.status = "processing" -> "running"
                   [] row.status = "failed" -> "dead"
                   [] row.status = "gone" -> "gone",
     claims  |-> IF row.status = "gone" THEN 0 ELSE row.claims,
     limit   |-> IF row.status \notin {"absent", "gone"} THEN Limit ELSE 0,
     rescues |-> 0]

LEMMA LifeShown ==
    ASSUME NEW row \in Row
    PROVE  /\ row.status = "absent" =>
                 Life(row) = [state |-> "unborn", claims |-> row.claims,
                              limit |-> 0, rescues |-> 0]
           /\ row.status = "pending" =>
                 Life(row) = [state |-> "waiting", claims |-> row.claims,
                              limit |-> Limit, rescues |-> 0]
           /\ row.status = "processing" =>
                 Life(row) = [state |-> "running", claims |-> row.claims,
                              limit |-> Limit, rescues |-> 0]
           /\ row.status = "failed" =>
                 Life(row) = [state |-> "dead", claims |-> row.claims,
                              limit |-> Limit, rescues |-> 0]
           /\ row.status = "gone" =>
                 Life(row) = [state |-> "gone", claims |-> 0,
                              limit |-> 0, rescues |-> 0]
  BY DEF Life

LEMMA LifeMoves ==
    ASSUME NEW j \in Job, NEW a \in Row, NEW b \in Row, Moved(j, a, b)
    PROVE  Life(b) = Life(a) \/ Contract!Step(Life(a), Life(b))
<1>1. Limit \in Nat /\ Limit > 0 /\ a.claims \in Nat /\ b.claims \in Nat
  BY ConnAssumption, RowFields
<1>2. CASE b = a
  BY <1>2
<1>3. CASE a = NoRow /\ b.status = "pending" /\ b.claims = 0
  <2>1. /\ Life(a) = [state |-> "unborn", claims |-> 0, limit |-> 0, rescues |-> 0]
        /\ Life(b) = [state |-> "waiting", claims |-> 0, limit |-> Limit, rescues |-> 0]
    BY <1>3, LifeShown, RowFields
  <2> DEFINE w == [Life(a) EXCEPT !.state = "waiting"]
  <2>2. w = [state |-> "waiting", claims |-> 0, limit |-> 0, rescues |-> 0]
    BY <2>1
  <2>3. Life(b) = [w EXCEPT !.limit = Life(b).limit] /\ Life(b).limit > 0
    <3> HIDE DEF w
    <3> QED
      BY <1>1, <2>1, <2>2
  <2>4. Life(a) = Contract!Unborn
    BY <2>1 DEF Contract!Unborn
  <2>5. Contract!Submitted(Life(a), Life(b))
    BY <2>3, <2>4 DEF Contract!Submitted
  <2> QED
    BY <2>5 DEF Contract!Step
<1>4. CASE a.status = "pending" /\ a.claims < Limit /\ b = Claimed(a)
  <2>1. /\ Life(a) = [state |-> "waiting", claims |-> a.claims,
                      limit |-> Limit, rescues |-> 0]
        /\ Life(b) = [state |-> "running", claims |-> a.claims + 1,
                      limit |-> Limit, rescues |-> 0]
    BY <1>4, LifeShown, RowFields
  <2>2. Contract!Granted(Life(a), Life(b))
    <3> DEFINE w == [Life(a) EXCEPT !.state = "running"]
    <3>1. w = [state |-> "running", claims |-> a.claims, limit |-> Limit, rescues |-> 0]
      BY <2>1
    <3>2. Life(b) = [w EXCEPT !.claims = w.claims + 1] /\ w.claims = Life(a).claims
      <4> HIDE DEF w
      <4> QED
        BY <2>1, <3>1
    <3>3. /\ Life(a).state = "waiting"
          /\ Life(a).claims < Life(a).limit + Life(a).rescues
      BY <1>1, <1>4, <2>1
    <3> QED
      BY <3>2, <3>3 DEF Contract!Granted
  <2> QED
    BY <2>2 DEF Contract!Step
<1>5. CASE a.status = "processing" /\ b = [a EXCEPT !.status = "gone"]
  <2>1. /\ Life(a) = [state |-> "running", claims |-> a.claims,
                      limit |-> Limit, rescues |-> 0]
        /\ Life(b) = [state |-> "gone", claims |-> 0, limit |-> 0, rescues |-> 0]
    BY <1>5, LifeShown, RowFields DEF Statuses
  <2>2. Contract!Ended(Life(a), Life(b))
    <3>1. Contract!Unborn = [state |-> "unborn", claims |-> 0, limit |-> 0, rescues |-> 0]
      BY DEF Contract!Unborn
    <3> DEFINE w == [Contract!Unborn EXCEPT !.state = "gone"]
    <3>2. w = Life(b)
      BY <2>1, <3>1
    <3>3. Life(b) = [w EXCEPT !.rescues = Life(a).rescues]
      <4> HIDE DEF w
      <4> QED
        BY <2>1, <3>2
    <3>4. Life(a).state \notin {"unborn", "gone"}
      BY <2>1
    <3> QED
      BY <3>3, <3>4 DEF Contract!Ended
  <2> QED
    BY <2>2 DEF Contract!Step
<1>6. ASSUME NEW s \in {"pending", "failed"}, a.status = "processing",
             b = [a EXCEPT !.status = s]
      PROVE  Contract!Step(Life(a), Life(b))
  <2>1. b.status = s /\ b.claims = a.claims
    BY <1>6, RowFields DEF Statuses
  <2>2. PICK r \in {"waiting", "dead"} :
            Life(b) = [state |-> r, claims |-> a.claims, limit |-> Limit, rescues |-> 0]
    BY <1>6, <2>1, LifeShown
  <2>3. Life(a) = [state |-> "running", claims |-> a.claims,
                   limit |-> Limit, rescues |-> 0]
    BY <1>6, LifeShown
  <2>4. Contract!Reported(Life(a), Life(b))
    <3>1. Life(b) = [Life(a) EXCEPT !.state = r]
      BY <2>2, <2>3
    <3> QED
      BY <2>3, <3>1 DEF Contract!Reported
  <2> QED
    BY <2>4 DEF Contract!Step
<1> QED
  BY <1>2, <1>3, <1>4, <1>5, <1>6 DEF Moved

\* The content of the file, committed by whomever, keeps the contract of
\* JobContract with each producer.
THEOREM ConnKeepsContract == ConnSpec => KeepsContract
<1>1. ConnInit => Contract!Init
  <2> SUFFICES ASSUME ConnInit PROVE \A j \in Job : LifeOf(j) = Contract!Unborn
    BY DEF Contract!Init
  <2> TAKE j \in Job
  <2>1. file.rows[j] = NoRow
    BY DEF ConnInit
  <2> QED
    BY <2>1 DEF LifeOf, Present, NoRow, Contract!Unborn
<1>2. ASSUME ConnInv, [ConnNext]_connVars
      PROVE  [Contract!Next]_([j \in Job |-> LifeOf(j)])
  <2>1. ASSUME NEW j \in Job
        PROVE  LifeOf(j)' = LifeOf(j) \/ Contract!Step(LifeOf(j), LifeOf(j)')
    <3>1. LifeOf(j) = Life(file.rows[j]) /\ LifeOf(j)' = Life(file'.rows[j])
      BY DEF LifeOf, Life, Present
    <3> QED
      BY <1>2, <3>1, RowsMove, LifeMoves
  <2> QED
    BY <2>1 DEF Contract!Next
<1> QED
  BY <1>1, <1>2, ConnCorrect, PTL DEF ConnSpec, KeepsContract, Contract!Spec

=============================================================================
