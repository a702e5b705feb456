------------------------------- MODULE MCWal --------------------------------
(***************************************************************************)
(* Instances of Wal for TLC.  What a state stands for in SnapshotStore is  *)
(* kept in variables.                                                      *)
(***************************************************************************)
EXTENDS Wal

CONSTANTS c1, c2, NoView, Broken

MCSymmetry == Permutations(Conns)

\* Two connections: a checkpoint beside a reset of the log, spilled frames,
\* and crashes; one connection: more crashes on a longer history.
Scenario(u, f, m, t, s, k, x) ==
  [users |-> u, full |-> f, modes |-> m, trans |-> t, spills |-> s,
   ckpts |-> k, crashes |-> x]
MCScenarios ==
  {Scenario(2, TRUE, {Passive}, 2, 0, 2, 0),
   Scenario(2, TRUE, {}, 1, 2, 0, 1),
   Scenario(2, FALSE, {"truncate"}, 1, 0, 1, 1),
   Scenario(1, FALSE, {Passive}, 2, 1, 1, 1),
   Scenario(1, FALSE, {"restart"}, 2, 0, 1, 2)}
KillScenarios == {Scenario(1, TRUE, {Passive}, 2, 0, 1, 1)}

VARIABLES image, kept, doubt, view

InTransaction(c) == con[c].job \in {"txn", "again"}

\* What is committed: what a new reader gets, after a recovery if need be.
Known == shm.h0 # NoHdr
ImageNow == Image(shm.back + 1, shm.h0.mx)
RecoveredImage(d, frames, r) ==
  [p \in Pages |->
     LET n == LastFrame(r.idx, 1, r.hdr.mx, p)
     IN IF n = 0 THEN d[p].cur ELSE frames[n].val]

\* What a connection sees, in its cache and in the files alike.
Seen(c, p) ==
  LET g == con[c]
      n == IF g.slot = 0 \/ g.job = "again" THEN 0 ELSE FindFrame(g.min, g.hdr.mx, p)
  IN IF n = 0 THEN db[p].cur ELSE wal[n].cur.val
ViewNow ==
  [c \in Conns |->
     IF ~InTransaction(c) THEN NoView
     ELSE IF \A p \in Pages \ con[c].dirty : Seen(c, p) = con[c].cache[p]
     THEN con[c].cache ELSE Broken]

Step(c, from, to) == con[c].pc = from /\ con'[c].pc = to

Settled == \E c \in Conns : Step(c, "synclog", "copy") \/ Step(c, "synchdr", "frame")
Committed == \E c \in Conns : Step(c, "publish", "done")
PowerLost == crashes' # crashes /\ shm' = ShmZero
Cut == {view[c] : c \in {d \in Conns : con[d].com /\ con'[d].pc = "closed"}}

MCInit ==
  /\ Init
  /\ image = [p \in Pages |-> 0] /\ kept = {image} /\ doubt = {}
  /\ view = [c \in Conns |-> NoView]

MCNext ==
  /\ Next
  /\ IF <<shm, db, log>>' = <<shm, db, log>> THEN image' = image
     ELSE IF Known' THEN image' = ImageNow'
     ELSE \E frames \in {SubSeq(Cur(wal'), 1, MaxFrame)} :
            \E r \in {Recovered(whdr'.cur, frames)} :
              image' = RecoveredImage(db', frames, r)
  /\ view' = IF <<shm, db, log, con>>' = <<shm, db, log, con>> THEN view ELSE ViewNow'
  /\ kept' = IF PowerLost \/ Settled THEN {image'}
             ELSE IF Committed
             THEN IF full THEN {image'} ELSE kept \cup doubt \cup {image'}
             ELSE kept \cup {image'}
  /\ doubt' = IF PowerLost \/ Committed \/ image' # image THEN {} ELSE doubt \cup Cut

MCSpec == MCInit /\ [][MCNext]_<<vars, image, kept, doubt, view>>

Store == INSTANCE SnapshotStore WITH
  writer <- {c \in Conns : con[c].pc # "closed" /\ c \in excl[WRITE_LOCK]
                            /\ InTransaction(c)},
  asked <- {c \in Conns : con[c].com}

\* Readers keep their snapshots and transactions are atomic, isolated and
\* durable, while checkpoints run, the log is reset and processes crash (the
\* comments at the head of wal.c).
Refinement == Store!Spec
=============================================================================
