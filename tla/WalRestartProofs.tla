-------------------------- MODULE WalRestartProofs --------------------------
(***************************************************************************)
(* For any number of connections, pages, frames and read-marks, and with   *)
(* power lost and processes killed at any step but one: the log is started *)
(* again only when all of it is in the database file.                      *)
(***************************************************************************)
EXTENDS WalProofs

-----------------------------------------------------------------------------
\* What a checksum covers, and a frame that the index knows.
Chain(w, n) == [i \in 1..n |-> Body(w[i])]
OnIndex(w, idx, n) == n <= Len(idx) /\ idx[n] = w[n].pg

\* The log w under a header with this salt has what header h says.
FitsLog(h, salt, w, idx) ==
  /\ h.mx >= 0 => h.sum = Chain(w, h.mx)
  /\ h.mx > 0 => /\ h.salt = salt /\ w[h.mx].com
                 /\ \A n \in 1..h.mx : Fits(salt, w, n) /\ OnIndex(w, idx, n)

\* Of the first mx frames, n is the last one of its page.
IsLast(w, mx, n) == n \in 1..mx /\ \A m \in n + 1..mx : w[m].pg # w[n].pg

Synced(d) == \A p \in Pages : d[p] = Stable(d[p].cur)

\* What nBackfill says: the pages whose last frame is one of the first so many
\* are in the database file; and all of it is on disk once all was copied.
Backfilled(mx, back, w, d) ==
  \A n \in 1..back : IsLast(w, mx, n) /\ w[n].pg \in Pages => d[w[n].pg].cur = w[n].val
DbInv(h0, back, salt, w, d) ==
  /\ d = [p \in Pages |-> d[p]]
  /\ Backfilled(h0.mx, back, w, d)
  /\ h0.mx >= 0 /\ back >= h0.mx => Synced(d)
  /\ h0 = NoHdr /\ Recovered(salt, w).hdr.mx = 0 => Synced(d)

\* nBackfill is above mxFrame only in the middle of a reset.
BackInv(h0, back, cons) ==
  back = 0 \/ back <= h0.mx \/ \E c \in Conns : cons[c].pc = "reset1"

IsFrame(f) ==
  f = [pg |-> f.pg, val |-> f.val, com |-> f.com, salt |-> f.salt, sum |-> f.sum]

\* The writer: up to its mxFrame and what it has added the log is good, but
\* for the checksums from redo on.
Written1(g, salt, w, idx) ==
  LET n1 == g.hdr.mx + Len(g.added)
  IN /\ n1 > 0 =>
          /\ salt = g.hdr.salt /\ salt # 0
          /\ \A n \in 1..g.hdr.mx : OnIndex(w, idx, n)
          /\ \A n \in 1..Len(g.added) : g.added[n] = w[g.hdr.mx + n].pg
          /\ \A n \in 1..n1 : g.redo = 0 \/ n < g.redo => Fits(salt, w, n)
     /\ g.redo = 0 => g.hdr.sum = Chain(w, n1)
     /\ (g.pc = "frame" /\ g.com /\ g.todo = <<>>) \/ g.pc = "index" =>
          g.com /\ n1 > 0 /\ w[n1].com
     /\ g.pc = "publish" => g.hdr.mx > 0 /\ w[g.hdr.mx].com

WriterInv(g, h0, salt, w, idx) ==
  /\ g.job = "again" \/ (g.slot = 0 /\ g.pc \in {"write", "restart"}) => g.hdr = h0
  /\ g.pc \in {"restart", "header", "synchdr", "frame"} \cup ResetPcs \/ g.job = "again" =>
       IsASeq(g.todo) /\ (g.pc # "frame" => g.todo # <<>>)
  /\ g.pc \in {"synchdr", "frame", "index"} => salt = g.hdr.salt /\ salt # 0
  /\ g.pc = "synchdr" => g.hdr.mx = 0
  /\ g.first = 0 \/ g.first = h0.mx + 1
  /\ \/ g.pc \in {"write", "publish", "done"} \cup ResetPcs
     \/ g.pc = "restart" /\ g.slot = 0
     => g.first = 0
  /\ g.redo = 0 \/ g.redo \in h0.mx + 1..g.hdr.mx + Len(g.added)
  /\ g.pc \in {"index", "publish"} => g.redo = 0
  /\ \A n \in 1..g.hdr.mx + Len(g.added) : n > h0.mx => IsFrame(w[n])
  /\ Written1(g, salt, w, idx)

\* A reset, by a writer or by a checkpoint.
ResetInv(g, h0, back) ==
  /\ g.pc = "reset" => g.hdr = h0 /\ back = h0.mx
  /\ g.pc = "reset0" => /\ g.hdr.mx = 0 /\ g.hdr.sum = <<>> /\ g.hdr.salt # h0.salt
                        /\ back = h0.mx
  /\ g.pc \in {"reset1", "reset2", "cut"} => g.hdr = h0 /\ h0.mx = 0
  /\ g.pc = "reset2" => back = 0

\* A checkpoint has a header of this log, or of one that was reset since.
Older(h, x) == h.salt = x.salt => h.mx <= x.mx
Knows(g) == g.job = "ckpt" /\ g.pc \in {"copy1", "start"} \cup SafePcs
Known(g) == IF g.pc = "copy1" THEN g.tmp ELSE g.hdr

CkptInv(g, h0, back, w) ==
  /\ Knows(g) => Older(Known(g), h0)
  /\ g.pc = "lock0" =>
       /\ back < g.safe
       /\ g.hdr.salt = h0.salt =>
            \A p \in Pages : \A n \in 1..g.hdr.mx :
              g.iter[p] = n <=> IsLast(w, g.hdr.mx, n) /\ w[n].pg = p

CopyInv(g, h0, back, w, d) ==
  /\ g.pc \in CopyPcs =>
       /\ g.hdr.salt = h0.salt /\ back < g.safe /\ DOMAIN g.iter \subseteq Pages
       /\ \A p \in DOMAIN g.iter :
            IsLast(w, g.hdr.mx, g.iter[p]) /\ w[g.iter[p]].pg = p
       /\ \A n \in back + 1..g.safe :
            IsLast(w, g.hdr.mx, n) /\ w[n].pg \in Pages \ DOMAIN g.iter =>
              d[w[n].pg].cur = w[n].val
  /\ g.pc = "backfill" => DOMAIN g.iter = {} /\ (g.safe = h0.mx => Synced(d))

OtherInv(g, h0, back, salt, w, idx, d) ==
  /\ g.dirty \subseteq Pages
  /\ ~InWrite(g) => g.redo = 0 /\ g.first = 0
  /\ (g.job = "txn" /\ g.slot = 0 /\ g.pc \in {"read", "write", "restart"}) \/ g.pc = "check0"
       => back \in {0, g.hdr.mx}
  /\ g.mode # Passive /\ g.pc = "copy1" => g.tmp = h0
  /\ g.mode # Passive /\ g.pc \in {"start", "copied"} \cup SafePcs => g.hdr = h0
  /\ g.pc = "recover0" =>
       /\ g.hdr.mx >= h0.mx /\ FitsLog(g.hdr, salt, w, idx)
       /\ g.hdr.mx = 0 => Synced(d)
  /\ g.pc = "recover1" => g.hdr = h0

Parts(g, h0, back, salt, w, idx, d) ==
  /\ InWrite(g) => WriterInv(g, h0, salt, w, idx)
  /\ ResetInv(g, h0, back)
  /\ CkptInv(g, h0, back, w)
  /\ CopyInv(g, h0, back, w, d)
  /\ OtherInv(g, h0, back, salt, w, idx, d)

\* The writer has the salt of the header, or one that no checkpoint knows.
Fresh(b, g, h0) ==
  Knows(b) /\ InWrite(g) /\ g.hdr.salt = Known(b).salt => Known(b).salt = h0.salt

JInv ==
  /\ FitsLog(shm.h0, whdr.cur, Cur(wal), shm.idx)
  /\ DbInv(shm.h0, shm.back, whdr.cur, Cur(wal), db)
  /\ BackInv(shm.h0, shm.back, con)
  /\ \A c \in Conns :
       Parts(con[c], shm.h0, shm.back, whdr.cur, Cur(wal), shm.idx, db)
  /\ \A b, c \in Conns : Fresh(con[b], con[c], shm.h0)
USE DEF RecoverPcs, HeaderPcs, MarkPcs, FramePcs, ResetPcs, CopyPcs, SafePcs, CkptPcs

-----------------------------------------------------------------------------
\* The first frames decide which of them is the last of its page, and what
\* their checksums are.
LEMMA SameLast ==
  ASSUME NEW w, NEW w1, NEW mx \in Int, \A m \in 1..mx : w1[m] = w[m], NEW n
  PROVE  IsLast(w1, mx, n) <=> IsLast(w, mx, n)
BY DEF IsLast

\* Frames that stay leave what a checksum up to them covers.
LEMMA SameChain ==
  ASSUME NEW w, NEW w1, NEW n \in Int, \A m \in 1..n : w1[m] = w[m]
  PROVE  Chain(w1, n) = Chain(w, n)
BY DEF Chain

\* The last of a page among more frames, if it is among fewer, is the last
\* there too.
LEMMA LastOfFewer ==
  ASSUME NEW w, NEW mx \in Int, NEW mx1 \in Int, mx <= mx1, NEW n \in Int,
         IsLast(w, mx1, n), n <= mx
  PROVE  IsLast(w, mx, n)
BY DEF IsLast

\* Of two frames of one page only one is the last.
LEMMA OneIsLast ==
  ASSUME NEW w, NEW mx \in Int, NEW n, NEW m, IsLast(w, mx, n), IsLast(w, mx, m),
         w[n].pg = w[m].pg
  PROVE  n = m
BY DEF IsLast

\* The ground all of it stands on: numbers.
Numbers(h0, back) == AnyHdr(h0) /\ back \in Nat
\* What any header has, the absent one too.
LEMMA HdrNumbers ==
  ASSUME NEW h, AnyHdr(h)
  PROVE  h.mx \in Int /\ h.salt \in Nat /\ h.mx <= MaxFrame /\ h.mx >= -1
BY Bounds DEF AnyHdr, GoodHdr, NoHdr, Hdr

\* What a step of another may do, given where connection g is.
Rely(g, h0, back, salt, w, idx, d, h01, back1, salt1, w1, idx1, d1) ==
  /\ InWrite(g) \/ g.mode # Passive \/ g.pc \in {"cut"} \cup RecoverPcs \cup ResetPcs =>
       h01 = h0 /\ salt1 = salt /\ w1 = w /\ idx1 = idx
  /\ g.pc \in ResetPcs \cup CopyPcs => back1 = back
  /\ g.job = "ckpt" => back1 <= back
  /\ Knows(g) /\ Known(g).salt = h01.salt => h0.salt = h01.salt /\ h0.mx <= h01.mx
  /\ g.pc \in CopyPcs => h0.salt = h01.salt /\ h0.mx <= h01.mx
  /\ g.pc \in CopyPcs \cup RecoverPcs => d1 = d
  /\ \A n \in 1..h0.mx : w1[n] = w[n]
  /\ (g.job = "txn" /\ g.slot = 0) \/ g.pc = "check0" => back1 \in {0, back}

\* A step of another, as Rely allows it, leaves the parts of a connection.
LEMMA PartsKept ==
  ASSUME NEW g, JobInv(g), SlotInv(g), DataInv(g),
         NEW h0, NEW back, NEW salt, NEW w, NEW idx, NEW d,
         NEW h01, NEW back1, NEW salt1, NEW w1, NEW idx1, NEW d1,
         Numbers(h0, back), Numbers(h01, back1),
         Parts(g, h0, back, salt, w, idx, d),
         Rely(g, h0, back, salt, w, idx, d, h01, back1, salt1, w1, idx1, d1)
  PROVE  Parts(g, h01, back1, salt1, w1, idx1, d1)
<1>1. /\ AnyHdr(h0) /\ AnyHdr(h01) /\ AnyHdr(g.hdr) /\ AnyHdr(g.tmp)
      /\ g.pc \in SafePcs => g.safe \in 0..g.hdr.mx
  BY DEF Numbers, DataInv
<1>2. /\ h0.mx \in Int /\ h01.mx \in Int /\ g.hdr.mx \in Int /\ g.tmp.mx \in Int
      /\ back \in Nat /\ back1 \in Nat
  BY <1>1, HdrNumbers DEF Numbers
<1>3. InWrite(g) => WriterInv(g, h01, salt1, w1, idx1)
  BY DEF Parts, Rely
<1>4. ResetInv(g, h01, back1)
  <2>1. ResetInv(g, h0, back)
    BY DEF Parts
  <2>2. g.pc \in {"cut"} \cup ResetPcs => h01 = h0
    BY DEF Rely
  <2>3. g.pc \in ResetPcs => back1 = back
    BY DEF Rely
  <2>4. QED
    BY <2>1, <2>2, <2>3 DEF ResetInv
<1>5. Knows(g) /\ Known(g).salt = h01.salt =>
        /\ Older(Known(g), h0) /\ Known(g).salt = h0.salt /\ h0.mx <= h01.mx
        /\ Known(g).mx <= h0.mx
  BY DEF Parts, CkptInv, Rely, Older
<1>6. Knows(g) => Older(Known(g), h01)
  <2>1. Known(g).mx \in Int
    BY <1>2 DEF Known
  <2>2. QED
    BY <1>2, <1>5, <2>1 DEF Older
<1>7. \A n \in 1..h0.mx : w1[n] = w[n]
  BY DEF Rely
<1>8. CkptInv(g, h01, back1, w1)
  <2>1. CASE g.pc # "lock0"
    BY <1>6, <2>1 DEF CkptInv
  <2>2. CASE g.pc = "lock0"
    <3>1. g.job = "ckpt" /\ Knows(g) /\ Known(g) = g.hdr
      BY <2>2 DEF JobInv, Knows, Known
    <3>2. back1 < g.safe
      <4>1. back < g.safe /\ back1 <= back /\ g.safe \in Int
        BY <1>1, <1>2, <2>2, <3>1 DEF Parts, CkptInv, Rely
      <4>2. QED
        BY <1>2, <4>1
    <3>3. ASSUME g.hdr.salt = h01.salt, NEW p \in Pages, NEW n \in 1..g.hdr.mx
          PROVE  g.iter[p] = n <=> IsLast(w1, g.hdr.mx, n) /\ w1[n].pg = p
      <4>1. g.hdr.salt = h0.salt /\ g.hdr.mx <= h0.mx
        BY <1>5, <3>1, <3>3
      <4>2. g.iter[p] = n <=> IsLast(w, g.hdr.mx, n) /\ w[n].pg = p
        BY <2>2, <4>1 DEF Parts, CkptInv
      <4>3. \A m \in 1..g.hdr.mx : w1[m] = w[m]
        BY <1>2, <1>7, <4>1
      <4>4. IsLast(w1, g.hdr.mx, n) <=> IsLast(w, g.hdr.mx, n)
        BY <1>2, <4>3, SameLast
      <4>5. QED
        BY <4>2, <4>3, <4>4
    <3>4. QED
      BY <1>6, <3>2, <3>3 DEF CkptInv
  <2>3. QED
    BY <2>1, <2>2
<1>9. CopyInv(g, h01, back1, w1, d1)
  <2>1. CASE g.pc \notin CopyPcs
    BY <2>1 DEF CopyInv
  <2>2. CASE g.pc \in CopyPcs
    <3>1. /\ CopyInv(g, h0, back, w, d) /\ back1 = back /\ d1 = d
          /\ h0.salt = h01.salt /\ h0.mx <= h01.mx
      BY <2>2 DEF Parts, Rely
    <3>2. g.job = "ckpt" /\ Knows(g) /\ Known(g) = g.hdr /\ g.hdr.salt = h0.salt
      BY <2>2, <3>1 DEF JobInv, Knows, Known, CopyInv
    <3>3. g.hdr.mx <= h0.mx
      BY <1>5, <3>1, <3>2
    <3>4. \A m \in 1..g.hdr.mx : w1[m] = w[m]
      BY <1>2, <1>7, <3>3
    <3>5. \A n : IsLast(w1, g.hdr.mx, n) <=> IsLast(w, g.hdr.mx, n)
      BY <1>2, <3>4, SameLast
    <3>6. \A n : IsLast(w, g.hdr.mx, n) => w1[n] = w[n]
      BY <3>4 DEF IsLast
    <3>7. g.safe \in 0..g.hdr.mx
      BY <1>1, <2>2
    <3>8. g.safe = h01.mx => g.safe = h0.mx
      BY <1>2, <3>1, <3>3, <3>7
    <3>9. /\ g.hdr.salt = h01.salt /\ back1 < g.safe /\ DOMAIN g.iter \subseteq Pages
          /\ g.pc = "backfill" => DOMAIN g.iter = {} /\ (g.safe = h01.mx => Synced(d1))
      BY <2>2, <3>1, <3>2, <3>8 DEF CopyInv
    <3>10. \A p \in DOMAIN g.iter :
             IsLast(w1, g.hdr.mx, g.iter[p]) /\ w1[g.iter[p]].pg = p
      BY <2>2, <3>1, <3>5, <3>6 DEF CopyInv
    <3>11. \A n \in back1 + 1..g.safe :
             IsLast(w1, g.hdr.mx, n) /\ w1[n].pg \in Pages \ DOMAIN g.iter =>
               d1[w1[n].pg].cur = w1[n].val
      BY <2>2, <3>1, <3>5, <3>6 DEF CopyInv
    <3>12. QED
      BY <3>9, <3>10, <3>11 DEF CopyInv
  <2>3. QED
    BY <2>1, <2>2
<1>10. OtherInv(g, h01, back1, salt1, w1, idx1, d1)
  <2>1. OtherInv(g, h0, back, salt, w, idx, d)
    BY DEF Parts
  <2>2. g.mode # Passive \/ g.pc \in RecoverPcs => h01 = h0 /\ salt1 = salt /\ w1 = w /\ idx1 = idx
    BY DEF Rely
  <2>3. g.pc \in RecoverPcs => d1 = d
    BY DEF Rely
  <2>4. (g.job = "txn" /\ g.slot = 0) \/ g.pc = "check0" => back1 \in {0, back}
    BY DEF Rely
  <2>5. QED
    BY <2>1, <2>2, <2>3, <2>4 DEF OtherInv
<1>11. QED
  BY <1>3, <1>4, <1>8, <1>9, <1>10 DEF Parts

-----------------------------------------------------------------------------
\* What a step of connection c may do to the wal-index, the log and the
\* database file, by the locks it has.
Allowed(c) ==
  /\ \/ /\ shm'.h0 = shm.h0 /\ shm'.idx = shm.idx
        /\ whdr'.cur = whdr.cur /\ Cur(wal') = Cur(wal)
     \/ c \in excl[WRITE_LOCK]
  /\ \/ shm'.h0 = shm.h0
     \/ c \in excl[CKPT_LOCK]
     \/ /\ InWrite(con[c]) /\ shm'.h0.salt = con[c].hdr.salt
        /\ shm'.h0.salt = shm.h0.salt => shm.h0.mx <= shm'.h0.mx
        /\ shm'.h0.salt # shm.h0.salt => shm.h0.mx <= 0 \/ c \in share[READ_LOCK(0)]
  /\ \A n \in 1..shm.h0.mx : Cur(wal')[n] = Cur(wal)[n]
  /\ \/ shm'.back = shm.back
     \/ /\ shm'.back = 0 /\ c \in excl[WRITE_LOCK]
        /\ c \in excl[CKPT_LOCK] \/ c \in share[READ_LOCK(0)]
     \/ c \in excl[CKPT_LOCK] /\ c \in excl[READ_LOCK(0)]
  /\ db' = db \/ c \in excl[CKPT_LOCK]

\* Whatever a step of c may do, others are as they were.
LEMMA OthersKeep ==
  ASSUME IInv, ShmInv(shm'), JInv, NEW c \in Conns, NEW d \in Conns, d # c, Allowed(c)
  PROVE  Parts(con[d], shm'.h0, shm'.back, whdr'.cur, Cur(wal'), shm'.idx, db')
<1> DEFINE g == con[d]
<1>1. /\ ConInv(d, g, excl, share, shm) /\ LocksInv(excl, share) /\ ShmInv(shm)
      /\ Parts(g, shm.h0, shm.back, whdr.cur, Cur(wal), shm.idx, db)
      /\ InWrite(con[c]) => Fresh(g, con[c], shm.h0)
  BY DEF IInv, JInv
<1>2. \A s \in {WRITE_LOCK, CKPT_LOCK, READ_LOCK(0)} :
        /\ ~(c \in excl[s] /\ d \in excl[s])
        /\ ~(c \in excl[s] /\ d \in share[s])
        /\ ~(c \in share[s] /\ d \in excl[s])
  BY <1>1, LockNumbers, OneOwner
<1>3. /\ JobInv(g) /\ SlotInv(g) /\ DataInv(g)
      /\ \A s \in Owns(g) : d \in excl[s]
      /\ Shares(g) => d \in share[READ_LOCK(g.slot)]
  BY <1>1 DEF ConInv
<1> HIDE DEF g
<1>4. /\ InWrite(g) \/ g.mode # Passive \/ g.pc \in {"cut"} \cup RecoverPcs \cup ResetPcs =>
           d \in excl[WRITE_LOCK]
      /\ g.job = "ckpt" \/ g.pc \in RecoverPcs => d \in excl[CKPT_LOCK]
      /\ g.pc \in CopyPcs => d \in excl[READ_LOCK(0)] /\ g.job = "ckpt"
      /\ g.job = "txn" /\ g.slot = 0 => d \in share[READ_LOCK(0)]
  BY <1>3 DEF Owns, Shares, JobInv
<1>5. /\ g.pc \in ResetPcs => d \in excl[CKPT_LOCK] \/ d \in share[READ_LOCK(0)]
      /\ g.pc = "check0" => d \in share[READ_LOCK(0)]
  <2>1. g.pc \in ResetPcs => g.slot = 0 /\ g.job \in {"txn", "ckpt"}
    BY <1>3 DEF JobInv, SlotInv
  <2>2. g.pc = "check0" => g.slot = 0 /\ Shares(g)
    BY <1>3 DEF JobInv, SlotInv, Shares
  <2>3. QED
    BY <1>3, <1>4, <2>1, <2>2
<1>6. shm.back \in Nat /\ shm'.back \in Nat /\ AnyHdr(shm.h0) /\ AnyHdr(shm'.h0)
      /\ shm.h0.mx \in Int /\ shm'.h0.mx \in Int
  BY <1>1, HdrNumbers DEF ShmInv
<1>7. InWrite(g) \/ g.mode # Passive \/ g.pc \in {"cut"} \cup RecoverPcs \cup ResetPcs =>
        /\ shm'.h0 = shm.h0 /\ shm'.idx = shm.idx
        /\ whdr'.cur = whdr.cur /\ Cur(wal') = Cur(wal)
  BY <1>2, <1>4 DEF Allowed
<1>8. g.pc \in ResetPcs \cup CopyPcs => shm'.back = shm.back
  BY <1>2, <1>4, <1>5 DEF Allowed
<1>9. g.job = "ckpt" => shm'.back <= shm.back
  BY <1>2, <1>4, <1>6 DEF Allowed
<1>10. Knows(g) /\ Known(g).salt = shm'.h0.salt =>
         shm.h0.salt = shm'.h0.salt /\ shm.h0.mx <= shm'.h0.mx
  BY <1>1, <1>2, <1>4, <1>6 DEF Allowed, Fresh, Knows
<1>11. g.pc \in CopyPcs => shm.h0.salt = shm'.h0.salt /\ shm.h0.mx <= shm'.h0.mx
  <2> SUFFICES ASSUME g.pc \in CopyPcs
               PROVE  shm.h0.salt = shm'.h0.salt /\ shm.h0.mx <= shm'.h0.mx
    OBVIOUS
  <2>1. g.hdr.salt = shm.h0.salt /\ shm.back < g.safe /\ g.safe \in 0..g.hdr.mx
    BY <1>1, <1>3 DEF Parts, CopyInv, DataInv, g
  <2>2. Knows(g) /\ Known(g) = g.hdr
    BY <1>4 DEF Knows, Known
  <2>3. g.hdr.mx <= shm.h0.mx
    BY <1>1, <2>1, <2>2 DEF Parts, CkptInv, Older, g
  <2>4. shm.h0.mx > 0
    BY <1>6, <2>1, <2>3, HdrNumbers, <1>3 DEF DataInv
  <2>5. QED
    BY <1>2, <1>4, <1>6, <2>4 DEF Allowed
<1>12. g.pc \in CopyPcs \cup RecoverPcs => db' = db
  BY <1>2, <1>4 DEF Allowed
<1>13. (g.job = "txn" /\ g.slot = 0) \/ g.pc = "check0" => shm'.back \in {0, shm.back}
  BY <1>2, <1>4, <1>5 DEF Allowed
<1>14. \A n \in 1..shm.h0.mx : Cur(wal')[n] = Cur(wal)[n]
  BY DEF Allowed
<1>15. Rely(g, shm.h0, shm.back, whdr.cur, Cur(wal), shm.idx, db,
            shm'.h0, shm'.back, whdr'.cur, Cur(wal'), shm'.idx, db')
  BY <1>7, <1>8, <1>9, <1>10, <1>11, <1>12, <1>13, <1>14 DEF Rely
<1>16. Numbers(shm.h0, shm.back) /\ Numbers(shm'.h0, shm'.back)
  BY <1>6 DEF Numbers
<1>17. QED
  BY <1>1, <1>3, <1>15, <1>16, PartsKept DEF g

\* A step of one connection that does what its locks allow.
LEMMA OneStep ==
  ASSUME IInv, IInv', JInv, NEW c \in Conns, NEW h,
         con' = [con EXCEPT ![c] = h], Allowed(c),
         FitsLog(shm'.h0, whdr'.cur, Cur(wal'), shm'.idx),
         DbInv(shm'.h0, shm'.back, whdr'.cur, Cur(wal'), db'),
         BackInv(shm'.h0, shm'.back, con'),
         Parts(h, shm'.h0, shm'.back, whdr'.cur, Cur(wal'), shm'.idx, db'),
         \A d \in Conns : d # c => Fresh(h, con[d], shm'.h0) /\ Fresh(con[d], h, shm'.h0)
  PROVE  JInv'
<1>1. /\ con'[c] = h /\ \A d \in Conns : d # c => con'[d] = con[d]
      /\ JobInv(h) /\ ShmInv(shm')
  BY DEF IInv, ConInv
<1>2. \A d \in Conns : Parts(con'[d], shm'.h0, shm'.back, whdr'.cur, Cur(wal'), shm'.idx, db')
  BY <1>1, OthersKeep
<1>3. ASSUME NEW b \in Conns, NEW d \in Conns
      PROVE  Fresh(con'[b], con'[d], shm'.h0)
  <2>1. CASE b = c /\ d = c
    BY <1>1, <2>1 DEF Fresh, Knows, InWrite
  <2>2. CASE b # d /\ (b = c \/ d = c)
    BY <1>1, <2>2
  <2>3. CASE b # c /\ d # c
    <3>1. Fresh(con[b], con[d], shm.h0)
      BY DEF JInv
    <3>2. CASE InWrite(con[d])
      <4>1. d \in excl[WRITE_LOCK] /\ LocksInv(excl, share)
        BY <3>2 DEF IInv, ConInv, Owns
      <4>2. c \notin excl[WRITE_LOCK]
        BY <2>3, <4>1, LockNumbers, OneOwner
      <4>3. QED
        BY <1>1, <2>3, <3>1, <4>2 DEF Allowed
    <3>3. CASE ~InWrite(con[d])
      BY <1>1, <2>3, <3>3 DEF Fresh
    <3>4. QED
      BY <3>2, <3>3
  <2>4. QED
    BY <2>1, <2>2, <2>3
<1>4. QED
  BY <1>2, <1>3 DEF JInv

\* What the new state of one connection may have for a header.
Heir(h, g, h0) ==
  /\ Knows(h) => Known(h).salt = h0.salt \/ (Knows(g) /\ Known(h).salt = Known(g).salt)
  /\ InWrite(h) => \/ h.hdr.salt = h0.salt
                   \/ InWrite(g) /\ h.hdr.salt = g.hdr.salt
                   \/ \A d \in Conns : Knows(con[d]) => Known(con[d]).salt # h.hdr.salt

\* A connection that only goes on keeps writers and checkpoints apart.
LEMMA HeirIsFresh ==
  ASSUME JInv, NEW c \in Conns, NEW h, Heir(h, con[c], shm.h0)
  PROVE  \A d \in Conns : Fresh(h, con[d], shm.h0) /\ Fresh(con[d], h, shm.h0)
<1> SUFFICES ASSUME NEW d \in Conns
             PROVE  Fresh(h, con[d], shm.h0) /\ Fresh(con[d], h, shm.h0)
  OBVIOUS
<1>1. Fresh(con[c], con[d], shm.h0) /\ Fresh(con[d], con[c], shm.h0)
  BY DEF JInv
<1>2. QED
  BY <1>1 DEF Heir, Fresh

\* A step that nobody else can see.
Unseen ==
  /\ shm'.h0 = shm.h0 /\ shm'.back = shm.back /\ shm'.idx = shm.idx
  /\ whdr'.cur = whdr.cur /\ Cur(wal') = Cur(wal) /\ db' = db

\* A step that changes one connection and no file: only its own parts are left
\* to show.
LEMMA QuietStep ==
  ASSUME IInv, IInv', JInv, NEW c \in Conns, NEW h,
         con' = [con EXCEPT ![c] = h], Unseen,
         con[c].pc # "reset1", Heir(h, con[c], shm.h0),
         Parts(h, shm.h0, shm.back, whdr.cur, Cur(wal), shm.idx, db)
  PROVE  JInv'
<1>1. Allowed(c)
  BY DEF Allowed, Unseen
<1>2. /\ FitsLog(shm'.h0, whdr'.cur, Cur(wal'), shm'.idx)
      /\ DbInv(shm'.h0, shm'.back, whdr'.cur, Cur(wal'), db')
      /\ Parts(h, shm'.h0, shm'.back, whdr'.cur, Cur(wal'), shm'.idx, db')
  BY DEF Unseen, JInv
<1>3. BackInv(shm'.h0, shm'.back, con')
  <2>1. \A d \in Conns : con[d].pc = "reset1" => con'[d].pc = "reset1"
    BY DEF IInv
  <2>2. QED
    BY <2>1 DEF Unseen, JInv, BackInv
<1>4. \A d \in Conns : Fresh(h, con[d], shm'.h0) /\ Fresh(con[d], h, shm'.h0)
  BY HeirIsFresh DEF Unseen
<1>5. QED
  BY <1>1, <1>2, <1>3, <1>4, OneStep

\* A connection of which the invariant says nothing.
Harmless(h) ==
  /\ h.job \in {"none", "begin"} \/ (h.job = "txn" /\ h.pc = "read" /\ h.slot # 0)
  /\ h.pc \notin {"check0", "recover0", "recover1"}
  /\ h.redo = 0 /\ h.first = 0 /\ h.dirty \subseteq Pages /\ h.mode = Passive

\* A connection that neither writes nor checkpoints nor recovers has no part.
LEMMA HarmlessParts ==
  ASSUME NEW h, JobInv(h), Harmless(h),
         NEW h0, NEW back, NEW salt, NEW w, NEW idx, NEW d
  PROVE  Parts(h, h0, back, salt, w, idx, d) /\ ~Knows(h) /\ ~InWrite(h)
<1>1. /\ ~Knows(h) /\ ~InWrite(h) /\ ~(h.job = "txn" /\ h.slot = 0)
      /\ h.pc \notin {"cut", "recover0", "recover1", "check0"} \cup ResetPcs \cup SafePcs
  BY DEF JobInv, Harmless, Knows, InWrite
<1>2. OtherInv(h, h0, back, salt, w, idx, d)
  BY <1>1 DEF OtherInv, Harmless
<1>3. QED
  BY <1>1, <1>2 DEF Parts, ResetInv, CkptInv, CopyInv

\* A quiet step after which the connection is such a one.
LEMMA HarmlessStep ==
  ASSUME IInv, IInv', JInv, NEW c \in Conns, NEW h,
         con' = [con EXCEPT ![c] = h], Harmless(h), Unseen,
         con[c].pc # "reset1"
  PROVE  JInv'
<1>1. JobInv(h)
  BY DEF IInv, ConInv
<1>2. /\ Parts(h, shm.h0, shm.back, whdr.cur, Cur(wal), shm.idx, db)
      /\ Heir(h, con[c], shm.h0)
  BY <1>1, HarmlessParts DEF Heir
<1>3. QED
  BY <1>2, QuietStep

\* What is known of a connection and of the wal-index before a step.
LEMMA Before ==
  ASSUME IInv, JInv, NEW c \in Conns
  PROVE  LET g == con[c]
         IN /\ g = [f \in Fields |-> g[f]]
            /\ JobInv(g) /\ SlotInv(g) /\ DataInv(g) /\ MarkInv(g, shm)
            /\ \A s \in Owns(g) : c \in excl[s]
            /\ Shares(g) => c \in share[READ_LOCK(g.slot)]
            /\ Parts(g, shm.h0, shm.back, whdr.cur, Cur(wal), shm.idx, db)
            /\ g.dirty \subseteq Pages
            /\ ~InWrite(g) => g.redo = 0 /\ g.first = 0
            /\ g.job # "ckpt" => g.mode = Passive
BY DEF IInv, JInv, ConInv, DataInv, Parts, OtherInv

\* What the invariants say of the files and of the wal-index.
LEMMA BeforeShm ==
  ASSUME IInv, JInv
  PROVE  /\ LocksInv(excl, share) /\ ShmInv(shm) /\ LogInv /\ con = [c \in Conns |-> con[c]]
         /\ shm.back \in Nat /\ AnyHdr(shm.h0) /\ shm.h0.mx \in Int
         /\ FitsLog(shm.h0, whdr.cur, Cur(wal), shm.idx)
         /\ DbInv(shm.h0, shm.back, whdr.cur, Cur(wal), db)
         /\ BackInv(shm.h0, shm.back, con)
BY HdrNumbers DEF IInv, JInv, ShmInv

\* Where neither the wal-index nor a file changes.
LEMMA SameFiles ==
  ASSUME UNCHANGED <<db, shm>>, UNCHANGED log
  PROVE  Unseen
BY DEF Unseen, log

\* A call that ends.
LEMMA RestStep ==
  ASSUME IInv, IInv', JInv, NEW c \in Conns, NEW hdr, NEW cache, Rest(c, hdr, cache), Unseen,
         con[c].pc # "reset1"
  PROVE  JInv'
<1> DEFINE h == [Blank EXCEPT !.hdr = hdr, !.cache = cache]
<1>1. /\ h.pc = "idle" /\ h.job = "none" /\ h.redo = 0 /\ h.first = 0 /\ h.dirty = {}
      /\ h.mode = Passive
  BY DEF Blank
<1>2. con' = [con EXCEPT ![c] = h]
  BY DEF Rest
<1> HIDE DEF h
<1>3. Harmless(h)
  BY <1>1 DEF Harmless
<1>4. QED
  BY <1>2, <1>3, HarmlessStep

\* A checkpoint that is not copying, nor resetting the log.
LEMMA CkptParts ==
  ASSUME NEW h, h.job = "ckpt", JobInv(h),
         h.pc \notin CopyPcs \cup ResetPcs \cup {"lock0", "cut", "recover0", "recover1"},
         h.redo = 0, h.first = 0, h.dirty \subseteq Pages,
         NEW h0, NEW back, NEW salt, NEW w, NEW idx, NEW d,
         Knows(h) => Older(Known(h), h0),
         h.mode # Passive /\ h.pc = "copy1" => h.tmp = h0,
         h.mode # Passive /\ h.pc \in {"start", "copied"} \cup SafePcs => h.hdr = h0
  PROVE  Parts(h, h0, back, salt, w, idx, d) /\ ~InWrite(h)
<1>1. ~InWrite(h) /\ h.pc # "check0"
  BY DEF InWrite, JobInv
<1>2. OtherInv(h, h0, back, salt, w, idx, d)
  BY <1>1 DEF OtherInv
<1>3. QED
  BY <1>1, <1>2 DEF Parts, ResetInv, CkptInv, CopyInv

-----------------------------------------------------------------------------
\* walIndexReadHdr()

\* The first copy of the header is read (walIndexTryHdr()).
LEMMA BeginReadKeeps ==
  ASSUME IInv, IInv', JInv, NEW c \in Conns, BeginRead(c)
  PROVE  JInv'
<1> DEFINE g == con[c]
           h == [g EXCEPT !.pc = "copy1", !.job = "begin", !.tmp = shm.h0]
<1>1. con' = [con EXCEPT ![c] = h] /\ g.pc = "idle" /\ Unseen
  BY SameFiles DEF BeginRead, Put, At
<1>2. g.job = "none" /\ g.redo = 0 /\ g.first = 0 /\ g.dirty \subseteq Pages /\ g.mode = Passive
  BY <1>1, Before DEF JobInv, InWrite
<1>3. /\ h.pc = "copy1" /\ h.job = "begin" /\ h.redo = 0 /\ h.first = 0
      /\ h.dirty \subseteq Pages /\ h.mode = Passive
  BY <1>2, Before DEF Fields
<1> HIDE DEF h
<1>4. Harmless(h)
  BY <1>3 DEF Harmless
<1>5. QED
  BY <1>1, <1>4, HarmlessStep

\* A header was found: that of the writer, or the one that was read before.
LEMMA GotHdrKeeps ==
  ASSUME IInv, IInv', JInv, NEW c \in Conns, con[c].pc \in {"copy1", "badhdr"},
         NEW hdr, GotHdr(c, hdr), Unseen,
         hdr = shm.h0 \/ (con[c].pc = "copy1" /\ hdr = con[c].tmp)
  PROVE  JInv'
<1> DEFINE g == con[c]
           h == [g EXCEPT !.pc = IF g.job = "ckpt" THEN "start" ELSE "pick",
                  !.hdr = hdr, !.tmp = NoHdr,
                  !.cache = IF hdr # g.hdr /\ g.job = "begin" THEN NoImage ELSE g.cache,
                  !.changed = g.job = "ckpt" /\ hdr # g.hdr]
<1>1. con' = [con EXCEPT ![c] = h]
  BY DEF GotHdr, Put
<1>2. /\ h.job = g.job /\ h.pc = IF g.job = "ckpt" THEN "start" ELSE "pick"
      /\ h.hdr = hdr /\ h.redo = g.redo /\ h.first = g.first /\ h.dirty = g.dirty
      /\ h.mode = g.mode
  <2>1. g = [f \in Fields |-> g[f]]
    BY Before
  <2>2. QED
    BY <2>1, ZenonT(30) DEF Fields
<1>3. /\ g.job \in {"begin", "ckpt"} /\ g.redo = 0 /\ g.first = 0 /\ g.dirty \subseteq Pages
      /\ g.job # "ckpt" => g.mode = Passive
  BY Before DEF JobInv, InWrite
<1>4. /\ Parts(g, shm.h0, shm.back, whdr.cur, Cur(wal), shm.idx, db) /\ h = con'[c]
      /\ JobInv(con'[c])
  BY <1>1, Before DEF IInv, ConInv
<1> HIDE DEF h
<1>5. CASE g.job = "begin"
  <2>1. Harmless(h)
    BY <1>2, <1>3, <1>5 DEF Harmless
  <2>2. QED
    BY <1>1, <2>1, HarmlessStep
<1>6. CASE g.job = "ckpt"
  <2>1. h.pc = "start" /\ Knows(h) /\ Known(h) = hdr
    BY <1>2, <1>6 DEF Knows, Known
  <2>2. g.pc = "copy1" => Knows(g) /\ Known(g) = g.tmp
    BY <1>6 DEF Knows, Known
  <2>3. Older(hdr, shm.h0)
    <3>1. shm.h0.mx <= shm.h0.mx
      BY BeforeShm
    <3>2. hdr = g.tmp /\ g.pc = "copy1" => Older(hdr, shm.h0)
      BY <1>4, <2>2 DEF Parts, CkptInv
    <3>3. QED
      BY <3>1, <3>2 DEF Older
  <2>4. g.mode # Passive => hdr = shm.h0
    BY <1>4 DEF Parts, OtherInv
  <2>5. /\ Parts(h, shm.h0, shm.back, whdr.cur, Cur(wal), shm.idx, db)
        /\ ~InWrite(h)
    BY <1>2, <1>3, <1>4, <1>6, <2>1, <2>3, <2>4, CkptParts
  <2>6. Heir(h, g, shm.h0)
    BY <2>1, <2>2, <2>5 DEF Heir
  <2>7. QED
    BY <1>1, <2>5, <2>6, QuietStep
<1>7. QED
  BY <1>3, <1>5, <1>6

\* A copy of a header that was not found good.
LEMMA TryHdrKeeps ==
  ASSUME IInv, IInv', JInv, NEW c \in Conns, TryHdr(c)
  PROVE  JInv'
<1> DEFINE g == con[c]
           h == [g EXCEPT !.pc = "badhdr", !.tmp = NoHdr]
<1>1. Unseen /\ g.pc = "copy1"
  BY SameFiles DEF TryHdr, At
<1>2. CASE g.tmp = shm.h1 /\ shm.h1 # NoHdr
  <2>1. GotHdr(c, shm.h1)
    BY <1>2 DEF TryHdr
  <2>2. QED
    BY <1>1, <1>2, <2>1, GotHdrKeeps
<1>3. CASE ~(g.tmp = shm.h1 /\ shm.h1 # NoHdr)
  <2>1. con' = [con EXCEPT ![c] = h]
    BY <1>3 DEF TryHdr, Put
  <2>2. /\ g.job \in {"begin", "ckpt"} /\ g.redo = 0 /\ g.first = 0 /\ g.dirty \subseteq Pages
        /\ g.job # "ckpt" => g.mode = Passive
    BY <1>1, Before DEF JobInv, InWrite
  <2>3. /\ h.job = g.job /\ h.pc = "badhdr" /\ h.redo = 0 /\ h.first = 0
        /\ h.dirty \subseteq Pages /\ h.mode = g.mode
    BY <2>2, Before DEF Fields
  <2>4. h = con'[c] /\ JobInv(con'[c])
    BY <2>1, Before DEF IInv, ConInv
  <2> HIDE DEF h
  <2>5. CASE g.job = "begin"
    <3>1. Harmless(h)
      BY <2>2, <2>3, <2>5 DEF Harmless
    <3>2. QED
      BY <1>1, <2>1, <3>1, HarmlessStep
  <2>6. CASE g.job = "ckpt"
    <3>1. ~Knows(h)
      BY <2>3 DEF Knows
    <3>2. Parts(h, shm.h0, shm.back, whdr.cur, Cur(wal), shm.idx, db) /\ ~InWrite(h)
      BY <2>3, <2>4, <2>6, <3>1, CkptParts
    <3>3. Heir(h, g, shm.h0)
      BY <3>1, <3>2 DEF Heir
    <3>4. QED
      BY <1>1, <2>1, <3>2, <3>3, QuietStep
  <2>7. QED
    BY <2>2, <2>5, <2>6
<1>4. QED
  BY <1>2, <1>3

\* The header is bad: the lock of writers is taken, and the header is tried
\* again (walIndexReadHdr()).
LEMMA BadHdrKeeps ==
  ASSUME IInv, IInv', JInv, NEW c \in Conns, BadHdr(c)
  PROVE  JInv'
<1> DEFINE g == con[c]
           h == [g EXCEPT !.pc = "recover"]
<1>1. Unseen /\ g.pc = "badhdr"
  BY SameFiles DEF BadHdr, At
<1>2. CASE shm.h0 = shm.h1 /\ shm.h0 # NoHdr
  <2>1. GotHdr(c, shm.h0)
    BY <1>2 DEF BadHdr
  <2>2. QED
    BY <1>1, <2>1, GotHdrKeeps
<1>3. CASE ~(shm.h0 = shm.h1 /\ shm.h0 # NoHdr)
  <2>1. con' = [con EXCEPT ![c] = h]
    BY <1>3, Before DEF BadHdr, Goto
  <2>2. /\ g.job \in {"begin", "ckpt"} /\ g.redo = 0 /\ g.first = 0 /\ g.dirty \subseteq Pages
        /\ g.job # "ckpt" => g.mode = Passive
    BY <1>1, Before DEF JobInv, InWrite
  <2>3. /\ h.job = g.job /\ h.pc = "recover" /\ h.redo = 0 /\ h.first = 0
        /\ h.dirty \subseteq Pages /\ h.mode = g.mode
    BY <2>2, Before DEF Fields
  <2>4. h = con'[c] /\ JobInv(con'[c])
    BY <2>1, Before DEF IInv, ConInv
  <2> HIDE DEF h
  <2>5. CASE g.job = "begin"
    <3>1. Harmless(h)
      BY <2>2, <2>3, <2>5 DEF Harmless
    <3>2. QED
      BY <1>1, <2>1, <3>1, HarmlessStep
  <2>6. CASE g.job = "ckpt"
    <3>1. ~Knows(h)
      BY <2>3 DEF Knows
    <3>2. Parts(h, shm.h0, shm.back, whdr.cur, Cur(wal), shm.idx, db) /\ ~InWrite(h)
      BY <2>3, <2>4, <2>6, <3>1, CkptParts
    <3>3. Heir(h, g, shm.h0)
      BY <3>1, <3>2 DEF Heir
    <3>4. QED
      BY <1>1, <2>1, <3>2, <3>3, QuietStep
  <2>7. QED
    BY <2>2, <2>5, <2>6
<1>4. QED
  BY <1>2, <1>3

\* Another has the lock of writers: the call gives up.
LEMMA BadHdrBusyKeeps ==
  ASSUME IInv, IInv', JInv, NEW c \in Conns, BadHdrBusy(c)
  PROVE  JInv'
<1>1. Unseen /\ con[c].pc = "badhdr" /\ Rest(c, con[c].hdr, NoImage)
  BY SameFiles DEF BadHdrBusy, At, GiveUp
<1>2. QED
  BY <1>1, RestStep

-----------------------------------------------------------------------------
\* walIndexRecover()

\* Before the first frame a checksum covers nothing.
LEMMA ChainZero ==
  ASSUME NEW w
  PROVE  Chain(w, 0) = <<>>
<1>1. Chain(w, 0) = [i \in {} |-> Body(w[i])]
  BY DEF Chain
<1>2. <<>> = [i \in {} |-> Body(w[i])]
  OBVIOUS
<1>3. QED
  BY <1>1, <1>2

\* The holder of the lock of writers, or of checkpoints, is alone.
LEMMA Alone ==
  ASSUME IInv, NEW c \in Conns
  PROVE  \A d \in Conns : d # c =>
           /\ c \in excl[WRITE_LOCK] =>
                ~InWrite(con[d]) /\ con[d].pc \notin {"cut"} \cup ResetPcs \cup RecoverPcs
           /\ c \in excl[CKPT_LOCK] => ~Knows(con[d]) /\ con[d].job # "ckpt"
<1> SUFFICES ASSUME NEW d \in Conns, d # c
             PROVE  /\ c \in excl[WRITE_LOCK] =>
                         ~InWrite(con[d])
                           /\ con[d].pc \notin {"cut"} \cup ResetPcs \cup RecoverPcs
                    /\ c \in excl[CKPT_LOCK] => ~Knows(con[d]) /\ con[d].job # "ckpt"
  OBVIOUS
<1>1. LocksInv(excl, share) /\ \A s \in Owns(con[d]) : d \in excl[s]
  BY DEF IInv, ConInv
<1>2. \A s \in {WRITE_LOCK, CKPT_LOCK} : ~(c \in excl[s] /\ d \in excl[s])
  BY <1>1, LockNumbers, OneOwner
<1>3. QED
  BY <1>1, <1>2 DEF Owns, Knows

\* In the middle of a reset there is nobody else who writes or recovers.
LEMMA BackWithin ==
  ASSUME IInv, JInv, NEW c \in Conns, c \in excl[WRITE_LOCK], con[c].pc # "reset1"
  PROVE  shm.back = 0 \/ shm.back <= shm.h0.mx
<1>1. \A d \in Conns : con[d].pc # "reset1"
  BY Alone
<1>2. QED
  BY <1>1, BeforeShm DEF BackInv

\* A recovery finds at least what the header has.
LEMMA RecoveredCovers ==
  ASSUME NEW h0, AnyHdr(h0), NEW salt \in Nat, NEW w, NEW idx, FitsLog(h0, salt, w, idx),
         NEW r, NEW last \in 0..MaxFrame, IsRecovered(r, salt, w, last)
  PROVE  /\ h0.mx <= r.hdr.mx /\ FitsLog(r.hdr, salt, w, r.idx) /\ FitsLog(h0, salt, w, r.idx)
<1>1. h0.mx \in Int /\ h0.mx <= MaxFrame /\ last \in Nat /\ MaxFrame \in Nat
  BY HdrNumbers, Bounds
<1>2. /\ \A n \in 1..last : Fits(salt, w, n)
      /\ last = MaxFrame \/ ~Fits(salt, w, last + 1)
      /\ r.idx = [n \in 1..last |-> w[n].pg]
      /\ r.hdr.salt = salt /\ r.hdr.mx \in 0..last
      /\ r.hdr.mx = 0 \/ w[r.hdr.mx].com
      /\ \A n \in 1..last : w[n].com => n <= r.hdr.mx
      /\ r.hdr.sum = IF r.hdr.mx = 0 THEN <<>> ELSE w[r.hdr.mx].sum
  BY DEF IsRecovered
<1>3. h0.mx <= last /\ h0.mx <= r.hdr.mx
  <2>1. CASE h0.mx <= 0
    BY <1>1, <1>2, <2>1
  <2>2. CASE h0.mx > 0
    <3>1. w[h0.mx].com /\ \A n \in 1..h0.mx : Fits(salt, w, n)
      BY <2>2 DEF FitsLog
    <3>2. h0.mx <= last
      BY <1>1, <1>2, <3>1
    <3>3. QED
      BY <1>1, <1>2, <2>2, <3>1, <3>2
  <2>3. QED
    BY <1>1, <2>1, <2>2
<1>4. \A n \in 1..last : OnIndex(w, r.idx, n)
  BY <1>1, <1>2 DEF OnIndex
<1>5. r.hdr.sum = Chain(w, r.hdr.mx)
  <2>1. CASE r.hdr.mx = 0
    BY <1>2, <2>1, ChainZero
  <2>2. CASE r.hdr.mx # 0
    <3>1. Fits(salt, w, r.hdr.mx)
      BY <1>1, <1>2, <2>2
    <3>2. QED
      BY <1>2, <2>2, <3>1 DEF Fits, Chain
  <2>3. QED
    BY <2>1, <2>2
<1>6. FitsLog(r.hdr, salt, w, r.idx)
  BY <1>1, <1>2, <1>4, <1>5 DEF FitsLog
<1>7. FitsLog(h0, salt, w, r.idx)
  BY <1>1, <1>3, <1>4 DEF FitsLog
<1>8. QED
  BY <1>3, <1>6, <1>7

\* What mxFrame rises by is not in the database file yet.
LEMMA DbGrows ==
  ASSUME NEW h0, NEW h01, NEW back, NEW salt, NEW w, NEW d, NEW salt1,
         AnyHdr(h0), GoodHdr(h01), back \in Nat, DbInv(h0, back, salt, w, d),
         h0.mx <= h01.mx, back = 0 \/ back <= h0.mx, h01.mx = 0 => Synced(d)
  PROVE  DbInv(h01, back, salt1, w, d)
<1>1. h0.mx \in Int /\ h01.mx \in Nat
  BY HdrNumbers DEF GoodHdr
<1>2. Backfilled(h01.mx, back, w, d)
  <2> SUFFICES ASSUME NEW n \in 1..back, IsLast(w, h01.mx, n), w[n].pg \in Pages
               PROVE  d[w[n].pg].cur = w[n].val
    BY DEF Backfilled
  <2>1. n \in Int /\ n <= h0.mx
    BY <1>1
  <2>2. IsLast(w, h0.mx, n)
    BY <1>1, <2>1, LastOfFewer
  <2>3. QED
    BY <2>2 DEF DbInv, Backfilled
<1>3. back >= h01.mx => Synced(d)
  BY <1>1 DEF DbInv
<1>4. h01 # NoHdr
  BY <1>1 DEF NoHdr, Hdr
<1>5. QED
  BY <1>2, <1>3, <1>4 DEF DbInv

\* With nBackfill at zero the file owes nothing to the log.
LEMMA DbBackZero ==
  ASSUME NEW h0, NEW back, NEW salt, NEW w, NEW d, AnyHdr(h0), back \in Nat,
         DbInv(h0, back, salt, w, d)
  PROVE  DbInv(h0, 0, salt, w, d)
<1>1. h0.mx \in Int
  BY HdrNumbers
<1>2. 0 >= h0.mx /\ h0.mx >= 0 => Synced(d)
  BY <1>1 DEF DbInv
<1>3. QED
  BY <1>2 DEF DbInv, Backfilled

\* The index and the second copy of the header.
LEMMA RecoverKeeps ==
  ASSUME IInv, IInv', JInv, NEW c \in Conns, Recover(c)
  PROVE  JInv'
<1> DEFINE g == con[c]
           r == Recovered(whdr.cur, Cur(wal))
           h == [g EXCEPT !.pc = "recover0", !.hdr = r.hdr]
<1>1. /\ con' = [con EXCEPT ![c] = h] /\ g.pc = "recover" /\ UNCHANGED <<db, whdr, wal>>
      /\ shm' = [shm EXCEPT !.h1 = r.hdr, !.idx = r.idx]
  BY DEF Recover, Put, At, log
<1>2. /\ g.job \in {"begin", "ckpt"} /\ c \in excl[WRITE_LOCK] /\ c \in excl[CKPT_LOCK]
      /\ ~InWrite(g) /\ g.redo = 0 /\ g.first = 0 /\ g.dirty \subseteq Pages
  BY <1>1, Before DEF JobInv, Owns, InWrite
<1>3. PICK last \in 0..MaxFrame : IsRecovered(r, whdr.cur, Cur(wal), last)
  BY RecoveredIs DEF IInv, LogInv, SaltsInv
<1>4. whdr.cur \in Nat
  BY DEF IInv, LogInv, SaltsInv
<1> HIDE DEF r
<1>5. /\ h.pc = "recover0" /\ h.job = g.job /\ h.hdr = r.hdr /\ h.redo = 0 /\ h.first = 0
      /\ h.dirty \subseteq Pages
  BY <1>2, Before DEF Fields
<1>6. /\ shm'.h0 = shm.h0 /\ shm'.back = shm.back /\ shm'.idx = r.idx
      /\ h = con'[c] /\ JobInv(con'[c])
  BY <1>1, BeforeShm, Before DEF ShmInv, IInv, ConInv
<1> HIDE DEF h
<1>7. /\ shm.h0.mx <= r.hdr.mx /\ FitsLog(r.hdr, whdr.cur, Cur(wal), r.idx)
      /\ FitsLog(shm.h0, whdr.cur, Cur(wal), r.idx)
  BY <1>3, <1>4, BeforeShm, RecoveredCovers
<1>8. Allowed(c)
  BY <1>1, <1>2, <1>6 DEF Allowed
<1>9. BackInv(shm'.h0, shm'.back, con')
  <2>1. shm.back = 0 \/ shm.back <= shm.h0.mx
    BY <1>1, <1>2, BackWithin
  <2>2. QED
    BY <1>6, <2>1 DEF BackInv
<1>10. r.hdr.mx = 0 => Synced(db)
  <2> SUFFICES ASSUME r.hdr.mx = 0
               PROVE  Synced(db)
    OBVIOUS
  <2>1. DbInv(shm.h0, shm.back, whdr.cur, Cur(wal), db) /\ shm.h0.mx \in Int /\ shm.back \in Nat
        /\ shm.h0.mx <= 0
    BY <1>7, BeforeShm
  <2>2. CASE shm.h0.mx = 0
    BY <2>1, <2>2 DEF DbInv
  <2>3. CASE shm.h0.mx # 0
    <3>1. shm.h0 = NoHdr
      BY <2>1, <2>3, BeforeShm DEF AnyHdr, GoodHdr
    <3>2. QED
      BY <2>1, <3>1 DEF DbInv, r
  <2>4. QED
    BY <2>2, <2>3
<1>11. Parts(h, shm'.h0, shm'.back, whdr'.cur, Cur(wal'), shm'.idx, db')
  <2>1. ~InWrite(h) /\ ~Knows(h) /\ h.job # "txn"
    BY <1>2, <1>5 DEF InWrite, Knows
  <2>2. OtherInv(h, shm'.h0, shm'.back, whdr'.cur, Cur(wal'), shm'.idx, db')
    BY <1>1, <1>5, <1>6, <1>7, <1>10, <2>1 DEF OtherInv
  <2>3. QED
    BY <1>5, <2>1, <2>2 DEF Parts, ResetInv, CkptInv, CopyInv
<1>12. \A d \in Conns : d # c => Fresh(h, con[d], shm'.h0) /\ Fresh(con[d], h, shm'.h0)
  BY <1>2, Alone, <1>5 DEF Fresh, Knows
<1>13. DbInv(shm'.h0, shm'.back, whdr'.cur, Cur(wal'), db')
  BY <1>1, <1>6, BeforeShm
<1>14. FitsLog(shm'.h0, whdr'.cur, Cur(wal'), shm'.idx)
  BY <1>1, <1>6, <1>7
<1>15. QED
  BY <1>1, <1>8, <1>9, <1>11, <1>12, <1>13, <1>14, OneStep

\* The first copy: from now on the recovered log is the log.
LEMMA RecoverHdrKeeps ==
  ASSUME IInv, IInv', JInv, NEW c \in Conns, RecoverHdr(c)
  PROVE  JInv'
<1> DEFINE g == con[c]
           h == [g EXCEPT !.pc = "recover1"]
<1>1. /\ con' = [con EXCEPT ![c] = h] /\ g.pc = "recover0" /\ UNCHANGED <<db, whdr, wal>>
      /\ shm' = [shm EXCEPT !.h0 = g.hdr]
  BY Before DEF RecoverHdr, Goto, At, log
<1>2. /\ g.job \in {"begin", "ckpt"} /\ c \in excl[WRITE_LOCK] /\ c \in excl[CKPT_LOCK]
      /\ ~InWrite(g) /\ g.redo = 0 /\ g.first = 0 /\ g.dirty \subseteq Pages
      /\ GoodHdr(g.hdr)
  BY <1>1, Before DEF JobInv, Owns, InWrite, DataInv
<1>3. /\ g.hdr.mx >= shm.h0.mx /\ FitsLog(g.hdr, whdr.cur, Cur(wal), shm.idx)
      /\ g.hdr.mx = 0 => Synced(db)
  BY <1>1, Before DEF Parts, OtherInv
<1>4. /\ h.pc = "recover1" /\ h.job = g.job /\ h.hdr = g.hdr /\ h.redo = 0 /\ h.first = 0
      /\ h.dirty \subseteq Pages
  BY <1>2, Before DEF Fields
<1>5. /\ shm'.h0 = g.hdr /\ shm'.back = shm.back /\ shm'.idx = shm.idx
      /\ h = con'[c] /\ JobInv(con'[c])
  BY <1>1, BeforeShm, Before DEF ShmInv, IInv, ConInv
<1> HIDE DEF h
<1>6. Allowed(c)
  BY <1>1, <1>2, <1>5 DEF Allowed
<1>7. shm.back = 0 \/ shm.back <= shm.h0.mx
  BY <1>1, <1>2, BackWithin
<1>8. BackInv(shm'.h0, shm'.back, con')
  <2>1. shm.h0.mx \in Int /\ g.hdr.mx \in Int /\ shm.back \in Nat
    BY <1>2, BeforeShm, HdrNumbers DEF AnyHdr
  <2>2. QED
    BY <1>3, <1>5, <1>7, <2>1 DEF BackInv
<1>9. DbInv(shm'.h0, shm'.back, whdr'.cur, Cur(wal'), db')
  BY <1>1, <1>2, <1>3, <1>5, <1>7, BeforeShm, DbGrows, HdrNumbers DEF GoodHdr
<1>10. Parts(h, shm'.h0, shm'.back, whdr'.cur, Cur(wal'), shm'.idx, db')
  <2>1. ~InWrite(h) /\ ~Knows(h) /\ h.job # "txn"
    BY <1>2, <1>4 DEF InWrite, Knows
  <2>2. OtherInv(h, shm'.h0, shm'.back, whdr'.cur, Cur(wal'), shm'.idx, db')
    BY <1>1, <1>4, <1>5, <2>1 DEF OtherInv
  <2>3. QED
    BY <1>4, <2>1, <2>2 DEF Parts, ResetInv, CkptInv, CopyInv
<1>11. \A d \in Conns : d # c => Fresh(h, con[d], shm'.h0) /\ Fresh(con[d], h, shm'.h0)
  BY <1>2, Alone, <1>4 DEF Fresh, Knows
<1>12. FitsLog(shm'.h0, whdr'.cur, Cur(wal'), shm'.idx)
  BY <1>1, <1>3, <1>5
<1>13. QED
  BY <1>1, <1>6, <1>8, <1>9, <1>10, <1>11, <1>12, OneStep

\* nBackfill is 0 again.
LEMMA RecoverInfoKeeps ==
  ASSUME IInv, IInv', JInv, NEW c \in Conns, RecoverInfo(c)
  PROVE  JInv'
<1> DEFINE g == con[c]
           h == [g EXCEPT !.pc = IF g.job = "ckpt" THEN "start" ELSE "pick",
                          !.cache = IF g.job = "begin" THEN NoImage ELSE g.cache,
                          !.changed = g.job = "ckpt"]
<1>1. /\ con' = [con EXCEPT ![c] = h] /\ g.pc = "recover1" /\ UNCHANGED <<db, whdr, wal>>
      /\ shm'.h0 = shm.h0 /\ shm'.back = 0 /\ shm'.idx = shm.idx
  BY BeforeShm DEF RecoverInfo, Put, At, log, ShmInv
<1>2. /\ g.job \in {"begin", "ckpt"} /\ c \in excl[WRITE_LOCK] /\ c \in excl[CKPT_LOCK]
      /\ ~InWrite(g) /\ g.redo = 0 /\ g.first = 0 /\ g.dirty \subseteq Pages
      /\ g.job # "ckpt" => g.mode = Passive
  BY <1>1, Before DEF JobInv, Owns, InWrite
<1>3. g.hdr = shm.h0
  BY <1>1, Before DEF Parts, OtherInv
<1>4. /\ h.pc = IF g.job = "ckpt" THEN "start" ELSE "pick"
      /\ h.job = g.job /\ h.hdr = g.hdr /\ h.redo = g.redo /\ h.first = g.first
      /\ h.dirty = g.dirty /\ h.mode = g.mode
  <2>1. g = [f \in Fields |-> g[f]]
    BY Before
  <2>2. QED
    BY <2>1, ZenonT(30) DEF Fields
<1>5. h = con'[c] /\ JobInv(con'[c])
  BY <1>1, Before DEF IInv, ConInv
<1> HIDE DEF h
<1>6. Allowed(c)
  BY <1>1, <1>2 DEF Allowed
<1>7. /\ FitsLog(shm'.h0, whdr'.cur, Cur(wal'), shm'.idx)
      /\ DbInv(shm'.h0, shm'.back, whdr'.cur, Cur(wal'), db')
      /\ BackInv(shm'.h0, shm'.back, con')
  BY <1>1, BeforeShm, DbBackZero DEF BackInv
<1>8. Parts(h, shm'.h0, shm'.back, whdr'.cur, Cur(wal'), shm'.idx, db')
  <2>1. CASE g.job = "begin"
    BY <1>2, <1>4, <1>5, <2>1, HarmlessParts DEF Harmless
  <2>2. CASE g.job = "ckpt"
    <3>1. Older(h.hdr, shm'.h0)
      BY <1>1, <1>3, <1>4, BeforeShm DEF Older
    <3>2. h.pc = "start" /\ Known(h) = h.hdr
      BY <1>4, <2>2 DEF Known
    <3>3. QED
      BY <1>1, <1>2, <1>3, <1>4, <1>5, <2>2, <3>1, <3>2, CkptParts
  <2>3. QED
    BY <1>2, <2>1, <2>2
<1>9. \A d \in Conns : d # c => Fresh(h, con[d], shm'.h0) /\ Fresh(con[d], h, shm'.h0)
  <2>1. ~InWrite(h)
    BY <1>2, <1>4 DEF InWrite
  <2>2. QED
    BY <1>2, <2>1, Alone DEF Fresh
<1>10. QED
  BY <1>1, <1>6, <1>7, <1>8, <1>9, OneStep

-----------------------------------------------------------------------------
\* walTryBeginRead()

\* What a writer has that begins to read again, after it has left slot 0.
LEMMA AgainParts ==
  ASSUME NEW g, InWrite(g), NEW h0, NEW back, NEW salt, NEW w, NEW idx, NEW d,
         Parts(g, h0, back, salt, w, idx, d),
         NEW h, h.job = "again", JobInv(h), h.hdr = h0, h.hdr = g.hdr, h.todo = g.todo,
         h.todo # <<>>, IsASeq(g.todo), h.first = g.first, h.redo = g.redo, h.added = g.added,
         h.dirty = g.dirty, h.mode = Passive
  PROVE  Parts(h, h0, back, salt, w, idx, d) /\ InWrite(h) /\ ~Knows(h)
<1>1. /\ InWrite(h) /\ ~Knows(h) /\ h.pc \in {"pick"} \cup MarkPcs
      /\ g.dirty \subseteq Pages
  BY DEF InWrite, Knows, JobInv, Parts, OtherInv
<1>2. WriterInv(h, h0, salt, w, idx)
  <2>1. WriterInv(g, h0, salt, w, idx) /\ IsASeq(g.todo)
    BY DEF Parts
  <2>2. QED
    BY <1>1, <2>1 DEF WriterInv, Written1
<1>3. OtherInv(h, h0, back, salt, w, idx, d)
  BY <1>1 DEF OtherInv
<1>4. QED
  BY <1>1, <1>2, <1>3 DEF Parts, ResetInv, CkptInv, CopyInv

\* WAL_RETRY.
LEMMA RetryKeeps ==
  ASSUME IInv, IInv', JInv, NEW c \in Conns, Retry(c), Unseen,
         con[c].pc \in {"pick", "check0"} \cup MarkPcs
  PROVE  JInv'
<1> DEFINE g == con[c]
           h == [g EXCEPT !.pc = "pick", !.slot = 0, !.mark = 0]
<1>1. CASE g.job = "again"
  <2>1. con' = [con EXCEPT ![c] = h]
    BY <1>1 DEF Retry, Put
  <2>2. /\ h.job = "again" /\ h.hdr = g.hdr /\ h.todo = g.todo /\ h.first = g.first
        /\ h.redo = g.redo /\ h.added = g.added /\ h.dirty = g.dirty /\ h.mode = g.mode
    BY <1>1, Before DEF Fields
  <2>3. h = con'[c] /\ JobInv(con'[c])
    BY <2>1, Before DEF IInv, ConInv
  <2>4. /\ InWrite(g) /\ g.hdr = shm.h0 /\ g.todo # <<>> /\ g.mode = Passive /\ IsASeq(g.todo)
        /\ Parts(g, shm.h0, shm.back, whdr.cur, Cur(wal), shm.idx, db)
    BY <1>1, Before DEF InWrite, Parts, WriterInv, JobInv
  <2> HIDE DEF h, g
  <2>5. /\ Parts(h, shm.h0, shm.back, whdr.cur, Cur(wal), shm.idx, db)
        /\ InWrite(h) /\ ~Knows(h)
    BY <2>2, <2>3, <2>4, AgainParts
  <2>6. Heir(h, g, shm.h0)
    BY <2>2, <2>4, <2>5 DEF Heir
  <2>7. QED
    BY <2>1, <2>5, <2>6, QuietStep DEF g
<1>2. CASE g.job # "again"
  BY <1>2, RestStep DEF Retry
<1>3. QED
  BY <1>1, <1>2

\* The transaction is open.
LEMMA OpenedKeeps ==
  ASSUME IInv, IInv', JInv, NEW c \in Conns, NEW min, Opened(c, con[c].slot, min), Unseen,
         con[c].pc \in {"check0", "verify"}
  PROVE  JInv'
<1> DEFINE g == con[c]
           now == Image(min, IF g.slot = 0 THEN 0 ELSE g.hdr.mx)
           h == [g EXCEPT !.pc = IF g.job = "again" THEN ToWrite(g) ELSE "read",
             !.job = "txn", !.slot = g.slot, !.min = min, !.mark = 0,
             !.cache = IF g.cache = NoImage THEN now ELSE g.cache]
<1>1. con' = [con EXCEPT ![c] = h]
  BY DEF Opened, Put
<1>2. /\ h.job = "txn" /\ h.slot = g.slot
      /\ h.pc = IF g.job = "again" THEN ToWrite(g) ELSE "read"
      /\ h.hdr = g.hdr /\ h.tmp = g.tmp /\ h.added = g.added /\ h.mode = g.mode
      /\ h.todo = g.todo /\ h.com = g.com /\ h.first = g.first /\ h.redo = g.redo
      /\ h.dirty = g.dirty
  <2>1. g = [f \in Fields |-> g[f]]
    BY Before
  <2>2. QED
    BY <2>1, ZenonT(30) DEF Fields
<1>3. h = con'[c] /\ JobInv(con'[c])
  BY <1>1, Before DEF IInv, ConInv
<1>4. /\ g.pc = "check0" => g.slot = 0 /\ g.job = "begin"
      /\ g.pc = "verify" => g.slot # 0
      /\ g.job \in {"begin", "again"} /\ g.mode = Passive /\ AnyHdr(g.hdr)
      /\ g.added = <<>>
      /\ g.dirty \subseteq Pages
      /\ ~InWrite(g) => g.redo = 0 /\ g.first = 0
      /\ Parts(g, shm.h0, shm.back, whdr.cur, Cur(wal), shm.idx, db)
  BY Before DEF JobInv, SlotInv, DataInv, InWrite
<1> HIDE DEF h, now
<1>5. CASE g.pc = "verify" /\ g.job = "begin"
  <2>1. Harmless(h)
    BY <1>2, <1>4, <1>5 DEF Harmless, InWrite
  <2>2. QED
    BY <1>1, <1>4, <2>1, HarmlessStep
<1>6. CASE g.pc = "check0"
  <2>1. /\ h.pc = "read" /\ ~InWrite(h) /\ ~Knows(h) /\ g.redo = 0 /\ g.first = 0
        /\ shm.back \in {0, g.hdr.mx}
    BY <1>2, <1>4, <1>6 DEF InWrite, Knows, Parts, OtherInv
  <2>2. OtherInv(h, shm.h0, shm.back, whdr.cur, Cur(wal), shm.idx, db)
    BY <1>2, <1>4, <2>1 DEF OtherInv
  <2>3. Parts(h, shm.h0, shm.back, whdr.cur, Cur(wal), shm.idx, db)
    BY <2>1, <2>2 DEF Parts, ResetInv, CkptInv, CopyInv
  <2>4. Heir(h, g, shm.h0)
    BY <2>1 DEF Heir
  <2>5. QED
    BY <1>1, <1>4, <2>3, <2>4, QuietStep
<1>7. CASE g.pc = "verify" /\ g.job = "again"
  <2>1. /\ InWrite(h) /\ ~Knows(h) /\ InWrite(g)
        /\ h.pc = IF g.hdr.mx = 0 THEN "header" ELSE "frame"
    BY <1>2, <1>7 DEF InWrite, Knows, ToWrite
  <2>2. /\ g.hdr = shm.h0 /\ g.todo # <<>> /\ IsASeq(g.todo)
        /\ WriterInv(g, shm.h0, whdr.cur, Cur(wal), shm.idx)
    BY <1>4, <1>7, <2>1 DEF Parts, WriterInv
  <2>3. h.slot # 0 /\ g.hdr.mx + Len(g.added) = g.hdr.mx /\ g.hdr.mx \in Int /\ g.hdr.mx >= -1
    BY <1>2, <1>4, <1>7, HdrNumbers
  <2>4. Written1(h, whdr.cur, Cur(wal), shm.idx)
    BY <1>2, <2>1, <2>2 DEF WriterInv, Written1
  <2>5. h.pc = "frame" => whdr.cur = h.hdr.salt /\ whdr.cur # 0
    <3>1. GoodHdr(g.hdr)
      BY <1>7, Before DEF DataInv
    <3>2. g.hdr.mx # 0 => g.hdr.mx > 0
      BY <3>1 DEF GoodHdr
    <3>3. QED
      BY <1>2, <2>1, <2>2, <2>3, <3>2 DEF WriterInv, Written1
  <2>6. WriterInv(h, shm.h0, whdr.cur, Cur(wal), shm.idx)
    BY <1>2, <2>1, <2>2, <2>3, <2>4, <2>5 DEF WriterInv
  <2>7. OtherInv(h, shm.h0, shm.back, whdr.cur, Cur(wal), shm.idx, db)
    BY <1>2, <1>4, <2>1 DEF OtherInv
  <2>8. Parts(h, shm.h0, shm.back, whdr.cur, Cur(wal), shm.idx, db)
    BY <2>1, <2>6, <2>7 DEF Parts, ResetInv, CkptInv, CopyInv
  <2>9. Heir(h, g, shm.h0)
    BY <1>2, <2>1 DEF Heir
  <2>10. QED
    BY <1>1, <1>4, <1>7, <2>8, <2>9, QuietStep
<1>8. QED
  BY <1>4, <1>5, <1>6, <1>7

\* All of the log is in the database file.
LEMMA PickDbKeeps ==
  ASSUME IInv, IInv', JInv, NEW c \in Conns, PickDb(c)
  PROVE  JInv'
<1> DEFINE g == con[c]
           h == [g EXCEPT !.pc = "check0"]
<1>1. /\ con' = [con EXCEPT ![c] = h] /\ g.pc = "pick" /\ g.job = "begin" /\ Unseen
      /\ shm.back = g.hdr.mx
  BY SameFiles, Before DEF PickDb, Goto, At
<1>2. g.mode = Passive /\ g.dirty \subseteq Pages /\ g.redo = 0 /\ g.first = 0
  BY <1>1, Before DEF InWrite
<1>3. /\ h.pc = "check0" /\ h.job = "begin" /\ h.hdr = g.hdr /\ h.redo = 0 /\ h.first = 0
      /\ h.dirty \subseteq Pages /\ h.mode = Passive
  BY <1>1, <1>2, Before DEF Fields
<1> HIDE DEF h
<1>4. ~InWrite(h) /\ ~Knows(h)
  BY <1>3 DEF InWrite, Knows
<1>5. OtherInv(h, shm.h0, shm.back, whdr.cur, Cur(wal), shm.idx, db)
  BY <1>1, <1>3, <1>4 DEF OtherInv
<1>6. Parts(h, shm.h0, shm.back, whdr.cur, Cur(wal), shm.idx, db)
  BY <1>3, <1>4, <1>5 DEF Parts, ResetInv, CkptInv, CopyInv
<1>7. Heir(h, g, shm.h0)
  BY <1>4 DEF Heir
<1>8. QED
  BY <1>1, <1>6, <1>7, QuietStep

\* The lock of mark 0 is held: either the header is still the same and the
\* database file alone is read, or the attempt starts over.
LEMMA CheckDbKeeps ==
  ASSUME IInv, IInv', JInv, NEW c \in Conns, CheckDb(c)
  PROVE  JInv'
<1>1. Unseen /\ con[c].pc = "check0" /\ con[c].slot = 0
  BY SameFiles, Before DEF CheckDb, At, JobInv, SlotInv
<1>2. Opened(c, 0, 1) \/ Retry(c)
  BY DEF CheckDb
<1>3. QED
  BY <1>1, <1>2, OpenedKeeps, RetryKeeps

\* Moves from one read-mark to the next, in a read that begins.
LEMMA MarkMoves ==
  ASSUME IInv, IInv', JInv, NEW c \in Conns, con[c].pc \in {"pick", "lockmark", "min"},
         NEW h, con' = [con EXCEPT ![c] = h], Unseen, h.pc \in MarkPcs,
         h.job = con[c].job, h.hdr = con[c].hdr, h.todo = con[c].todo,
         h.first = con[c].first, h.redo = con[c].redo, h.added = con[c].added,
         h.dirty = con[c].dirty, h.mode = con[c].mode
  PROVE  JInv'
<1> DEFINE g == con[c]
<1>1. h = con'[c] /\ JobInv(con'[c])
  BY Before DEF IInv, ConInv
<1>2. /\ g.job \in {"begin", "again"} /\ g.mode = Passive
      /\ g.dirty \subseteq Pages
      /\ ~InWrite(g) => g.redo = 0 /\ g.first = 0
      /\ Parts(g, shm.h0, shm.back, whdr.cur, Cur(wal), shm.idx, db)
  BY Before DEF JobInv
<1>3. CASE g.job = "begin"
  <2>1. Harmless(h)
    BY <1>2, <1>3 DEF Harmless, InWrite
  <2>2. QED
    BY <2>1, HarmlessStep
<1>4. CASE g.job = "again"
  <2>1. InWrite(g) /\ g.hdr = shm.h0 /\ g.todo # <<>> /\ IsASeq(g.todo)
    BY <1>2, <1>4 DEF InWrite, Parts, WriterInv
  <2>2. /\ Parts(h, shm.h0, shm.back, whdr.cur, Cur(wal), shm.idx, db)
        /\ InWrite(h) /\ ~Knows(h)
    BY <1>1, <1>2, <1>4, <2>1, AgainParts
  <2>3. Heir(h, g, shm.h0)
    BY <2>1, <2>2 DEF Heir
  <2>4. QED
    BY <2>2, <2>3, QuietStep
<1>5. QED
  BY <1>2, <1>3, <1>4

\* A read-mark is chosen, and moved forward if it may be (walTryBeginRead()).
LEMMA PickMarkKeeps ==
  ASSUME IInv, IInv', JInv, NEW c \in Conns, PickMark(c)
  PROVE  JInv'
<1> DEFINE g == con[c]
           h(i, mark) == [g EXCEPT !.pc = "lockmark", !.slot = i, !.mark = mark]
<1>1. /\ g.pc = "pick" /\ Unseen
      /\ Retry(c) \/ \E i, mark : con' = [con EXCEPT ![c] = h(i, mark)]
  <2>1. Unseen
    BY BeforeShm DEF PickMark, Unseen, log, ShmInv
  <2>2. QED
    BY <2>1 DEF PickMark, Put, At
<1>2. CASE Retry(c)
  BY <1>1, <1>2, RetryKeeps
<1>3. CASE ~Retry(c)
  <2>1. PICK i, mark : con' = [con EXCEPT ![c] = h(i, mark)]
    BY <1>1, <1>3
  <2> DEFINE k == h(i, mark)
  <2>2. /\ k.pc = "lockmark" /\ k.job = g.job /\ k.hdr = g.hdr /\ k.todo = g.todo
        /\ k.first = g.first /\ k.redo = g.redo /\ k.added = g.added
        /\ k.dirty = g.dirty /\ k.mode = g.mode
    BY Before DEF Fields
  <2> HIDE DEF k
  <2>3. con' = [con EXCEPT ![c] = k]
    BY <2>1 DEF k
  <2>4. QED
    BY <1>1, <2>2, <2>3, MarkMoves
<1>4. QED
  BY <1>2, <1>3

\* The lock of the chosen mark.
LEMMA LockMarkKeeps ==
  ASSUME IInv, IInv', JInv, NEW c \in Conns, LockMark(c)
  PROVE  JInv'
<1> DEFINE g == con[c]
           h == [g EXCEPT !.pc = "min"]
<1>1. /\ g.pc = "lockmark" /\ Unseen
      /\ Retry(c) \/ con' = [con EXCEPT ![c] = h]
  BY SameFiles, Before DEF LockMark, At, Goto
<1>2. /\ h.pc = "min" /\ h.job = g.job /\ h.hdr = g.hdr /\ h.todo = g.todo
      /\ h.first = g.first /\ h.redo = g.redo /\ h.added = g.added
      /\ h.dirty = g.dirty /\ h.mode = g.mode
  BY Before DEF Fields
<1> HIDE DEF h
<1>3. QED
  BY <1>1, <1>2, RetryKeeps, MarkMoves

\* nBackfill is read, under the lock of the mark.
LEMMA LoadMinKeeps ==
  ASSUME IInv, IInv', JInv, NEW c \in Conns, LoadMin(c)
  PROVE  JInv'
<1> DEFINE g == con[c]
           h == [g EXCEPT !.pc = "verify", !.min = shm.back + 1]
<1>1. g.pc = "min" /\ Unseen /\ con' = [con EXCEPT ![c] = h]
  BY SameFiles DEF LoadMin, At, Put
<1>2. /\ h.pc = "verify" /\ h.job = g.job /\ h.hdr = g.hdr /\ h.todo = g.todo
      /\ h.first = g.first /\ h.redo = g.redo /\ h.added = g.added
      /\ h.dirty = g.dirty /\ h.mode = g.mode
  BY Before DEF Fields
<1> HIDE DEF h
<1>3. QED
  BY <1>1, <1>2, MarkMoves

\* Mark and header are read once more: the snapshot is open, or the attempt
\* starts over.
LEMMA VerifyKeeps ==
  ASSUME IInv, IInv', JInv, NEW c \in Conns, Verify(c)
  PROVE  JInv'
<1>1. Unseen /\ con[c].pc = "verify"
  BY SameFiles DEF Verify, At
<1>2. Opened(c, con[c].slot, con[c].min) \/ Retry(c)
  BY DEF Verify
<1>3. QED
  BY <1>1, <1>2, OpenedKeeps, RetryKeeps

\* The reader lets its mark go.
LEMMA EndReadKeeps ==
  ASSUME IInv, IInv', JInv, NEW c \in Conns, EndRead(c)
  PROVE  JInv'
<1>1. Unseen /\ con[c].pc = "read" /\ Rest(c, con[c].hdr, con[c].cache)
  BY SameFiles DEF EndRead, At
<1>2. QED
  BY <1>1, RestStep

-----------------------------------------------------------------------------
\* The writer, and the reset of the log

\* A writer that is not resetting the log.
LEMMA WriterParts ==
  ASSUME NEW h, JobInv(h), InWrite(h), h.pc \notin ResetPcs, h.dirty \subseteq Pages,
         h.mode = Passive,
         NEW h0, NEW back, NEW salt, NEW w, NEW idx, NEW d,
         WriterInv(h, h0, salt, w, idx),
         h.slot = 0 /\ h.pc \in {"write", "restart"} => back \in {0, h.hdr.mx}
  PROVE  Parts(h, h0, back, salt, w, idx, d) /\ ~Knows(h)
<1>1. /\ ~Knows(h) /\ h.pc \notin CopyPcs \cup RecoverPcs \cup {"lock0", "cut", "read", "check0"}
  BY DEF JobInv, InWrite, Knows
<1>2. OtherInv(h, h0, back, salt, w, idx, d)
  BY <1>1 DEF OtherInv
<1>3. QED
  BY <1>1, <1>2 DEF Parts, ResetInv, CkptInv, CopyInv

\* What a writer has before a step, and what it owns.
LEMMA BeforeWrite ==
  ASSUME IInv, JInv, NEW c \in Conns, InWrite(con[c])
  PROVE  LET g == con[c]
         IN /\ WriterInv(g, shm.h0, whdr.cur, Cur(wal), shm.idx)
            /\ c \in excl[WRITE_LOCK] /\ g.mode = Passive /\ GoodHdr(g.hdr) /\ IsASeq(g.added)
            /\ g.job \in {"txn", "again"} /\ ~Knows(g)
            /\ g.pc \notin {"frame", "index"} => g.added = <<>>
            /\ g.job = "txn" /\ g.slot = 0 => c \in share[READ_LOCK(0)]
            /\ g.slot = 0 /\ g.pc \in {"write", "restart"} => shm.back \in {0, g.hdr.mx}
<1> DEFINE g == con[c]
<1>1. /\ JobInv(g) /\ SlotInv(g) /\ DataInv(g) /\ MarkInv(g, shm)
      /\ \A s \in Owns(g) : c \in excl[s]
      /\ Shares(g) => c \in share[READ_LOCK(g.slot)]
      /\ Parts(g, shm.h0, shm.back, whdr.cur, Cur(wal), shm.idx, db)
      /\ g.job # "ckpt" => g.mode = Passive
  BY Before
<1> HIDE DEF g
<1>2. /\ g.job \in {"txn", "again"} /\ InWrite(g)
      /\ g.pc \notin {"idle", "closed", "copy1", "badhdr", "recover"}
  BY <1>1 DEF InWrite, JobInv, g
<1>3. /\ WriterInv(g, shm.h0, whdr.cur, Cur(wal), shm.idx)
      /\ g.slot = 0 /\ g.pc \in {"write", "restart"} => shm.back \in {0, g.hdr.mx}
  BY <1>1, <1>2 DEF Parts, OtherInv, JobInv
<1>4. c \in excl[WRITE_LOCK] /\ g.mode = Passive /\ GoodHdr(g.hdr) /\ IsASeq(g.added)
  BY <1>1, <1>2 DEF Owns, DataInv
<1>5. /\ ~Knows(g)
      /\ g.pc \notin {"frame", "index"} => g.added = <<>>
      /\ g.job = "txn" /\ g.slot = 0 => c \in share[READ_LOCK(0)]
  BY <1>1, <1>2 DEF Knows, DataInv, Shares
<1>6. QED
  BY <1>2, <1>3, <1>4, <1>5 DEF g

\* A step of a writer that nobody sees.
LEMMA WriterQuiet ==
  ASSUME IInv, IInv', JInv, NEW c \in Conns, NEW h, con' = [con EXCEPT ![c] = h], Unseen,
         InWrite(h), h.pc \notin ResetPcs, h.dirty \subseteq Pages, h.mode = Passive,
         h.hdr.salt = shm.h0.salt \/ (InWrite(con[c]) /\ h.hdr.salt = con[c].hdr.salt),
         WriterInv(h, shm.h0, whdr.cur, Cur(wal), shm.idx), con[c].pc # "reset1",
         h.slot = 0 /\ h.pc \in {"write", "restart"} => shm.back \in {0, h.hdr.mx}
  PROVE  JInv'
<1>1. JobInv(h)
  BY DEF IInv, ConInv
<1>2. /\ Parts(h, shm.h0, shm.back, whdr.cur, Cur(wal), shm.idx, db)
      /\ ~Knows(h)
  BY <1>1, WriterParts
<1>3. Heir(h, con[c], shm.h0)
  BY <1>2 DEF Heir
<1>4. QED
  BY <1>2, <1>3, QuietStep

\* The log has what the header says.
LEMMA HdrWritten ==
  ASSUME NEW g, GoodHdr(g.hdr), g.added = <<>>, g.pc \notin {"frame", "index", "publish"},
         NEW salt, NEW w, NEW idx, FitsLog(g.hdr, salt, w, idx)
  PROVE  Written1(g, salt, w, idx)
<1>1. g.hdr.mx \in Nat /\ Len(g.added) = 0 /\ g.hdr.mx + Len(g.added) = g.hdr.mx
  BY Bounds DEF GoodHdr
<1>2. g.hdr.mx > 0 => Fits(salt, w, 1)
  BY <1>1 DEF FitsLog
<1>3. g.hdr.mx > 0 => salt = g.hdr.salt /\ salt # 0
  BY <1>2 DEF FitsLog, Fits
<1>4. QED
  BY <1>1, <1>3 DEF Written1, FitsLog

\* A reader whose snapshot is the newest becomes the writer.
LEMMA BeginWriteKeeps ==
  ASSUME IInv, IInv', JInv, NEW c \in Conns, BeginWrite(c)
  PROVE  JInv'
<1> DEFINE g == con[c]
           h == [g EXCEPT !.pc = "write"]
<1>1. /\ con' = [con EXCEPT ![c] = h] /\ g.pc = "read" /\ Unseen /\ g.hdr = shm.h0
  BY SameFiles, Before DEF BeginWrite, Goto, At
<1>2. /\ g.job = "txn" /\ g.mode = Passive /\ g.dirty \subseteq Pages /\ g.redo = 0
      /\ g.first = 0 /\ g.added = <<>> /\ GoodHdr(g.hdr)
      /\ g.slot = 0 => shm.back \in {0, g.hdr.mx}
  BY <1>1, Before DEF JobInv, InWrite, DataInv, Parts, OtherInv
<1>3. /\ h.pc = "write" /\ h.job = "txn" /\ h.hdr = g.hdr /\ h.redo = 0 /\ h.first = 0
      /\ h.dirty = g.dirty /\ h.mode = Passive /\ h.slot = g.slot /\ h.added = <<>>
  BY <1>1, <1>2, Before DEF Fields
<1> HIDE DEF h
<1>4. Written1(h, whdr.cur, Cur(wal), shm.idx)
  BY <1>1, <1>2, <1>3, HdrWritten, BeforeShm
<1>5. \A n \in 1..h.hdr.mx + Len(h.added) : ~(n > shm.h0.mx)
  BY <1>1, <1>3, BeforeShm
<1>6. WriterInv(h, shm.h0, whdr.cur, Cur(wal), shm.idx) /\ InWrite(h)
  BY <1>1, <1>3, <1>4, <1>5 DEF WriterInv, InWrite
<1>7. QED
  BY <1>1, <1>2, <1>3, <1>6, WriterQuiet

\* A page is changed in the cache; no file changes.
LEMMA WriteKeeps ==
  ASSUME IInv, IInv', JInv, NEW c \in Conns, NEW p \in Pages, Write(c, p)
  PROVE  JInv'
<1> DEFINE g == con[c]
           h == [g EXCEPT !.cache = [g.cache EXCEPT ![p] = Content(c)],
                          !.dirty = g.dirty \cup {p}]
<1>1. con' = [con EXCEPT ![c] = h] /\ g.pc = "write" /\ Unseen
  BY SameFiles DEF Write, Put, At
<1>2. g.job = "txn" /\ InWrite(g) /\ g.dirty \subseteq Pages
  BY <1>1, Before DEF JobInv, InWrite
<1>3. /\ h.pc = "write" /\ h.job = "txn" /\ h.hdr = g.hdr /\ h.redo = g.redo
      /\ h.first = g.first /\ h.dirty \subseteq Pages /\ h.mode = g.mode /\ h.slot = g.slot
      /\ h.added = g.added
  BY <1>1, <1>2, Before DEF Fields
<1> HIDE DEF h
<1>4. /\ WriterInv(g, shm.h0, whdr.cur, Cur(wal), shm.idx) /\ g.mode = Passive
      /\ g.slot = 0 => shm.back \in {0, g.hdr.mx}
  BY <1>1, <1>2, BeforeWrite
<1>5. WriterInv(h, shm.h0, whdr.cur, Cur(wal), shm.idx) /\ InWrite(h)
  BY <1>1, <1>3, <1>4 DEF WriterInv, Written1, InWrite
<1>6. QED
  BY <1>1, <1>2, <1>3, <1>4, <1>5, WriterQuiet

\* walFrames() is called.
LEMMA FlushKeeps ==
  ASSUME IInv, IInv', JInv, NEW c \in Conns, con[c].pc = "write",
         NEW todo, IsASeq(todo), todo # <<>>, NEW com, Flush(c, todo, com), Unseen
  PROVE  JInv'
<1> DEFINE g == con[c]
           first == IF g.hdr # shm.h0 THEN shm.h0.mx + 1 ELSE 0
           h == [g EXCEPT !.pc = "restart", !.todo = todo, !.com = com, !.added = <<>>,
                          !.first = first]
<1>1. con' = [con EXCEPT ![c] = h]
  BY DEF Flush, Put, Spilled
<1>2. g.job = "txn" /\ InWrite(g) /\ g.dirty \subseteq Pages
  BY Before DEF JobInv, InWrite
<1>3. /\ WriterInv(g, shm.h0, whdr.cur, Cur(wal), shm.idx) /\ g.mode = Passive
      /\ g.slot = 0 => shm.back \in {0, g.hdr.mx}
      /\ g.added = <<>>
  BY <1>2, BeforeWrite
<1>4. first \in {0, shm.h0.mx + 1} /\ (g.slot = 0 => first = 0)
  BY <1>3 DEF WriterInv
<1> HIDE DEF first
<1>5. /\ h.pc = "restart" /\ h.job = "txn" /\ h.hdr = g.hdr /\ h.redo = g.redo
      /\ h.first = first /\ h.dirty = g.dirty /\ h.mode = g.mode /\ h.slot = g.slot
      /\ h.added = <<>> /\ h.todo = todo
  BY <1>2, Before DEF Fields
<1> HIDE DEF h
<1>6. Written1(h, whdr.cur, Cur(wal), shm.idx)
  BY <1>3, <1>5 DEF WriterInv, Written1
<1>7. WriterInv(h, shm.h0, whdr.cur, Cur(wal), shm.idx) /\ InWrite(h)
  BY <1>3, <1>4, <1>5, <1>6 DEF WriterInv, InWrite
<1>8. QED
  BY <1>1, <1>2, <1>3, <1>5, <1>7, WriterQuiet

\* The cache gives one dirty page to the log before the commit.
LEMMA SpillKeeps ==
  ASSUME IInv, IInv', JInv, NEW c \in Conns, NEW p \in Pages, Spill(c, p)
  PROVE  JInv'
<1>1. con[c].pc = "write" /\ Flush(c, <<p>>, FALSE) /\ Unseen
  BY SameFiles DEF Spill, At
<1>2. IsASeq(<<p>>) /\ <<p>> # <<>>
  BY DEF IsASeq
<1>3. QED
  BY <1>1, <1>2, FlushKeeps

\* All dirty pages are given to the log, or page 1 where there is none.
LEMMA CommitKeeps ==
  ASSUME IInv, IInv', JInv, NEW c \in Conns, Commit(c)
  PROVE  JInv'
<1> DEFINE g == con[c]
           pages == IF g.dirty = {} THEN {1} ELSE g.dirty
           todo == InOrder(pages)
<1>1. g.pc = "write" /\ Flush(c, todo, TRUE) /\ Unseen
  BY SameFiles DEF Commit, At
<1>2. Cardinality(pages) \in Nat /\ Cardinality(pages) # 0
  <2>1. g.dirty \subseteq Pages /\ 1 \in Pages /\ IsFiniteSet(Pages)
    BY Before, WalAssumption DEF WalAssumption
  <2>2. pages \subseteq Pages /\ pages # {}
    BY <2>1
  <2> HIDE DEF pages
  <2>3. IsFiniteSet(pages)
    BY <2>1, <2>2, FS_Subset
  <2>4. QED
    BY <2>2, <2>3, FS_CardinalityType, FS_EmptySet
<1> HIDE DEF pages
<1>3. IsASeq(todo) /\ todo # <<>>
  <2>1. Len(todo) = Cardinality(pages)
    BY <1>2 DEF InOrder
  <2>2. todo = [n \in 1..Len(todo) |-> todo[n]]
    BY <1>2, <2>1 DEF InOrder
  <2>3. QED
    BY <1>2, <2>1, <2>2 DEF IsASeq
<1>4. QED
  BY <1>1, <1>3, FlushKeeps

\* The log is started again by a writer that reads nothing of it and keeps every
\* other reader away (walRestartLog()): then all of it was backfilled.
LEMMA RestartLogKeeps ==
  ASSUME IInv, IInv', JInv, NEW c \in Conns, RestartLog(c)
  PROVE  JInv'
<1> DEFINE g == con[c]
<1>1. /\ g.pc = "restart" /\ Unseen /\ g.job = "txn" /\ InWrite(g)
      /\ g.dirty \subseteq Pages
  BY SameFiles, Before DEF RestartLog, At, JobInv, InWrite
<1>2. /\ WriterInv(g, shm.h0, whdr.cur, Cur(wal), shm.idx) /\ g.mode = Passive
      /\ GoodHdr(g.hdr) /\ g.added = <<>> /\ g.todo # <<>> /\ IsASeq(g.todo)
      /\ g.slot = 0 => g.hdr = shm.h0 /\ g.first = 0 /\ shm.back \in {0, g.hdr.mx}
  BY <1>1, BeforeWrite DEF WriterInv
<1>3. CASE g.slot # 0
  <2> DEFINE h == [g EXCEPT !.pc = ToWrite(g)]
  <2>1. con' = [con EXCEPT ![c] = h]
    BY <1>3, Before DEF RestartLog, Goto
  <2>2. /\ h.pc = (IF g.hdr.mx = 0 THEN "header" ELSE "frame")
        /\ h.job = "txn" /\ h.hdr = g.hdr /\ h.redo = g.redo /\ h.slot = g.slot
        /\ h.first = g.first /\ h.dirty = g.dirty /\ h.mode = g.mode /\ h.com = g.com
        /\ h.added = g.added /\ h.todo = g.todo
    BY <1>1, Before DEF Fields, ToWrite
  <2> HIDE DEF h
  <2>3. g.hdr.mx \in Nat /\ Len(g.added) = 0 /\ g.hdr.mx + Len(g.added) = g.hdr.mx
    BY <1>2, Bounds DEF GoodHdr
  <2>4. Written1(h, whdr.cur, Cur(wal), shm.idx)
    BY <1>2, <2>2 DEF WriterInv, Written1
  <2>5. h.pc = "frame" => whdr.cur = h.hdr.salt /\ whdr.cur # 0
    <3>1. Written1(g, whdr.cur, Cur(wal), shm.idx)
      BY <1>2 DEF WriterInv
    <3>2. g.hdr.mx # 0 => g.hdr.mx + Len(g.added) > 0
      BY <2>3
    <3>3. QED
      BY <2>2, <3>1, <3>2 DEF Written1
  <2>6. WriterInv(h, shm.h0, whdr.cur, Cur(wal), shm.idx) /\ InWrite(h)
    BY <1>1, <1>2, <1>3, <2>2, <2>4, <2>5 DEF WriterInv, InWrite
  <2>7. QED
    BY <1>1, <1>2, <1>3, <2>1, <2>2, <2>6, WriterQuiet
<1>4. CASE g.slot = 0 /\ shm.back > 0 /\ \A s \in ReadLocks : CanOwn(s)
  <2> DEFINE h == [g EXCEPT !.pc = "reset"]
  <2>1. con' = [con EXCEPT ![c] = h]
    BY <1>4, Before DEF RestartLog, Goto
  <2>2. /\ h.pc = "reset" /\ h.job = "txn" /\ h.hdr = g.hdr /\ h.redo = g.redo
        /\ h.slot = g.slot /\ h.first = g.first /\ h.dirty = g.dirty /\ h.mode = g.mode
        /\ h.added = g.added /\ h.todo = g.todo
    BY <1>1, Before DEF Fields
  <2> HIDE DEF h
  <2>3. Written1(h, whdr.cur, Cur(wal), shm.idx)
    BY <1>2, <2>2 DEF WriterInv, Written1
  <2>4. WriterInv(h, shm.h0, whdr.cur, Cur(wal), shm.idx) /\ InWrite(h) /\ ~Knows(h)
    BY <1>1, <1>2, <1>4, <2>2, <2>3 DEF WriterInv, InWrite, Knows
  <2>5. ResetInv(h, shm.h0, shm.back)
    BY <1>2, <1>4, <2>2, BeforeShm DEF ResetInv
  <2>6. OtherInv(h, shm.h0, shm.back, whdr.cur, Cur(wal), shm.idx, db)
    BY <1>1, <1>2, <2>2, <2>4 DEF OtherInv
  <2>7. Parts(h, shm.h0, shm.back, whdr.cur, Cur(wal), shm.idx, db)
    BY <2>2, <2>4, <2>5, <2>6 DEF Parts, CkptInv, CopyInv
  <2>8. Heir(h, g, shm.h0)
    BY <1>1, <2>2, <2>4 DEF Heir
  <2>9. QED
    BY <1>1, <2>1, <2>7, <2>8, QuietStep
<1>5. CASE g.slot = 0 /\ ~(shm.back > 0 /\ \A s \in ReadLocks : CanOwn(s))
  <2> DEFINE h == [g EXCEPT !.pc = "pick", !.job = "again"]
  <2>1. con' = [con EXCEPT ![c] = h]
    BY <1>5 DEF RestartLog, Put
  <2>2. /\ h.job = "again" /\ h.hdr = g.hdr /\ h.todo = g.todo /\ h.first = g.first
        /\ h.redo = g.redo /\ h.added = g.added /\ h.dirty = g.dirty /\ h.mode = g.mode
    BY <1>1, Before DEF Fields
  <2>3. h = con'[c] /\ JobInv(con'[c])
    BY <2>1, Before DEF IInv, ConInv
  <2>4. Parts(g, shm.h0, shm.back, whdr.cur, Cur(wal), shm.idx, db)
    BY Before
  <2> HIDE DEF h, g
  <2>5. /\ Parts(h, shm.h0, shm.back, whdr.cur, Cur(wal), shm.idx, db)
        /\ InWrite(h) /\ ~Knows(h)
    BY <1>1, <1>2, <1>5, <2>2, <2>3, <2>4, AgainParts
  <2>6. Heir(h, g, shm.h0)
    BY <1>2, <1>5, <2>2, <2>5 DEF Heir
  <2>7. QED
    BY <1>1, <2>1, <2>5, <2>6, QuietStep DEF g
<1>6. QED
  BY <1>3, <1>4, <1>5

\* What a connection has that resets the log.
LEMMA BeforeReset ==
  ASSUME IInv, JInv, NEW c \in Conns, con[c].pc \in ResetPcs
  PROVE  LET g == con[c]
         IN /\ g.job = "ckpt" \/ (g.job = "txn" /\ InWrite(g))
            /\ c \in excl[WRITE_LOCK] /\ ~Knows(g) /\ GoodHdr(g.hdr) /\ g.added = <<>>
            /\ g.job = "ckpt" => c \in excl[CKPT_LOCK] /\ ~InWrite(g)
            /\ g.job = "txn" =>
                 /\ c \in share[READ_LOCK(0)] /\ g.slot = 0 /\ g.mode = Passive
                 /\ WriterInv(g, shm.h0, whdr.cur, Cur(wal), shm.idx)
                 /\ g.todo # <<>> /\ IsASeq(g.todo)
            /\ ResetInv(g, shm.h0, shm.back)
            /\ g.first = 0 /\ g.dirty \subseteq Pages
<1> DEFINE g == con[c]
<1>1. /\ JobInv(g) /\ SlotInv(g) /\ DataInv(g)
      /\ \A s \in Owns(g) : c \in excl[s]
      /\ Shares(g) => c \in share[READ_LOCK(g.slot)]
      /\ Parts(g, shm.h0, shm.back, whdr.cur, Cur(wal), shm.idx, db)
      /\ g.dirty \subseteq Pages
      /\ ~InWrite(g) => g.redo = 0 /\ g.first = 0
      /\ g.job # "ckpt" => g.mode = Passive
      /\ g.pc \in ResetPcs
  BY Before
<1> HIDE DEF g
<1>2. g.job = "ckpt" \/ (g.job = "txn" /\ InWrite(g))
  BY <1>1 DEF JobInv, InWrite
<1>3. /\ c \in excl[WRITE_LOCK] /\ ~Knows(g) /\ GoodHdr(g.hdr) /\ g.added = <<>>
      /\ g.job = "ckpt" => c \in excl[CKPT_LOCK] /\ ~InWrite(g)
  BY <1>1 DEF Owns, Knows, DataInv, InWrite
<1>4. g.job = "txn" => c \in share[READ_LOCK(0)] /\ g.slot = 0 /\ g.mode = Passive
  BY <1>1 DEF Shares, SlotInv
<1>5. g.job = "txn" => /\ WriterInv(g, shm.h0, whdr.cur, Cur(wal), shm.idx)
                       /\ g.todo # <<>> /\ IsASeq(g.todo) /\ g.first = 0
  BY <1>1, <1>2 DEF Parts, WriterInv
<1>6. ResetInv(g, shm.h0, shm.back)
  BY <1>1 DEF Parts
<1>7. QED
  BY <1>1, <1>2, <1>3, <1>4, <1>5, <1>6 DEF g

\* What is known of a connection in the middle of a reset.
LEMMA ResetParts ==
  ASSUME NEW h, h.pc \in ResetPcs, h.job \in {"txn", "ckpt"}, h.dirty \subseteq Pages,
         h.first = 0, h.redo = 0, h.added = <<>>,
         h.job = "txn" => h.todo # <<>> /\ IsASeq(h.todo),
         GoodHdr(h.hdr), NEW h0, NEW back, NEW salt, NEW w, NEW idx, NEW d,
         ResetInv(h, h0, back),
         h.hdr.mx = 0 /\ h.hdr.sum = <<>>
  PROVE  Parts(h, h0, back, salt, w, idx, d) /\ ~Knows(h)
<1>1. /\ Len(h.added) = 0 /\ ~Knows(h) /\ h.hdr.mx + Len(h.added) = 0
      /\ h.pc \notin {"write", "restart", "header", "synchdr", "frame", "index", "publish",
                      "copy1", "start", "copied", "check0", "read", "recover0", "recover1"}
                      \cup SafePcs
  BY DEF Knows
<1>2. Written1(h, salt, w, idx)
  BY <1>1, ChainZero DEF Written1
<1>3. InWrite(h) => WriterInv(h, h0, salt, w, idx)
  BY <1>1, <1>2 DEF WriterInv, InWrite
<1>4. OtherInv(h, h0, back, salt, w, idx, d)
  BY <1>1 DEF OtherInv
<1>5. QED
  BY <1>1, <1>3, <1>4 DEF Parts, CkptInv, CopyInv

\* The new header has a salt that nobody knows.
LEMMA ResetHdrKeeps ==
  ASSUME IInv, IInv', JInv, NEW c \in Conns, ResetHdr(c)
  PROVE  JInv'
<1> DEFINE g == con[c]
           H == Hdr(NewSalt, 0, <<>>, g.hdr.chg)
           h == [g EXCEPT !.pc = "reset0", !.hdr = H]
<1>1. /\ con' = [con EXCEPT ![c] = h] /\ g.pc = "reset" /\ Unseen
      /\ H.salt = NewSalt /\ H.mx = 0 /\ H.sum = <<>>
  BY BeforeShm DEF ResetHdr, Put, At, Unseen, log, ShmInv, Hdr
<1>2. /\ g.job = "ckpt" \/ (g.job = "txn" /\ InWrite(g))
      /\ g.added = <<>> /\ g.first = 0 /\ g.dirty \subseteq Pages
      /\ g.job = "ckpt" => ~InWrite(g)
      /\ g.job = "txn" => /\ WriterInv(g, shm.h0, whdr.cur, Cur(wal), shm.idx)
                          /\ g.todo # <<>> /\ IsASeq(g.todo)
      /\ g.hdr = shm.h0 /\ shm.back = shm.h0.mx
  BY <1>1, BeforeReset DEF ResetInv
<1>3. g.redo = 0
  <2>1. CASE g.job = "ckpt"
    BY <1>2, <2>1, Before
  <2>2. CASE g.job = "txn"
    <3>1. g.redo = 0 \/ g.redo \in shm.h0.mx + 1..g.hdr.mx + Len(g.added)
      BY <1>2, <2>2 DEF WriterInv
    <3>2. Len(g.added) = 0 /\ g.hdr.mx = shm.h0.mx /\ shm.h0.mx \in Int
      BY <1>2, BeforeShm
    <3>3. QED
      BY <3>1, <3>2
  <2>3. QED
    BY <1>2, <2>1, <2>2
<1>4. NewSalt \notin Salts
  BY NewSaltIs
<1>5. /\ NewSalt # shm.h0.salt
      /\ \A d \in Conns : NewSalt # con[d].hdr.salt /\ NewSalt # con[d].tmp.salt
  BY <1>4 DEF Salts
<1> HIDE DEF H
<1>6. /\ h.pc = "reset0" /\ h.job = g.job /\ h.hdr = H /\ h.redo = g.redo
      /\ h.first = g.first /\ h.dirty = g.dirty /\ h.added = g.added /\ h.todo = g.todo
  BY Before DEF Fields
<1>7. h = con'[c] /\ DataInv(con'[c])
  BY <1>1, Before DEF IInv, ConInv
<1> HIDE DEF h
<1>8. ResetInv(h, shm.h0, shm.back) /\ GoodHdr(h.hdr)
  BY <1>1, <1>2, <1>5, <1>6, <1>7 DEF ResetInv, DataInv
<1>9. Parts(h, shm.h0, shm.back, whdr.cur, Cur(wal), shm.idx, db) /\ ~Knows(h)
  BY <1>1, <1>2, <1>3, <1>6, <1>8, ResetParts
<1>10. Heir(h, g, shm.h0)
  BY <1>1, <1>5, <1>6, <1>9 DEF Heir, Known
<1>11. QED
  BY <1>1, <1>9, <1>10, QuietStep

\* The log is empty: all of it is in the database file.
LEMMA ResetHdr0Keeps ==
  ASSUME IInv, IInv', JInv, NEW c \in Conns, ResetHdr0(c)
  PROVE  JInv'
<1> DEFINE g == con[c]
           h == [g EXCEPT !.pc = "reset1"]
<1>1. /\ con' = [con EXCEPT ![c] = h] /\ g.pc = "reset0" /\ UNCHANGED <<db, whdr, wal>>
      /\ shm'.h0 = g.hdr /\ shm'.back = shm.back /\ shm'.idx = shm.idx
  BY BeforeShm, Before DEF ResetHdr0, Goto, At, log, ShmInv
<1>2. /\ g.job = "ckpt" \/ (g.job = "txn" /\ InWrite(g))
      /\ g.added = <<>> /\ g.first = 0 /\ g.dirty \subseteq Pages /\ GoodHdr(g.hdr)
      /\ g.job = "ckpt" => c \in excl[CKPT_LOCK] /\ ~InWrite(g)
      /\ g.job = "txn" => /\ WriterInv(g, shm.h0, whdr.cur, Cur(wal), shm.idx)
                          /\ g.todo # <<>> /\ IsASeq(g.todo) /\ c \in share[READ_LOCK(0)]
      /\ g.hdr.mx = 0 /\ g.hdr.sum = <<>> /\ g.hdr.salt # shm.h0.salt
      /\ shm.back = shm.h0.mx /\ c \in excl[WRITE_LOCK]
  BY <1>1, BeforeReset DEF ResetInv
<1>3. g.redo = 0
  <2>1. CASE g.job = "ckpt"
    BY <1>2, <2>1, Before
  <2>2. CASE g.job = "txn"
    <3>1. g.redo = 0 \/ g.redo \in shm.h0.mx + 1..g.hdr.mx + Len(g.added)
      BY <1>2, <2>2 DEF WriterInv
    <3>2. Len(g.added) = 0 /\ g.hdr.mx = 0 /\ shm.h0.mx \in Nat
      BY <1>2, BeforeShm
    <3>3. QED
      BY <3>1, <3>2
  <2>3. QED
    BY <1>2, <2>1, <2>2
<1>4. /\ h.pc = "reset1" /\ h.job = g.job /\ h.hdr = g.hdr /\ h.redo = g.redo
      /\ h.first = g.first /\ h.dirty = g.dirty /\ h.added = g.added /\ h.todo = g.todo
  BY Before DEF Fields
<1>5. h = con'[c]
  BY <1>1, BeforeShm
<1> HIDE DEF h
<1>6. Allowed(c)
  BY <1>1, <1>2 DEF Allowed
<1>7. ResetInv(h, shm'.h0, shm'.back)
  BY <1>1, <1>2, <1>4 DEF ResetInv
<1>8. Parts(h, shm'.h0, shm'.back, whdr'.cur, Cur(wal'), shm'.idx, db') /\ ~Knows(h)
  BY <1>2, <1>3, <1>4, <1>7, ResetParts
<1>9. FitsLog(shm'.h0, whdr'.cur, Cur(wal'), shm'.idx)
  BY <1>1, <1>2, ChainZero DEF FitsLog
<1>10. DbInv(shm'.h0, shm'.back, whdr'.cur, Cur(wal'), db')
  <2>1. Synced(db) /\ db = [p \in Pages |-> db[p]]
    BY <1>2, BeforeShm DEF DbInv
  <2>2. Backfilled(0, shm'.back, Cur(wal'), db')
    BY DEF Backfilled, IsLast
  <2>3. g.hdr # NoHdr
    BY <1>2 DEF NoHdr, Hdr
  <2>4. QED
    BY <1>1, <1>2, <2>1, <2>2, <2>3 DEF DbInv
<1>11. BackInv(shm'.h0, shm'.back, con')
  BY <1>4, <1>5 DEF BackInv
<1>12. \A d \in Conns : Fresh(h, con[d], shm'.h0) /\ Fresh(con[d], h, shm'.h0)
  BY <1>1, <1>4, <1>8 DEF Fresh
<1>13. QED
  BY <1>1, <1>6, <1>8, <1>9, <1>10, <1>11, <1>12, OneStep

\* nBackfill follows.
LEMMA ResetBackfillKeeps ==
  ASSUME IInv, IInv', JInv, NEW c \in Conns, ResetBackfill(c)
  PROVE  JInv'
<1> DEFINE g == con[c]
           h == [g EXCEPT !.pc = "reset2"]
<1>1. /\ con' = [con EXCEPT ![c] = h] /\ g.pc = "reset1" /\ UNCHANGED <<db, whdr, wal>>
      /\ shm'.h0 = shm.h0 /\ shm'.back = 0 /\ shm'.idx = shm.idx
  BY BeforeShm, Before DEF ResetBackfill, Goto, At, log, ShmInv
<1>2. /\ g.job = "ckpt" \/ (g.job = "txn" /\ InWrite(g))
      /\ g.added = <<>> /\ g.first = 0 /\ g.dirty \subseteq Pages /\ GoodHdr(g.hdr)
      /\ g.job = "ckpt" => c \in excl[CKPT_LOCK] /\ ~InWrite(g)
      /\ g.job = "txn" => /\ WriterInv(g, shm.h0, whdr.cur, Cur(wal), shm.idx)
                          /\ g.todo # <<>> /\ IsASeq(g.todo) /\ c \in share[READ_LOCK(0)]
      /\ g.hdr = shm.h0 /\ shm.h0.mx = 0 /\ c \in excl[WRITE_LOCK]
  BY <1>1, BeforeReset DEF ResetInv
<1>3. g.redo = 0
  <2>1. CASE g.job = "ckpt"
    BY <1>2, <2>1, Before
  <2>2. CASE g.job = "txn"
    <3>1. g.redo = 0 \/ g.redo \in shm.h0.mx + 1..g.hdr.mx + Len(g.added)
      BY <1>2, <2>2 DEF WriterInv
    <3>2. Len(g.added) = 0 /\ g.hdr.mx = 0
      BY <1>2
    <3>3. QED
      BY <1>2, <3>1, <3>2
  <2>3. QED
    BY <1>2, <2>1, <2>2
<1>4. /\ h.pc = "reset2" /\ h.job = g.job /\ h.hdr = g.hdr /\ h.redo = g.redo
      /\ h.first = g.first /\ h.dirty = g.dirty /\ h.added = g.added /\ h.todo = g.todo
  BY Before DEF Fields
<1> HIDE DEF h
<1>5. Allowed(c)
  BY <1>1, <1>2 DEF Allowed
<1>6. ResetInv(h, shm'.h0, shm'.back)
  BY <1>1, <1>2, <1>4 DEF ResetInv
<1>7. h.hdr.mx = 0 /\ h.hdr.sum = <<>>
  BY <1>2, <1>4, BeforeShm, ChainZero DEF FitsLog
<1>8. Parts(h, shm'.h0, shm'.back, whdr'.cur, Cur(wal'), shm'.idx, db') /\ ~Knows(h)
  BY <1>2, <1>3, <1>4, <1>6, <1>7, ResetParts
<1>9. /\ FitsLog(shm'.h0, whdr'.cur, Cur(wal'), shm'.idx)
      /\ DbInv(shm'.h0, shm'.back, whdr'.cur, Cur(wal'), db')
      /\ BackInv(shm'.h0, shm'.back, con')
  BY <1>1, BeforeShm, DbBackZero DEF BackInv
<1>10. Heir(h, g, shm.h0)
  BY <1>2, <1>4, <1>8 DEF Heir
<1>11. \A d \in Conns : Fresh(h, con[d], shm'.h0) /\ Fresh(con[d], h, shm'.h0)
  BY <1>1, <1>10, HeirIsFresh
<1>12. QED
  BY <1>1, <1>5, <1>8, <1>9, <1>11, OneStep

\* And the read-marks; the writer reads the log now.
LEMMA ResetMarksKeeps ==
  ASSUME IInv, IInv', JInv, NEW c \in Conns, ResetMarks(c)
  PROVE  JInv'
<1> DEFINE g == con[c]
<1>1. g.pc = "reset2" /\ Unseen
  BY BeforeShm DEF ResetMarks, At, Unseen, log, ShmInv
<1>2. /\ g.job = "ckpt" \/ (g.job = "txn" /\ InWrite(g))
      /\ g.first = 0 /\ g.dirty \subseteq Pages
      /\ g.job = "ckpt" => ~InWrite(g)
      /\ g.job = "txn" => g.todo # <<>> /\ IsASeq(g.todo) /\ g.mode = Passive
      /\ g.hdr = shm.h0 /\ shm.h0.mx = 0
      /\ Parts(g, shm.h0, shm.back, whdr.cur, Cur(wal), shm.idx, db)
  BY <1>1, Before, BeforeReset DEF ResetInv
<1>3. CASE g.job = "ckpt"
  <2> DEFINE h == [g EXCEPT !.pc = "cut"]
  <2>1. con' = [con EXCEPT ![c] = h]
    BY <1>3, Before DEF ResetMarks, Goto
  <2>2. g.redo = 0
    BY <1>2, <1>3, Before
  <2>3. /\ h.pc = "cut" /\ h.job = "ckpt" /\ h.hdr = g.hdr /\ h.redo = 0
        /\ h.first = 0 /\ h.dirty \subseteq Pages
    BY <1>2, <1>3, <2>2, Before DEF Fields
  <2> HIDE DEF h
  <2>4. ~InWrite(h) /\ ~Knows(h)
    BY <2>3 DEF InWrite, Knows
  <2>5. ResetInv(h, shm.h0, shm.back)
    BY <1>2, <2>3 DEF ResetInv
  <2>6. OtherInv(h, shm.h0, shm.back, whdr.cur, Cur(wal), shm.idx, db)
    BY <2>3 DEF OtherInv
  <2>7. Parts(h, shm.h0, shm.back, whdr.cur, Cur(wal), shm.idx, db)
    BY <2>3, <2>4, <2>5, <2>6 DEF Parts, CkptInv, CopyInv
  <2>8. Heir(h, g, shm.h0)
    BY <2>4 DEF Heir
  <2>9. QED
    BY <1>1, <2>1, <2>7, <2>8, QuietStep
<1>4. CASE g.job = "txn"
  <2> DEFINE h == [g EXCEPT !.pc = "pick", !.job = "again"]
  <2>1. con' = [con EXCEPT ![c] = h]
    BY <1>4 DEF ResetMarks, Put
  <2>2. /\ h.job = "again" /\ h.hdr = g.hdr /\ h.todo = g.todo /\ h.first = g.first
        /\ h.redo = g.redo /\ h.added = g.added /\ h.dirty = g.dirty /\ h.mode = g.mode
    BY <1>1, Before DEF Fields
  <2>3. h = con'[c] /\ JobInv(con'[c])
    BY <2>1, Before DEF IInv, ConInv
  <2> HIDE DEF h, g
  <2>4. /\ Parts(h, shm.h0, shm.back, whdr.cur, Cur(wal), shm.idx, db)
        /\ InWrite(h) /\ ~Knows(h)
    BY <1>2, <1>4, <2>2, <2>3, AgainParts
  <2>5. Heir(h, g, shm.h0)
    BY <1>2, <1>4, <2>2, <2>4 DEF Heir
  <2>6. QED
    BY <1>1, <2>1, <2>4, <2>5, QuietStep DEF g
<1>5. QED
  BY <1>2, <1>3, <1>4

-----------------------------------------------------------------------------
\* walFrames()

\* The log with the same first frames has what the header says.
LEMMA SameFits ==
  ASSUME NEW w, NEW w1, NEW mx \in Int, \A m \in 1..mx : w1[m] = w[m], NEW salt
  PROVE  \A n \in 1..mx : Fits(salt, w1, n) <=> Fits(salt, w, n)
<1> SUFFICES ASSUME NEW n \in 1..mx
             PROVE  Fits(salt, w1, n) <=> Fits(salt, w, n)
  OBVIOUS
<1>1. w1[n] = w[n] /\ \A m \in 1..n : w1[m] = w[m]
  OBVIOUS
<1>2. [i \in 1..n |-> Body(w1[i])] = [i \in 1..n |-> Body(w[i])]
  BY <1>1
<1>3. QED
  BY <1>1, <1>2 DEF Fits

\* A header fits the log after a step that leaves the frames it speaks of.
LEMMA FitsKept ==
  ASSUME NEW h, h.mx \in Int, NEW salt, NEW w, NEW idx, FitsLog(h, salt, w, idx),
         NEW salt1, NEW w1, NEW idx1, h.mx > 0 => salt1 = salt,
         \A m \in 1..h.mx : w1[m] = w[m] /\ (OnIndex(w, idx, m) => OnIndex(w1, idx1, m))
  PROVE  FitsLog(h, salt1, w1, idx1)
<1>1. Chain(w1, h.mx) = Chain(w, h.mx)
  BY SameChain
<1>2. \A n \in 1..h.mx : Fits(salt, w1, n) <=> Fits(salt, w, n)
  BY SameFits
<1>3. CASE h.mx > 0
  <2>1. w1[h.mx] = w[h.mx]
    BY <1>3
  <2>2. QED
    BY <1>1, <1>2, <1>3, <2>1 DEF FitsLog
<1>4. CASE ~(h.mx > 0)
  BY <1>1, <1>4 DEF FitsLog
<1>5. QED
  BY <1>3, <1>4

\* What nBackfill says is kept by a step that leaves those frames.
LEMMA DbKept ==
  ASSUME NEW h0, GoodHdr(h0), NEW back, back \in Nat, NEW salt, NEW w, NEW d,
         DbInv(h0, back, salt, w, d), NEW salt1, NEW w1, \A m \in 1..h0.mx : w1[m] = w[m]
  PROVE  DbInv(h0, back, salt1, w1, d)
<1>1. h0.mx \in Nat /\ h0 # NoHdr
  BY Bounds DEF GoodHdr, NoHdr, Hdr
<1>2. ASSUME NEW n \in 1..back, IsLast(w1, h0.mx, n), w1[n].pg \in Pages
      PROVE  d[w1[n].pg].cur = w1[n].val
  <2>1. n \in 1..h0.mx /\ w1[n] = w[n]
    BY <1>2 DEF IsLast
  <2>2. IsLast(w, h0.mx, n)
    <3>1. h0.mx \in Int /\ \A m \in 1..h0.mx : w1[m] = w[m]
      BY <1>1
    <3>2. IsLast(w1, h0.mx, n)
      BY <1>2
    <3>3. QED
      BY <3>1, <3>2, SameLast
  <2>3. QED
    BY <1>2, <2>1, <2>2 DEF DbInv, Backfilled
<1>3. QED
  BY <1>1, <1>2 DEF DbInv, Backfilled

\* A step of a writer on the log after what was committed, or on the index.
LEMMA WriterStep ==
  ASSUME IInv, IInv', JInv, NEW c \in Conns, NEW h, con' = [con EXCEPT ![c] = h],
         InWrite(con[c]), con[c].pc \notin ResetPcs,
         shm'.h0 = shm.h0, shm'.back = shm.back, db' = db,
         \A n \in 1..shm.h0.mx : /\ Cur(wal')[n] = Cur(wal)[n]
                                 /\ OnIndex(Cur(wal), shm.idx, n) =>
                                      OnIndex(Cur(wal'), shm'.idx, n),
         shm.h0.mx > 0 => whdr'.cur = whdr.cur,
         h.job = "txn", h.slot # 0, InWrite(h), h.pc \notin ResetPcs,
         h.dirty \subseteq Pages, h.mode = Passive,
         h.hdr.salt = con[c].hdr.salt \/ h.hdr.salt \notin Salts,
         WriterInv(h, shm.h0, whdr'.cur, Cur(wal'), shm'.idx)
  PROVE  JInv'
<1>1. /\ c \in excl[WRITE_LOCK] /\ GoodHdr(shm.h0) /\ JobInv(h)
  BY BeforeWrite, Before DEF MarkInv, IInv, ConInv
<1>2. Allowed(c)
  BY <1>1 DEF Allowed
<1>3. FitsLog(shm'.h0, whdr'.cur, Cur(wal'), shm'.idx)
  BY BeforeShm, FitsKept
<1>4. DbInv(shm'.h0, shm'.back, whdr'.cur, Cur(wal'), db')
  BY <1>1, BeforeShm, DbKept
<1>5. BackInv(shm'.h0, shm'.back, con')
  <2>1. shm.back = 0 \/ shm.back <= shm.h0.mx
    BY <1>1, BackWithin
  <2>2. QED
    BY <2>1 DEF BackInv
<1>6. /\ Parts(h, shm'.h0, shm'.back, whdr'.cur, Cur(wal'), shm'.idx, db')
      /\ ~Knows(h)
  BY <1>1, WriterParts
<1>7. Heir(h, con[c], shm.h0)
  <2>1. h.hdr.salt \notin Salts =>
          \A d \in Conns : Knows(con[d]) => Known(con[d]).salt # h.hdr.salt
    BY DEF Salts, Known
  <2>2. QED
    BY <1>6, <2>1 DEF Heir
<1>8. \A d \in Conns : Fresh(h, con[d], shm'.h0) /\ Fresh(con[d], h, shm'.h0)
  BY <1>7, HeirIsFresh
<1>9. QED
  BY <1>2, <1>3, <1>4, <1>5, <1>6, <1>8, OneStep

\* What a sync leaves.
LEMMA SyncIs ==
  ASSUME IInv, SyncLog
  PROVE  whdr'.cur = whdr.cur /\ Cur(wal') = Cur(wal)
<1>1. wal = [n \in Frames |-> wal[n]]
  BY DEF IInv, LogInv, FramesInv
<1>2. wal' = [n \in Frames |-> Stable(wal[n].cur)] /\ whdr' = Stable(whdr.cur)
  BY <1>1 DEF SyncLog, Sync
<1>3. Cur(wal) = [n \in Frames |-> wal[n].cur]
  BY <1>1 DEF Cur
<1>4. Cur(wal') = [n \in Frames |-> wal[n].cur]
  BY <1>2 DEF Cur, Stable
<1>5. QED
  BY <1>2, <1>3, <1>4 DEF Stable

\* What a writer has in the middle of walFrames().
LEMMA BeforeFrames ==
  ASSUME IInv, JInv, NEW c \in Conns, con[c].pc \in FramePcs
  PROVE  LET g == con[c]
         IN /\ g = [f \in Fields |-> g[f]]
            /\ g.job = "txn" /\ g.slot # 0 /\ InWrite(g) /\ g.mode = Passive
            /\ g.dirty \subseteq Pages /\ GoodHdr(g.hdr) /\ IsASeq(g.added)
            /\ g.hdr.mx \in Nat /\ Len(g.added) \in Nat
            /\ g.hdr.mx + Len(g.added) <= MaxFrame
            /\ g.pc \notin {"frame", "index"} => g.added = <<>>
            /\ g.pc = "header" => g.hdr.mx = 0
            /\ GoodHdr(shm.h0) /\ shm.h0.mx \in Nat /\ shm.h0.mx <= g.hdr.mx
            /\ WriterInv(g, shm.h0, whdr.cur, Cur(wal), shm.idx)
<1> DEFINE g == con[c]
<1>1. /\ g = [f \in Fields |-> g[f]] /\ JobInv(g) /\ SlotInv(g) /\ DataInv(g)
      /\ MarkInv(g, shm) /\ g.dirty \subseteq Pages /\ g.pc \in FramePcs
  BY Before
<1> HIDE DEF g
<1>2. g.job = "txn" /\ g.slot # 0 /\ InWrite(g)
  BY <1>1 DEF JobInv, SlotInv, InWrite
<1>3. /\ WriterInv(g, shm.h0, whdr.cur, Cur(wal), shm.idx) /\ g.mode = Passive
      /\ GoodHdr(g.hdr) /\ IsASeq(g.added)
  BY <1>2, BeforeWrite DEF g
<1>4. GoodHdr(shm.h0) /\ shm.h0.mx <= g.hdr.mx
  BY <1>1, <1>2 DEF MarkInv
<1>5. g.hdr.mx \in Nat /\ shm.h0.mx \in Nat /\ Len(g.added) \in Nat
  BY <1>3, <1>4, Bounds DEF GoodHdr, IsASeq
<1>6. QED
  BY <1>1, <1>2, <1>3, <1>4, <1>5 DEF DataInv, g

\* The header of the log, before frame 1: no published frame is lost by it.
LEMMA WriteHeaderKeeps ==
  ASSUME IInv, IInv', JInv, NEW c \in Conns, WriteHeader(c)
  PROVE  JInv'
<1> DEFINE g == con[c]
<1>1. g.pc = "header" /\ g.pc \in FramePcs /\ UNCHANGED <<db, wal, shm>>
  BY DEF WriteHeader, At
<1>2. PICK salt \in {g.hdr.salt, NewSalt} \ {0} :
        /\ whdr' = Written(whdr, salt)
        /\ con' = [con EXCEPT ![c] = [g EXCEPT !.pc = "synchdr",
                                      !.hdr = Hdr(salt, 0, <<>>, g.hdr.chg)]]
  BY DEF WriteHeader, Put
<1> DEFINE new == Hdr(salt, 0, <<>>, g.hdr.chg)
           h == [g EXCEPT !.pc = "synchdr", !.hdr = new]
<1>3. new.mx = 0 /\ new.sum = <<>> /\ new.salt = salt /\ whdr'.cur = salt /\ salt # 0
  BY <1>2 DEF Hdr, Written
<1> HIDE DEF new
<1>4. con' = [con EXCEPT ![c] = h]
  BY <1>2 DEF new
<1>5. /\ g = [f \in Fields |-> g[f]]
      /\ g.job = "txn" /\ g.slot # 0 /\ InWrite(g) /\ g.mode = Passive
      /\ g.dirty \subseteq Pages /\ g.added = <<>> /\ Len(g.added) = 0
      /\ g.hdr.mx = 0 /\ shm.h0.mx = 0
      /\ WriterInv(g, shm.h0, whdr.cur, Cur(wal), shm.idx)
  BY <1>1, BeforeFrames
<1>6. g.todo # <<>> /\ IsASeq(g.todo) /\ g.redo = 0 /\ g.first \in {0, shm.h0.mx + 1}
  BY <1>1, <1>5 DEF WriterInv
<1>7. /\ h.pc = "synchdr" /\ h.job = "txn" /\ h.hdr = new /\ h.redo = 0 /\ h.slot = g.slot
      /\ h.first = g.first /\ h.dirty = g.dirty /\ h.mode = Passive
      /\ h.added = <<>> /\ h.todo = g.todo
  BY <1>5, <1>6 DEF Fields
<1> HIDE DEF h
<1>8. Len(h.added) = 0 /\ h.hdr.mx + Len(h.added) = 0
  BY <1>3, <1>5, <1>7
<1>9. Written1(h, whdr'.cur, Cur(wal'), shm'.idx)
  BY <1>3, <1>7, <1>8, ChainZero DEF Written1
<1>10. InWrite(h) /\ WriterInv(h, shm.h0, whdr'.cur, Cur(wal'), shm'.idx)
  BY <1>3, <1>5, <1>6, <1>7, <1>8, <1>9 DEF WriterInv, InWrite
<1>11. h.hdr.salt = g.hdr.salt \/ h.hdr.salt \notin Salts
  BY <1>2, <1>3, <1>7, NewSaltIs
<1>12. /\ \A n \in 1..shm.h0.mx : FALSE
       /\ ~(shm.h0.mx > 0)
  BY <1>5
<1>13. h.slot # 0 /\ h.pc \notin ResetPcs /\ g.pc \notin ResetPcs /\ h.dirty \subseteq Pages
       /\ shm'.h0 = shm.h0 /\ shm'.back = shm.back /\ db' = db
  BY <1>1, <1>5, <1>7
<1>14. QED
  BY <1>4, <1>5, <1>7, <1>10, <1>11, <1>12, <1>13, WriterStep

\* The sync of the header changes nothing a process can see.
LEMMA SyncHeaderKeeps ==
  ASSUME IInv, IInv', JInv, NEW c \in Conns, SyncHeader(c)
  PROVE  JInv'
<1> DEFINE g == con[c]
           h == [g EXCEPT !.pc = "frame"]
<1>1. /\ g.pc = "synchdr" /\ g.pc \in FramePcs /\ UNCHANGED <<db, shm>>
      /\ con' = [con EXCEPT ![c] = h] /\ whdr'.cur = whdr.cur /\ Cur(wal') = Cur(wal)
  BY SyncIs, Before DEF SyncHeader, At, Goto
<1>2. /\ g = [f \in Fields |-> g[f]]
      /\ g.job = "txn" /\ g.slot # 0 /\ InWrite(g) /\ g.mode = Passive
      /\ g.dirty \subseteq Pages
      /\ WriterInv(g, shm.h0, whdr.cur, Cur(wal), shm.idx)
  BY <1>1, BeforeFrames
<1>3. /\ h.pc = "frame" /\ h.job = g.job /\ h.hdr = g.hdr /\ h.redo = g.redo
      /\ h.slot = g.slot /\ h.first = g.first /\ h.dirty = g.dirty /\ h.mode = g.mode
      /\ h.added = g.added /\ h.todo = g.todo
  BY <1>2 DEF Fields
<1> HIDE DEF h
<1>4. g.todo # <<>> /\ IsASeq(g.todo) /\ whdr.cur = g.hdr.salt /\ whdr.cur # 0
  BY <1>1, <1>2 DEF WriterInv
<1>5. Written1(h, whdr.cur, Cur(wal), shm.idx)
  <2>1. Written1(g, whdr.cur, Cur(wal), shm.idx)
    BY <1>2 DEF WriterInv
  <2>2. h.todo # <<>>
    BY <1>3, <1>4
  <2>3. QED
    BY <1>3, <2>1, <2>2 DEF Written1
<1>6. InWrite(h) /\ WriterInv(h, shm.h0, whdr.cur, Cur(wal), shm.idx)
  BY <1>1, <1>2, <1>3, <1>4, <1>5 DEF WriterInv, InWrite
<1>7. QED
  BY <1>1, <1>2, <1>3, <1>6, WriterStep

\* The frames of the log, before and after one is put there.
LEMMA PutFrameIs ==
  ASSUME IInv, NEW n \in Frames, NEW f, PutFrame(n, f)
  PROVE  \A m \in Frames : Cur(wal')[m] = IF m = n THEN f ELSE Cur(wal)[m]
<1>1. wal = [m \in Frames |-> wal[m]]
  BY DEF IInv, LogInv, FramesInv
<1>2. wal' = [m \in Frames |-> IF m = n THEN WrittenPage(wal[m], f, NoFrame) ELSE wal[m]]
  BY <1>1 DEF PutFrame
<1>3. Cur(wal) = [m \in Frames |-> wal[m].cur]
  BY <1>1 DEF Cur
<1>4. Cur(wal') = [m \in Frames |-> IF m = n THEN f ELSE wal[m].cur]
  BY <1>2 DEF Cur, WrittenPage
<1>5. QED
  BY <1>3, <1>4

\* The rest of a row, and a row with one more.
LEMMA TailIs ==
  ASSUME NEW s, IsASeq(s), s # <<>>
  PROVE  /\ IsASeq(Tail(s)) /\ Len(Tail(s)) = Len(s) - 1 /\ Len(s) > 0
         /\ Tail(s) = <<>> <=> Len(s) = 1
<1> DEFINE S == {s[n] : n \in 1..Len(s)}
<1>1. s \in Seq(S)
  BY DEF IsASeq
<1> HIDE DEF S
<1>2. Tail(s) \in Seq(S) /\ Len(Tail(s)) = Len(s) - 1 /\ Len(s) > 0
  BY <1>1
<1>3. IsASeq(Tail(s))
  <2>1. ASSUME NEW t \in Seq(S) PROVE IsASeq(t)
    BY DEF IsASeq
  <2>2. QED
    BY <1>2, <2>1
<1>4. Tail(s) = <<>> <=> Len(s) = 1
  BY <1>1, <1>2
<1>5. QED
  BY <1>2, <1>3, <1>4

\* One element at the end.
LEMMA AppendIs ==
  ASSUME NEW s, IsASeq(s), NEW x
  PROVE  /\ \A n \in 1..Len(s) : Append(s, x)[n] = s[n]
         /\ Append(s, x)[Len(s) + 1] = x /\ Len(Append(s, x)) = Len(s) + 1
         /\ Append(s, x) = [n \in 1..Len(s) + 1 |-> IF n = Len(s) + 1 THEN x ELSE s[n]]
<1> DEFINE S == {s[n] : n \in 1..Len(s)} \cup {x}
<1>1. s \in Seq(S) /\ x \in S
  BY DEF IsASeq
<1> HIDE DEF S
<1>2. Len(Append(s, x)) = Len(s) + 1 /\ Append(s, x) \in Seq(S) /\ Len(s) \in Nat
  BY <1>1
<1>3. \A n \in 1..Len(s) : Append(s, x)[n] = s[n]
  BY <1>1
<1>4. Append(s, x)[Len(s) + 1] = x
  BY <1>1
<1>5. Append(s, x) = [n \in 1..Len(s) + 1 |-> Append(s, x)[n]]
  <2>1. ASSUME NEW t \in Seq(S) PROVE t = [n \in 1..Len(t) |-> t[n]]
    OBVIOUS
  <2>2. QED
    BY <1>2, <2>1
<1>6. \A n \in 1..Len(s) + 1 : Append(s, x)[n] = IF n = Len(s) + 1 THEN x ELSE s[n]
  BY <1>2, <1>3, <1>4
<1>7. QED
  BY <1>2, <1>3, <1>4, <1>5, <1>6

\* Two sequences, one after the other.
LEMMA ConcatIs ==
  ASSUME NEW s, IsASeq(s), NEW t, IsASeq(t)
  PROVE  /\ Len(s \o t) = Len(s) + Len(t)
         /\ \A n \in 1..Len(s) : (s \o t)[n] = s[n]
         /\ \A n \in Len(s) + 1..Len(s) + Len(t) : (s \o t)[n] = t[n - Len(s)]
<1> DEFINE S == {s[n] : n \in 1..Len(s)} \cup {t[n] : n \in 1..Len(t)}
<1>1. s \in Seq(S) /\ t \in Seq(S)
  BY DEF IsASeq
<1> HIDE DEF S
<1>2. QED
  BY <1>1

\* What a frame covers, with one frame more.
LEMMA ChainAppend ==
  ASSUME NEW w, NEW n \in Nat \ {0}
  PROVE  Append(Chain(w, n - 1), Body(w[n])) = Chain(w, n)
<1> DEFINE s == Chain(w, n - 1)
<1>1. Len(s) = n - 1 /\ s = [m \in 1..Len(s) |-> s[m]]
  BY DEF Chain
<1>2. IsASeq(s)
  BY <1>1 DEF IsASeq
<1>3. \A m \in 1..n - 1 : s[m] = Body(w[m])
  BY DEF Chain
<1> HIDE DEF s
<1>4. Append(s, Body(w[n])) = [m \in 1..n |-> IF m = n THEN Body(w[n]) ELSE s[m]]
  BY <1>1, <1>2, AppendIs
<1>5. Chain(w, n) = [m \in 1..n |-> IF m = n THEN Body(w[n]) ELSE s[m]]
  BY <1>3 DEF Chain
<1>6. QED
  BY <1>4, <1>5 DEF s

\* walFindFrame().
LEMMA FoundFrame ==
  ASSUME NEW idx, NEW min, NEW max \in Nat, NEW p
  PROVE  LET S == {0} \cup {n \in min..max : n <= Len(idx) /\ idx[n] = p}
             n == LastFrame(idx, min, max, p)
         IN n \in S /\ (\A m \in S : m <= n) /\ n >= 0 /\ n <= max
<1> DEFINE S == {0} \cup {n \in min..max : n <= Len(idx) /\ idx[n] = p}
           T == {n \in S : n \in 0..max}
<1>1. \A n \in S : n \in Int /\ n <= max
  OBVIOUS
<1>2. 0 \in S /\ 0 \in T /\ T \in SUBSET (0..max)
  OBVIOUS
<1>3. LastFrame(idx, min, max, p) = Max(S)
  BY DEF LastFrame
<1> HIDE DEF S
<1>4. \A n \in S : n \in T \/ n < 0
  BY <1>1
<1>5. T \subseteq S
  OBVIOUS
<1> HIDE DEF T
<1>6. Max(T) \in T /\ \A y \in T : y <= Max(T)
  BY <1>2, MaxOfUpTo
<1>7. Max(T) \in S /\ \A y \in S : Max(T) >= y
  <2>1. Max(T) \in S /\ Max(T) >= 0 /\ Max(T) \in Int
    BY <1>1, <1>2, <1>5, <1>6
  <2> SUFFICES ASSUME NEW y \in S
               PROVE  Max(T) >= y
    BY <2>1
  <2>2. CASE y \in T
    BY <1>1, <1>6, <2>1, <2>2
  <2>3. CASE y < 0
    BY <1>1, <2>1, <2>3
  <2>4. QED
    BY <1>4, <2>2, <2>3
<1>8. Max(S) \in S /\ \A y \in S : Max(S) >= y
  BY <1>7 DEF Max
<1>9. QED
  BY <1>1, <1>2, <1>3, <1>8 DEF S

\* A frame of this transaction is written over.
LEMMA OverwriteKeeps ==
  ASSUME IInv, IInv', JInv, NEW c \in Conns, Overwrite(c)
  PROVE  JInv'
<1> DEFINE g == con[c]
           p == Head(g.todo)
           n == FindFrame(g.min, g.hdr.mx, p)
           w == Cur(wal)
           w1 == Cur(wal')
           f == [wal[n].cur EXCEPT !.val = g.cache[p]]
           redo == IF g.redo = 0 \/ n < g.redo THEN n ELSE g.redo
           dirty == IF g.com THEN g.dirty ELSE g.dirty \ {p}
           h == [g EXCEPT !.todo = Tail(g.todo), !.dirty = dirty, !.redo = redo]
<1>1. /\ g.pc = "frame" /\ g.pc \in FramePcs /\ UNCHANGED <<db, shm, whdr>>
      /\ con' = [con EXCEPT ![c] = h] /\ PutFrame(n, f)
      /\ g.todo # <<>> /\ g.first # 0 /\ (Len(g.todo) > 1 \/ ~g.com) /\ n >= g.first
  BY DEF Overwrite, Overwrites, At, Put
<1>2. /\ g = [x \in Fields |-> g[x]]
      /\ g.job = "txn" /\ g.slot # 0 /\ InWrite(g) /\ g.mode = Passive
      /\ g.dirty \subseteq Pages /\ GoodHdr(g.hdr) /\ IsASeq(g.added)
      /\ g.hdr.mx \in Nat /\ Len(g.added) \in Nat
      /\ g.hdr.mx + Len(g.added) <= MaxFrame
      /\ GoodHdr(shm.h0) /\ shm.h0.mx \in Nat /\ shm.h0.mx <= g.hdr.mx
      /\ WriterInv(g, shm.h0, whdr.cur, w, shm.idx)
  BY <1>1, BeforeFrames
<1>3. n <= g.hdr.mx /\ n \in Int
  <2>1. n \in Int /\ n <= g.hdr.mx
    BY <1>2, FoundFrame DEF FindFrame
  <2>2. QED
    BY <2>1
<1> HIDE DEF n
<1>4. n \in shm.h0.mx + 1..g.hdr.mx /\ n \in Frames /\ n # 0 /\ g.first = shm.h0.mx + 1
  <2>1. g.first = shm.h0.mx + 1
    BY <1>1, <1>2 DEF WriterInv
  <2>2. QED
    <3>1. n >= shm.h0.mx + 1
      BY <1>1, <2>1
    <3>2. n \in shm.h0.mx + 1..g.hdr.mx /\ n # 0
      BY <1>2, <1>3, <3>1
    <3>3. n \in Frames
      BY <1>2, <3>2, Bounds DEF Frames
    <3>4. QED
      BY <2>1, <3>2, <3>3
<1>5. IsFrame(w[n]) /\ w[n] = wal[n].cur
  <2>1. w[n] = wal[n].cur
    BY <1>4 DEF IInv, LogInv, FramesInv, Cur
  <2>2. n \in 1..g.hdr.mx + Len(g.added) /\ n > shm.h0.mx
    BY <1>2, <1>4
  <2>3. QED
    BY <1>2, <2>1, <2>2 DEF WriterInv
<1>6. IsFrame(f) /\ f.pg = w[n].pg /\ f.com = w[n].com /\ f.salt = w[n].salt /\ f.sum = w[n].sum
  BY <1>5 DEF IsFrame
<1> HIDE DEF f
<1>7. \A m \in Frames : w1[m] = IF m = n THEN f ELSE w[m]
  BY <1>1, <1>4, PutFrameIs
<1>8. \A m \in 1..g.hdr.mx + Len(g.added) : m \in Frames
  BY <1>2, Bounds DEF Frames
<1> HIDE DEF w, w1
<1>9. \A m \in 1..g.hdr.mx + Len(g.added) :
        /\ w1[m].pg = w[m].pg /\ w1[m].com = w[m].com
        /\ m # n => w1[m] = w[m]
        /\ m > shm.h0.mx => IsFrame(w1[m])
  BY <1>2, <1>6, <1>7, <1>8 DEF WriterInv
<1>10. redo \in shm.h0.mx + 1..g.hdr.mx + Len(g.added) /\ redo <= n /\ redo # 0
       /\ (g.redo = 0 \/ redo <= g.redo)
  <2>1. g.redo = 0 \/ g.redo \in shm.h0.mx + 1..g.hdr.mx + Len(g.added)
    BY <1>2 DEF WriterInv
  <2>2. /\ g.hdr.mx \in Nat /\ Len(g.added) \in Nat /\ shm.h0.mx \in Nat
        /\ n \in shm.h0.mx + 1..g.hdr.mx
    BY <1>2, <1>4
  <2>3. QED
    BY <2>1, <2>2
<1> HIDE DEF redo
<1>11. dirty \subseteq Pages
  BY <1>2
<1> HIDE DEF dirty
<1>12. /\ h.pc = "frame" /\ h.job = "txn" /\ h.hdr = g.hdr /\ h.redo = redo
       /\ h.slot = g.slot /\ h.first = g.first /\ h.dirty = dirty /\ h.mode = Passive
       /\ h.added = g.added /\ h.todo = Tail(g.todo) /\ h.com = g.com
  BY <1>1, <1>2 DEF Fields
<1> HIDE DEF h
<1>13. IsASeq(h.todo) /\ ~(h.com /\ h.todo = <<>>)
  <2>1. IsASeq(g.todo)
    BY <1>1, <1>2 DEF WriterInv
  <2>2. IsASeq(Tail(g.todo)) /\ (Tail(g.todo) = <<>> <=> Len(g.todo) = 1)
    BY <1>1, <2>1, TailIs
  <2>3. QED
    <3>1. Len(g.todo) > 1 => Len(g.todo) # 1
      BY <2>1 DEF IsASeq
    <3>2. ~(g.com /\ Len(g.todo) = 1)
      BY <1>1, <3>1, Zenon
    <3>3. QED
      BY <1>12, <2>2, <3>2
<1>14. \A m \in 1..g.hdr.mx + Len(g.added) : m < redo => Fits(whdr.cur, w1, m)
  <2> SUFFICES ASSUME NEW m \in 1..g.hdr.mx + Len(g.added), m < redo
               PROVE  Fits(whdr.cur, w1, m)
    OBVIOUS
  <2>1. Fits(whdr.cur, w, m)
    <3>1. g.redo = 0 \/ m < g.redo
      BY <1>2, <1>10 DEF WriterInv
    <3>2. g.hdr.mx + Len(g.added) > 0
      BY <1>2
    <3>3. QED
      BY <1>2, <3>1, <3>2 DEF WriterInv, Written1
  <2>2. \A k \in 1..m : w1[k] = w[k]
    BY <1>2, <1>9, <1>10
  <2>3. QED
    <3>1. m \in Int /\ m \in 1..m
      OBVIOUS
    <3>2. QED
      BY <2>1, <2>2, <3>1, SameFits
<1>15. Written1(h, whdr.cur, w1, shm.idx)
  <2>1. \A m \in 1..g.hdr.mx : OnIndex(w1, shm.idx, m) <=> OnIndex(w, shm.idx, m)
    BY <1>2, <1>9 DEF OnIndex
  <2>2. \A m \in 1..Len(g.added) : w1[g.hdr.mx + m].pg = w[g.hdr.mx + m].pg
    BY <1>2, <1>9
  <2>3. Written1(g, whdr.cur, w, shm.idx)
    BY <1>2 DEF WriterInv
  <2>4. QED
    BY <1>10, <1>12, <1>13, <1>14, <2>1, <2>2, <2>3 DEF Written1
<1>16. InWrite(h) /\ WriterInv(h, shm.h0, whdr.cur, w1, shm.idx)
  BY <1>1, <1>2, <1>9, <1>10, <1>12, <1>13, <1>15 DEF WriterInv, InWrite
<1>17. \A m \in 1..shm.h0.mx : w1[m] = w[m]
  <2> SUFFICES ASSUME NEW m \in 1..shm.h0.mx
               PROVE  w1[m] = w[m]
    OBVIOUS
  <2>1. m # n /\ m \in 1..g.hdr.mx + Len(g.added)
    BY <1>2, <1>4
  <2>2. QED
    BY <1>9, <2>1
<1>18. \A m \in 1..shm.h0.mx : OnIndex(w, shm.idx, m) => OnIndex(w1, shm.idx, m)
  BY <1>17 DEF OnIndex
<1>19. QED
  BY <1>1, <1>2, <1>11, <1>12, <1>16, <1>17, <1>18, WriterStep DEF w, w1

\* A frame is appended; without a checksum if one before it is wrong.
LEMMA AppendFrameKeeps ==
  ASSUME IInv, IInv', JInv, NEW c \in Conns, AppendFrame(c)
  PROVE  JInv'
<1> DEFINE g == con[c]
           p == Head(g.todo)
           n == g.hdr.mx + Len(g.added) + 1
           w == Cur(wal)
           w1 == Cur(wal')
           com == g.com /\ Len(g.todo) = 1
           f0 == [pg |-> p, val |-> g.cache[p], com |-> com, salt |-> 0, sum |-> <<>>]
           sum == Append(g.hdr.sum, Body(f0))
           f == IF g.redo = 0 THEN [f0 EXCEPT !.salt = g.hdr.salt, !.sum = sum] ELSE f0
           hdr == IF g.redo = 0 THEN [g.hdr EXCEPT !.sum = sum] ELSE g.hdr
           added == Append(g.added, p)
           h == [g EXCEPT !.todo = Tail(g.todo), !.added = added, !.hdr = hdr]
<1>1. /\ g.pc = "frame" /\ g.pc \in FramePcs /\ UNCHANGED <<db, shm, whdr>>
      /\ g.todo # <<>> /\ n <= MaxFrame
  BY DEF AppendFrame, At
<1>2. /\ g = [x \in Fields |-> g[x]]
      /\ g.job = "txn" /\ g.slot # 0 /\ InWrite(g) /\ g.mode = Passive
      /\ g.dirty \subseteq Pages /\ GoodHdr(g.hdr) /\ IsASeq(g.added)
      /\ g.hdr.mx \in Nat /\ Len(g.added) \in Nat
      /\ g.hdr.mx + Len(g.added) <= MaxFrame
      /\ GoodHdr(shm.h0) /\ shm.h0.mx \in Nat /\ shm.h0.mx <= g.hdr.mx
      /\ WriterInv(g, shm.h0, whdr.cur, w, shm.idx)
  BY <1>1, BeforeFrames
<1>3. con' = [con EXCEPT ![c] = h] /\ PutFrame(n, f)
  <2>1. CASE g.redo = 0
    BY <2>1 DEF AppendFrame, Put
  <2>2. CASE g.redo # 0
    <3> DEFINE h1 == [g EXCEPT !.todo = Tail(g.todo), !.added = added]
               h2 == [g EXCEPT !.todo = Tail(g.todo), !.added = added, !.hdr = g.hdr]
    <3>1. h1 = h2
      BY <1>2 DEF Fields
    <3>2. con' = [con EXCEPT ![c] = h1] /\ PutFrame(n, f0)
      BY <2>2 DEF AppendFrame, Put
    <3>3. QED
      BY <2>2, <3>1, <3>2
  <2>3. QED
    BY <2>1, <2>2
<1>4. n \in Frames /\ n > 0 /\ n \in Nat
  <2>1. n \in Nat /\ n > 0
    BY <1>2
  <2>2. n <= MaxFrame /\ MaxFrame \in Nat
    BY <1>1, Bounds
  <2> HIDE DEF n
  <2>3. QED
    BY <2>1, <2>2 DEF Frames
<1>5. /\ f.pg = p /\ f.com = com /\ IsFrame(f) /\ Body(f) = Body(f0)
      /\ g.redo = 0 => f.salt = g.hdr.salt /\ f.sum = sum
  BY DEF IsFrame, Body
<1>6. hdr.mx = g.hdr.mx /\ hdr.salt = g.hdr.salt /\ (g.redo = 0 => hdr.sum = sum)
  BY <1>2 DEF GoodHdr, Hdr
<1> HIDE DEF f, f0, com
<1>7. \A m \in Frames : w1[m] = IF m = n THEN f ELSE w[m]
  BY <1>3, <1>4, PutFrameIs
<1> HIDE DEF w, w1
<1>8. /\ w1[n] = f
      /\ \A m \in 1..n - 1 : w1[m] = w[m]
  <2>1. \A m \in 1..n - 1 : m \in Frames /\ m # n
    BY <1>4, Bounds DEF Frames
  <2>2. QED
    BY <1>4, <1>7, <2>1
<1>9. /\ Len(added) = Len(g.added) + 1 /\ added[Len(g.added) + 1] = p
      /\ \A m \in 1..Len(g.added) : added[m] = g.added[m]
  BY <1>2, AppendIs
<1> HIDE DEF hdr, added
<1>10. /\ h.pc = "frame" /\ h.job = "txn" /\ h.hdr = hdr /\ h.redo = g.redo
       /\ h.slot = g.slot /\ h.first = g.first /\ h.dirty = g.dirty /\ h.mode = Passive
       /\ h.added = added /\ h.todo = Tail(g.todo) /\ h.com = g.com
  BY <1>1, <1>2 DEF Fields
<1> HIDE DEF h
<1>11. IsASeq(h.todo) /\ (h.com /\ h.todo = <<>> => com)
  <2>1. IsASeq(g.todo)
    BY <1>1, <1>2 DEF WriterInv
  <2>2. IsASeq(Tail(g.todo)) /\ (Tail(g.todo) = <<>> <=> Len(g.todo) = 1)
    BY <1>1, <2>1, TailIs
  <2>3. QED
    BY <1>10, <2>2, Zenon DEF com
<1>12. h.hdr.mx + Len(h.added) = n /\ h.hdr.mx = g.hdr.mx /\ h.hdr.salt = g.hdr.salt
       /\ n - 1 = g.hdr.mx + Len(g.added)
  <2>1. h.hdr.mx = g.hdr.mx /\ h.hdr.salt = g.hdr.salt /\ Len(h.added) = Len(g.added) + 1
    BY <1>6, <1>9, <1>10
  <2>2. QED
    BY <1>2, <2>1
<1>13. Written1(g, whdr.cur, w, shm.idx) /\ whdr.cur = g.hdr.salt /\ whdr.cur # 0
  BY <1>1, <1>2 DEF WriterInv
<1>14. g.redo = 0 => sum = Chain(w1, n)
  <2> SUFFICES ASSUME g.redo = 0
               PROVE  sum = Chain(w1, n)
    OBVIOUS
  <2>1. g.hdr.sum = Chain(w, n - 1)
    BY <1>12, <1>13 DEF Written1
  <2> HIDE DEF n
  <2>2. Chain(w1, n - 1) = Chain(w, n - 1)
    BY <1>4, <1>8, SameChain
  <2>3. Append(Chain(w1, n - 1), Body(w1[n])) = Chain(w1, n)
    <3>1. n \in Nat \ {0}
      BY <1>4
    <3>2. QED
      BY <3>1, ChainAppend
  <2>4. QED
    BY <1>5, <1>8, <2>1, <2>2, <2>3
<1> HIDE DEF sum, n
<1>15. \A m \in 1..n : g.redo = 0 \/ m < g.redo => Fits(whdr.cur, w1, m)
  <2> SUFFICES ASSUME NEW m \in 1..n, g.redo = 0 \/ m < g.redo
               PROVE  Fits(whdr.cur, w1, m)
    OBVIOUS
  <2>1. CASE m = n
    <3>1. g.redo = 0
      <4>1. g.redo = 0 \/ g.redo \in shm.h0.mx + 1..g.hdr.mx + Len(g.added)
        BY <1>2 DEF WriterInv
      <4>2. QED
        BY <1>2, <1>12, <2>1, <4>1
    <3>2. QED
      BY <1>5, <1>8, <1>13, <1>14, <2>1, <3>1 DEF Fits, Chain
  <2>2. CASE m # n
    <3>1. m \in 1..n - 1 /\ n - 1 > 0 /\ n - 1 \in Int
      BY <1>4, <2>2
    <3>2. Fits(whdr.cur, w, m)
      BY <1>12, <1>13, <3>1 DEF Written1
    <3>3. QED
      BY <1>8, <3>1, <3>2, SameFits
  <2>3. QED
    BY <2>1, <2>2
<1>16. Written1(h, whdr.cur, w1, shm.idx)
  <2>1. \A m \in 1..g.hdr.mx : OnIndex(w1, shm.idx, m)
    <3> SUFFICES ASSUME NEW m \in 1..g.hdr.mx
                 PROVE  OnIndex(w1, shm.idx, m)
      OBVIOUS
    <3>1. m \in 1..n - 1 /\ n - 1 > 0
      BY <1>2, <1>12
    <3>2. OnIndex(w, shm.idx, m)
      BY <1>12, <1>13, <3>1 DEF Written1
    <3>3. QED
      BY <1>8, <3>1, <3>2 DEF OnIndex
  <2>2. \A m \in 1..Len(added) : added[m] = w1[g.hdr.mx + m].pg
    <3> SUFFICES ASSUME NEW m \in 1..Len(added)
                 PROVE  added[m] = w1[g.hdr.mx + m].pg
      OBVIOUS
    <3>1. CASE m = Len(g.added) + 1
      <4>1. /\ g.hdr.mx \in Nat /\ Len(g.added) \in Nat /\ n \in Nat
            /\ n - 1 = g.hdr.mx + Len(g.added)
        BY <1>2, <1>4, <1>12
      <4>2. g.hdr.mx + m = n
        BY <4>1, <3>1
      <4>3. QED
        BY <1>5, <1>8, <1>9, <3>1, <4>2
    <3>2. CASE m # Len(g.added) + 1
      <4>1. m \in 1..Len(g.added) /\ g.hdr.mx + m \in 1..n - 1 /\ n - 1 > 0
        <5>1. /\ g.hdr.mx \in Nat /\ Len(g.added) \in Nat /\ n \in Nat
              /\ n - 1 = g.hdr.mx + Len(g.added)
          BY <1>2, <1>4, <1>12
        <5>2. m \in 1..Len(g.added) + 1
          BY <1>9
        <5> DEFINE mx == g.hdr.mx
                   len == Len(g.added)
        <5>3. mx \in Nat /\ len \in Nat /\ n - 1 = mx + len /\ m \in 1..len + 1 /\ m # len + 1
          BY <5>1, <5>2, <3>2
        <5> HIDE DEF mx, len
        <5>4. m \in 1..len /\ mx + m \in 1..mx + len /\ mx + len > 0
          BY <5>3
        <5>5. QED
          BY <5>3, <5>4 DEF mx, len
      <4>2. g.added[m] = w[g.hdr.mx + m].pg
        BY <1>12, <1>13, <4>1 DEF Written1
      <4>3. QED
        BY <1>8, <1>9, <4>1, <4>2
    <3>3. QED
      BY <3>1, <3>2
  <2>3. h.com /\ h.todo = <<>> => h.com /\ n > 0 /\ w1[n].com
    BY <1>4, <1>5, <1>8, <1>11, Zenon DEF com
  <2>4. h.redo = 0 => h.hdr.sum = Chain(w1, n)
    BY <1>6, <1>10, <1>14
  <2>5. h.pc = "frame"
    BY <1>10
  <2>6. QED
    BY <1>10, <1>12, <1>13, <1>15, <2>1, <2>2, <2>3, <2>4, <2>5 DEF Written1
<1>17. \A m \in 1..n : m > shm.h0.mx => IsFrame(w1[m])
  <2> SUFFICES ASSUME NEW m \in 1..n, m > shm.h0.mx
               PROVE  IsFrame(w1[m])
    OBVIOUS
  <2>1. CASE m = n
    BY <1>5, <1>8, <2>1
  <2>2. CASE m # n
    <3>1. m \in 1..n - 1
      BY <1>4, <2>2
    <3>2. IsFrame(w[m])
      BY <1>2, <1>12, <3>1 DEF WriterInv
    <3>3. QED
      BY <1>8, <3>1, <3>2
  <2>3. QED
    BY <2>1, <2>2
<1>18. h.redo = 0 \/ h.redo \in shm.h0.mx + 1..n
  <2>1. g.redo = 0 \/ g.redo \in shm.h0.mx + 1..n - 1
    BY <1>2, <1>12 DEF WriterInv
  <2>2. QED
    BY <1>2, <1>4, <1>10, <2>1
<1>19. InWrite(h) /\ WriterInv(h, shm.h0, whdr.cur, w1, shm.idx)
  BY <1>1, <1>2, <1>10, <1>11, <1>12, <1>13, <1>16, <1>17, <1>18 DEF WriterInv, InWrite
<1>20. \A m \in 1..shm.h0.mx : w1[m] = w[m]
  <2> SUFFICES ASSUME NEW m \in 1..shm.h0.mx
               PROVE  w1[m] = w[m]
    OBVIOUS
  <2>1. m \in 1..n - 1
    BY <1>2, <1>12
  <2>2. QED
    BY <1>8, <2>1
<1>21. \A m \in 1..shm.h0.mx : OnIndex(w, shm.idx, m) => OnIndex(w1, shm.idx, m)
  BY <1>20 DEF OnIndex
<1>22. QED
  BY <1>1, <1>2, <1>3, <1>10, <1>12, <1>19, <1>20, <1>21, WriterStep DEF w, w1

\* The beginning of a sequence.
LEMMA SubSeqIs ==
  ASSUME NEW s, NEW m \in Nat
  PROVE  Len(SubSeq(s, 1, m)) = m /\ \A i \in 1..m : SubSeq(s, 1, m)[i] = s[i]
OBVIOUS

\* The beginning of what a checksum covers is what the shorter one covers.
LEMMA SubChain ==
  ASSUME NEW w, NEW last \in Nat, NEW n \in 1..last
  PROVE  SubSeq(Chain(w, last), 1, n) = Chain(w, n)
<1> DEFINE s == Chain(w, last)
           t == SubSeq(s, 1, n)
<1>1. Len(t) = n /\ \A i \in 1..n : t[i] = s[i]
  BY SubSeqIs
<1>2. IsASeq(s)
  <2>1. Len(s) = last /\ s = [i \in 1..last |-> s[i]]
    BY DEF Chain
  <2>2. QED
    BY <2>1 DEF IsASeq
<1>3. IsASeq(t)
  BY <1>2, Rows
<1>4. t = [i \in 1..n |-> t[i]]
  BY <1>1, <1>3 DEF IsASeq
<1>5. \A i \in 1..n : t[i] = Body(w[i])
  BY <1>1 DEF Chain
<1> HIDE DEF t
<1>6. [i \in 1..n |-> t[i]] = [i \in 1..n |-> Body(w[i])]
  BY <1>5
<1>7. QED
  BY <1>4, <1>6 DEF t, Chain

\* The checksums after a frame that was written over.
LEMMA RewriteChecksumsKeeps ==
  ASSUME IInv, IInv', JInv, NEW c \in Conns, RewriteChecksums(c)
  PROVE  JInv'
<1> DEFINE g == con[c]
           w == Cur(wal)
           w1 == Cur(wal')
           last == g.hdr.mx + Len(g.added)
           sum == [n \in 1..last |-> Body(wal[n].cur)]
           hdr == [g.hdr EXCEPT !.sum = sum]
           h == [g EXCEPT !.redo = 0, !.hdr = hdr]
           f(n) == [wal[n].cur EXCEPT !.salt = g.hdr.salt, !.sum = SubSeq(sum, 1, n)]
<1>1. /\ g.pc = "frame" /\ g.pc \in FramePcs /\ UNCHANGED <<db, shm, whdr>>
      /\ g.todo = <<>> /\ g.com /\ g.redo # 0
      /\ con' = [con EXCEPT ![c] = h]
      /\ wal' = [n \in Frames |-> IF n \in g.redo..last
                                  THEN WrittenPage(wal[n], f(n), NoFrame) ELSE wal[n]]
  BY DEF RewriteChecksums, AllWritten, At, Put
<1>2. /\ g = [x \in Fields |-> g[x]]
      /\ g.job = "txn" /\ g.slot # 0 /\ InWrite(g) /\ g.mode = Passive
      /\ g.dirty \subseteq Pages /\ GoodHdr(g.hdr) /\ IsASeq(g.added)
      /\ g.hdr.mx \in Nat /\ Len(g.added) \in Nat /\ last \in Nat
      /\ g.hdr.mx + Len(g.added) <= MaxFrame
      /\ GoodHdr(shm.h0) /\ shm.h0.mx \in Nat /\ shm.h0.mx <= g.hdr.mx
      /\ WriterInv(g, shm.h0, whdr.cur, w, shm.idx)
  <2>1. /\ g = [x \in Fields |-> g[x]]
        /\ g.job = "txn" /\ g.slot # 0 /\ InWrite(g) /\ g.mode = Passive
        /\ g.dirty \subseteq Pages /\ GoodHdr(g.hdr) /\ IsASeq(g.added)
        /\ g.hdr.mx \in Nat /\ Len(g.added) \in Nat
        /\ g.hdr.mx + Len(g.added) <= MaxFrame
        /\ GoodHdr(shm.h0) /\ shm.h0.mx \in Nat /\ shm.h0.mx <= g.hdr.mx
        /\ WriterInv(g, shm.h0, whdr.cur, Cur(wal), shm.idx)
    BY <1>1, BeforeFrames
  <2>2. last \in Nat
    BY <2>1
  <2>3. QED
    BY <2>1, <2>2
<1>3. w = [n \in Frames |-> wal[n].cur]
  BY DEF IInv, LogInv, FramesInv, Cur
<1>4. \A n \in 1..last : n \in Frames
  BY <1>2, Bounds DEF Frames
<1>5. sum = Chain(w, last)
  BY <1>3, <1>4 DEF Chain
<1>6. \A n \in 1..last : SubSeq(sum, 1, n) = Chain(w, n)
  <2>1. last \in Nat
    BY <1>2
  <2> HIDE DEF last, sum, w
  <2>2. QED
    BY <2>1, <1>5, SubChain
<1>7. \A n \in Frames : w1[n] = IF n \in g.redo..last THEN f(n) ELSE w[n]
  BY <1>1, <1>3 DEF Cur, WrittenPage
<1> HIDE DEF sum, last
<1>8. /\ g.redo \in shm.h0.mx + 1..last
      /\ \A n \in 1..last : n > shm.h0.mx => IsFrame(w[n])
      /\ Written1(g, whdr.cur, w, shm.idx) /\ whdr.cur = g.hdr.salt /\ whdr.cur # 0
  BY <1>1, <1>2 DEF WriterInv, last
<1>9. \A n \in 1..last :
        /\ n < g.redo => w1[n] = w[n]
        /\ n >= g.redo => w1[n] = [w[n] EXCEPT !.salt = g.hdr.salt, !.sum = Chain(w, n)]
  <2> SUFFICES ASSUME NEW n \in 1..last
               PROVE  /\ n < g.redo => w1[n] = w[n]
                      /\ n >= g.redo =>
                           w1[n] = [w[n] EXCEPT !.salt = g.hdr.salt, !.sum = Chain(w, n)]
    OBVIOUS
  <2>1. n \in Frames /\ w[n] = wal[n].cur /\ g.redo \in Int /\ last \in Int
    BY <1>2, <1>3, <1>4, <1>8
  <2>2. n < g.redo => n \notin g.redo..last
    BY <2>1
  <2>3. n >= g.redo => n \in g.redo..last
    BY <2>1
  <2>4. n < g.redo => w1[n] = w[n]
    BY <1>7, <2>1, <2>2
  <2>5. n >= g.redo => w1[n] = f(n)
    BY <1>7, <2>1, <2>3
  <2>6. f(n) = [w[n] EXCEPT !.salt = g.hdr.salt, !.sum = Chain(w, n)]
    BY <1>6, <2>1
  <2>7. QED
    BY <2>4, <2>5, <2>6
<1> HIDE DEF w, w1
<1>10. \A n \in 1..last :
         /\ w1[n].pg = w[n].pg /\ w1[n].com = w[n].com /\ Body(w1[n]) = Body(w[n])
         /\ n > shm.h0.mx => IsFrame(w1[n])
         /\ n >= g.redo => w1[n].salt = g.hdr.salt /\ w1[n].sum = Chain(w, n)
  <2> SUFFICES ASSUME NEW n \in 1..last
               PROVE  /\ w1[n].pg = w[n].pg /\ w1[n].com = w[n].com
                      /\ Body(w1[n]) = Body(w[n])
                      /\ n > shm.h0.mx => IsFrame(w1[n])
                      /\ n >= g.redo => w1[n].salt = g.hdr.salt /\ w1[n].sum = Chain(w, n)
    OBVIOUS
  <2>1. CASE n < g.redo
    <3>1. ~(n >= g.redo) /\ w1[n] = w[n]
      <4>1. g.redo \in Int
        BY <1>2, <1>8
      <4>2. n \in Int
        OBVIOUS
      <4>3. ~(n >= g.redo)
        BY <2>1, <4>1, <4>2
      <4>4. w1[n] = w[n]
        BY <1>9, <2>1
      <4>5. QED
        BY <4>3, <4>4
    <3>2. QED
      BY <1>8, <3>1
  <2>2. CASE n >= g.redo
    <3>1. IsFrame(w[n])
      BY <1>2, <1>8, <2>2
    <3>2. w1[n] = [w[n] EXCEPT !.salt = g.hdr.salt, !.sum = Chain(w, n)]
      BY <1>9, <2>2
    <3>3. QED
      BY <3>1, <3>2 DEF IsFrame, Body
  <2>3. QED
    BY <1>8, <2>1, <2>2
<1>11. \A n \in 1..last : Chain(w1, n) = Chain(w, n)
  <2> SUFFICES ASSUME NEW n \in 1..last
               PROVE  Chain(w1, n) = Chain(w, n)
    OBVIOUS
  <2>1. \A i \in 1..n : Body(w1[i]) = Body(w[i])
    BY <1>2, <1>10
  <2>2. QED
    BY <2>1 DEF Chain
<1>12. last > 0 /\ hdr.mx = g.hdr.mx /\ hdr.salt = g.hdr.salt /\ hdr.sum = sum
  <2>1. last > 0
    BY <1>2, <1>8
  <2>2. GoodHdr(g.hdr)
    BY <1>2
  <2>3. hdr.mx = g.hdr.mx /\ hdr.salt = g.hdr.salt /\ hdr.sum = sum
    BY <2>2 DEF GoodHdr, Hdr
  <2>4. QED
    BY <2>1, <2>3
<1> HIDE DEF hdr
<1>13. /\ h.pc = "frame" /\ h.job = "txn" /\ h.hdr = hdr /\ h.redo = 0
       /\ h.slot = g.slot /\ h.first = g.first /\ h.dirty = g.dirty /\ h.mode = Passive
       /\ h.added = g.added /\ h.todo = g.todo /\ h.com = g.com
  BY <1>1, <1>2 DEF Fields
<1> HIDE DEF h
<1>14. h.hdr.mx + Len(h.added) = last /\ h.hdr.mx = g.hdr.mx /\ h.hdr.salt = g.hdr.salt
  BY <1>12, <1>13 DEF last
<1>15. \A n \in 1..last : Fits(whdr.cur, w1, n)
  <2> SUFFICES ASSUME NEW n \in 1..last
               PROVE  Fits(whdr.cur, w1, n)
    OBVIOUS
  <2>1. CASE n < g.redo
    <3>1. Fits(whdr.cur, w, n)
      BY <1>8, <1>12, <2>1 DEF Written1, last
    <3>2. w1[n] = w[n] /\ w[n].sum = Chain(w, n) /\ w[n].salt = whdr.cur
      BY <1>9, <2>1, <3>1 DEF Fits, Chain
    <3>3. QED
      BY <1>8, <1>11, <3>2 DEF Fits, Chain
  <2>2. CASE n >= g.redo
    BY <1>8, <1>10, <1>11, <2>2 DEF Fits, Chain
  <2>3. QED
    BY <1>8, <2>1, <2>2
<1>16. Written1(h, whdr.cur, w1, shm.idx)
  <2>1. \A n \in 1..g.hdr.mx : n \in 1..last
    BY <1>2 DEF last
  <2>2. \A n \in 1..Len(g.added) : g.hdr.mx + n \in 1..last
    BY <1>2 DEF last
  <2>3. \A n \in 1..g.hdr.mx : OnIndex(w1, shm.idx, n)
    BY <1>8, <1>10, <1>12, <2>1 DEF Written1, OnIndex, last
  <2>4. \A n \in 1..Len(g.added) : g.added[n] = w1[g.hdr.mx + n].pg
    BY <1>8, <1>10, <1>12, <2>2 DEF Written1, last
  <2>5. last \in 1..last
    BY <1>2, <1>12
  <2>6. w1[last].com
    BY <1>1, <1>8, <1>10, <2>5 DEF Written1, last
  <2>7. h.hdr.sum = Chain(w1, last)
    BY <1>5, <1>11, <1>12, <1>13, <2>5 DEF w
  <2>8. QED
    <3>1. h.com /\ w1[h.hdr.mx + Len(h.added)].com /\ h.hdr.mx + Len(h.added) > 0
      BY <1>1, <1>12, <1>13, <1>14, <2>6
    <3>2. /\ whdr.cur = h.hdr.salt /\ whdr.cur # 0
          /\ \A n \in 1..h.hdr.mx : OnIndex(w1, shm.idx, n)
          /\ \A n \in 1..Len(h.added) : h.added[n] = w1[h.hdr.mx + n].pg
          /\ \A n \in 1..h.hdr.mx + Len(h.added) : Fits(whdr.cur, w1, n)
          /\ h.hdr.sum = Chain(w1, h.hdr.mx + Len(h.added))
      BY <1>8, <1>13, <1>14, <1>15, <2>3, <2>4, <2>7
    <3>3. QED
      BY <1>13, <3>1, <3>2 DEF Written1
<1>17. IsASeq(h.todo)
  BY <1>1, <1>2, <1>13 DEF WriterInv
<1>18. InWrite(h) /\ WriterInv(h, shm.h0, whdr.cur, w1, shm.idx)
  BY <1>1, <1>2, <1>8, <1>10, <1>13, <1>14, <1>16, <1>17 DEF WriterInv, InWrite
<1>19. \A n \in 1..shm.h0.mx : w1[n] = w[n]
  <2> SUFFICES ASSUME NEW n \in 1..shm.h0.mx
               PROVE  w1[n] = w[n]
    OBVIOUS
  <2>1. n \in 1..last /\ n < g.redo
    BY <1>2, <1>8 DEF last
  <2>2. QED
    BY <1>9, <2>1
<1>20. \A n \in 1..shm.h0.mx : OnIndex(w, shm.idx, n) => OnIndex(w1, shm.idx, n)
  BY <1>19 DEF OnIndex
<1>21. QED
  BY <1>1, <1>2, <1>13, <1>14, <1>18, <1>19, <1>20, WriterStep DEF w, w1

\* The sync of a commit changes nothing a process can see.
LEMMA SyncCommitKeeps ==
  ASSUME IInv, IInv', JInv, NEW c \in Conns, SyncCommit(c)
  PROVE  JInv'
<1> DEFINE g == con[c]
           h == [g EXCEPT !.pc = "index"]
<1>1. /\ g.pc = "frame" /\ g.pc \in FramePcs /\ UNCHANGED <<db, shm>>
      /\ g.todo = <<>> /\ g.com /\ g.redo = 0
      /\ con' = [con EXCEPT ![c] = h] /\ whdr'.cur = whdr.cur /\ Cur(wal') = Cur(wal)
  BY SyncIs, Before DEF SyncCommit, AllWritten, At, Goto
<1>2. /\ g = [f \in Fields |-> g[f]]
      /\ g.job = "txn" /\ g.slot # 0 /\ InWrite(g) /\ g.mode = Passive
      /\ g.dirty \subseteq Pages
      /\ WriterInv(g, shm.h0, whdr.cur, Cur(wal), shm.idx)
  BY <1>1, BeforeFrames
<1>3. /\ h.pc = "index" /\ h.job = g.job /\ h.hdr = g.hdr /\ h.redo = g.redo
      /\ h.slot = g.slot /\ h.first = g.first /\ h.dirty = g.dirty /\ h.mode = g.mode
      /\ h.added = g.added /\ h.todo = g.todo /\ h.com = g.com
  BY <1>2 DEF Fields
<1> HIDE DEF h
<1>4. Written1(h, whdr.cur, Cur(wal), shm.idx)
  <2>1. Written1(g, whdr.cur, Cur(wal), shm.idx)
    BY <1>2 DEF WriterInv
  <2>2. QED
    BY <1>1, <1>3, <2>1 DEF Written1
<1>5. InWrite(h) /\ WriterInv(h, shm.h0, whdr.cur, Cur(wal), shm.idx)
  BY <1>1, <1>2, <1>3, <1>4 DEF WriterInv, InWrite
<1>6. QED
  BY <1>1, <1>2, <1>3, <1>5, WriterStep

\* The index gets the pages of the frames that were added.
Indexed(idx, mx, added) == IF added = <<>> THEN idx ELSE SubSeq(idx, 1, mx) \o added

\* The old entries up to mxFrame stay, the added ones follow.
LEMMA IndexIs ==
  ASSUME NEW idx, IsASeq(idx), NEW mx \in Nat, NEW added, IsASeq(added), mx <= Len(idx),
         NEW idx1, idx1 = Indexed(idx, mx, added)
  PROVE  /\ mx + Len(added) <= Len(idx1)
         /\ \A n \in 1..mx : idx1[n] = idx[n]
         /\ \A n \in 1..Len(added) : idx1[mx + n] = added[n]
<1>1. CASE added = <<>>
  <2>1. Len(added) = 0 /\ idx1 = idx
    BY <1>1 DEF Indexed
  <2>2. QED
    BY <2>1
<1>2. CASE added # <<>>
  <2> DEFINE s == SubSeq(idx, 1, mx)
  <2>1. Len(s) = mx /\ IsASeq(s) /\ \A n \in 1..mx : s[n] = idx[n]
    BY SubSeqIs, Rows
  <2> HIDE DEF s
  <2>2. idx1 = s \o added
    BY <1>2 DEF s, Indexed
  <2>3. Len(added) \in Nat
    BY DEF IsASeq
  <2>4. /\ Len(s \o added) = mx + Len(added)
        /\ \A n \in 1..mx : (s \o added)[n] = s[n]
        /\ \A n \in mx + 1..mx + Len(added) : (s \o added)[n] = added[n - mx]
    <3>1. /\ Len(s \o added) = Len(s) + Len(added)
          /\ \A n \in 1..Len(s) : (s \o added)[n] = s[n]
          /\ \A n \in Len(s) + 1..Len(s) + Len(added) : (s \o added)[n] = added[n - Len(s)]
      BY <2>1, ConcatIs
    <3>2. Len(s) = mx
      BY <2>1
    <3>3. QED
      BY <3>1, <3>2
  <2>5. ASSUME NEW n \in 1..Len(added)
        PROVE  idx1[mx + n] = added[n]
    <3>1. mx + n \in mx + 1..mx + Len(added) /\ (mx + n) - mx = n
      BY <2>3
    <3>2. QED
      BY <2>2, <2>4, <3>1
  <2>6. mx + Len(added) <= Len(idx1) /\ \A n \in 1..mx : idx1[n] = idx[n]
    BY <2>1, <2>2, <2>3, <2>4
  <2>7. QED
    BY <2>5, <2>6
<1>3. QED
  BY <1>1, <1>2

\* The index gets the new frames; the header, which no reader goes beyond, does
\* not have them yet.
LEMMA IndexKeeps ==
  ASSUME IInv, IInv', JInv, NEW c \in Conns, Index(c)
  PROVE  JInv'
<1> DEFINE g == con[c]
           w == Cur(wal)
           n1 == g.hdr.mx + Len(g.added)
           hdr == Hdr(g.hdr.salt, n1, g.hdr.sum, IF g.com THEN 1 ELSE g.hdr.chg)
           idx == IF g.added = <<>> THEN shm.idx
                  ELSE SubSeq(shm.idx, 1, g.hdr.mx) \o g.added
           dirty == IF g.com THEN g.dirty ELSE g.dirty \ ToSet(g.added)
           pc == IF g.com THEN "publish" ELSE "write"
           h == [g EXCEPT !.pc = pc, !.hdr = hdr, !.dirty = dirty, !.added = <<>>, !.first = 0]
<1>1. /\ g.pc \in {"frame", "index"} /\ g.pc \in FramePcs /\ UNCHANGED <<db, whdr, wal>>
      /\ con' = [con EXCEPT ![c] = h]
      /\ shm'.h0 = shm.h0 /\ shm'.back = shm.back /\ shm'.idx = idx
  BY BeforeShm DEF Index, At, AllWritten, Put, ShmInv, log
<1>2. /\ g = [f \in Fields |-> g[f]]
      /\ g.job = "txn" /\ g.slot # 0 /\ InWrite(g) /\ g.mode = Passive
      /\ g.dirty \subseteq Pages /\ GoodHdr(g.hdr) /\ IsASeq(g.added)
      /\ g.hdr.mx \in Nat /\ Len(g.added) \in Nat
      /\ GoodHdr(shm.h0) /\ shm.h0.mx \in Nat /\ shm.h0.mx <= g.hdr.mx
      /\ WriterInv(g, shm.h0, whdr.cur, w, shm.idx)
  BY <1>1, BeforeFrames
<1>3. /\ g.com => g.redo = 0 /\ (g.pc = "frame" => g.todo = <<>>)
      /\ g.pc = "index" => g.com
  <2>1. g.pc = "index" => g.redo = 0 /\ g.com
    BY <1>2 DEF WriterInv, Written1
  <2>2. CASE g.pc = "index"
    BY <2>1, <2>2
  <2>3. CASE g.pc = "frame"
    BY <2>3 DEF Index, At, AllWritten
  <2>4. QED
    BY <1>1, <2>2, <2>3
<1>4. IsASeq(shm.idx)
  BY BeforeShm DEF ShmInv
<1>5. Written1(g, whdr.cur, w, shm.idx) /\ whdr.cur = g.hdr.salt /\ whdr.cur # 0
  BY <1>1, <1>2 DEF WriterInv
<1>6. g.hdr.mx <= Len(shm.idx)
  <2>1. CASE g.hdr.mx = 0
    BY <1>4, <2>1 DEF IsASeq
  <2>2. CASE g.hdr.mx # 0
    <3>1. n1 > 0 /\ g.hdr.mx \in 1..g.hdr.mx
      BY <1>2, <2>2
    <3>2. OnIndex(w, shm.idx, g.hdr.mx)
      BY <1>5, <3>1 DEF Written1
    <3>3. QED
      BY <3>2 DEF OnIndex
  <2>3. QED
    BY <2>1, <2>2
<1>8. /\ IsASeq(idx)
      /\ idx = Indexed(shm.idx, g.hdr.mx, g.added)
  BY <1>1 DEF IInv, ShmInv, Indexed
<1> HIDE DEF idx
<1>7. /\ n1 <= Len(idx)
      /\ \A n \in 1..g.hdr.mx : idx[n] = shm.idx[n]
      /\ \A n \in 1..Len(g.added) : idx[g.hdr.mx + n] = g.added[n]
  <2>1. /\ g.hdr.mx \in Nat /\ IsASeq(g.added) /\ IsASeq(shm.idx)
        /\ g.hdr.mx <= Len(shm.idx)
    BY <1>2, <1>4, <1>6
  <2>2. /\ g.hdr.mx + Len(g.added) <= Len(idx)
        /\ \A n \in 1..g.hdr.mx : idx[n] = shm.idx[n]
        /\ \A n \in 1..Len(g.added) : idx[g.hdr.mx + n] = g.added[n]
    <3> DEFINE old == shm.idx
               mx == g.hdr.mx
               added == g.added
    <3>1. mx \in Nat /\ IsASeq(added) /\ IsASeq(old) /\ mx <= Len(old)
          /\ idx = Indexed(old, mx, added)
      BY <1>8, <2>1
    <3> HIDE DEF old, mx, added
    <3>2. /\ mx + Len(added) <= Len(idx)
          /\ \A n \in 1..mx : idx[n] = old[n]
          /\ \A n \in 1..Len(added) : idx[mx + n] = added[n]
      BY <3>1, IndexIs, SMTT(30)
    <3>3. QED
      BY <3>2 DEF old, mx, added
  <2>3. QED
    BY <2>2
<1> HIDE DEF w
<1>9. hdr.mx = n1 /\ hdr.salt = g.hdr.salt /\ hdr.sum = g.hdr.sum
  BY DEF Hdr
<1> HIDE DEF hdr
<1>10. dirty \subseteq Pages /\ pc = (IF g.com THEN "publish" ELSE "write")
  BY <1>2
<1> HIDE DEF dirty, pc
<1>11. /\ h.pc = pc /\ h.job = "txn" /\ h.hdr = hdr /\ h.redo = g.redo
       /\ h.slot = g.slot /\ h.first = 0 /\ h.dirty = dirty /\ h.mode = Passive
       /\ h.added = <<>>
  BY <1>1, <1>2 DEF Fields
<1> HIDE DEF h
<1>12. n1 \in Nat /\ Len(h.added) = 0 /\ h.hdr.mx = n1 /\ h.hdr.mx + Len(h.added) = n1
       /\ h.hdr.salt = g.hdr.salt
  <2>1. n1 \in Nat /\ Len(h.added) = 0 /\ h.hdr.mx = n1 /\ h.hdr.salt = g.hdr.salt
    BY <1>2, <1>9, <1>11
  <2>2. QED
    BY <2>1
<1>13. \A n \in 1..n1 : OnIndex(w, idx, n)
  <2> SUFFICES ASSUME NEW n \in 1..n1
               PROVE  OnIndex(w, idx, n)
    OBVIOUS
  <2>1. n <= Len(idx)
    <3>1. Len(idx) \in Nat
      BY <1>8 DEF IsASeq
    <3>2. n1 \in Int /\ n1 <= Len(idx)
      BY <1>7, <1>12
    <3> HIDE DEF n1
    <3>3. QED
      BY <3>1, <3>2
  <2>2. n1 > 0
    BY <1>12
  <2>3. CASE n <= g.hdr.mx
    <3>1. n \in 1..g.hdr.mx
      BY <1>2, <1>12, <2>3
    <3>2. OnIndex(w, shm.idx, n)
      BY <1>5, <2>2, <3>1 DEF Written1
    <3>3. QED
      BY <1>7, <2>1, <3>1, <3>2 DEF OnIndex
  <2>4. CASE ~(n <= g.hdr.mx)
    <3>1. n - g.hdr.mx \in 1..Len(g.added) /\ g.hdr.mx + (n - g.hdr.mx) = n
      <4> DEFINE mx == g.hdr.mx
                 len == Len(g.added)
      <4>1. mx \in Nat /\ len \in Nat /\ n \in 1..mx + len /\ ~(n <= mx)
        BY <1>2, <2>4
      <4> HIDE DEF mx, len
      <4>2. n - mx \in 1..len /\ mx + (n - mx) = n
        BY <4>1
      <4>3. QED
        BY <4>2 DEF mx, len
    <3>2. g.added[n - g.hdr.mx] = w[n].pg
      BY <1>5, <2>2, <3>1 DEF Written1
    <3>3. idx[n] = g.added[n - g.hdr.mx]
      BY <1>7, <3>1
    <3>4. QED
      BY <2>1, <3>2, <3>3 DEF OnIndex
  <2>5. QED
    BY <2>3, <2>4
<1>14. g.com => n1 > 0 /\ w[n1].com
  BY <1>1, <1>3, <1>5 DEF Written1
<1>15. Written1(h, whdr.cur, w, idx)
  <2>1. h.pc \notin {"frame", "index"} /\ (h.pc = "publish" => g.com)
    BY <1>10, <1>11
  <2>2. h.pc = "publish" => h.hdr.mx > 0 /\ w[h.hdr.mx].com
    BY <1>12, <1>14, <2>1
  <2>3. \A n \in 1..Len(h.added) : FALSE
    BY <1>12
  <2>4. h.redo = 0 => h.hdr.sum = Chain(w, n1)
    BY <1>5, <1>9, <1>11 DEF Written1
  <2>5. \A n \in 1..n1 : h.redo = 0 \/ n < h.redo => Fits(whdr.cur, w, n)
    BY <1>5, <1>11, <1>12 DEF Written1
  <2>6. QED
    BY <1>5, <1>12, <1>13, <2>1, <2>2, <2>3, <2>4, <2>5 DEF Written1
<1>16. InWrite(h) /\ WriterInv(h, shm.h0, whdr.cur, w, idx)
  <2>1. h.pc \in {"publish", "write"} /\ (h.pc = "publish" => h.redo = 0)
    BY <1>3, <1>10, <1>11
  <2>2. h.redo = 0 \/ h.redo \in shm.h0.mx + 1..h.hdr.mx + Len(h.added)
    BY <1>2, <1>11, <1>12 DEF WriterInv
  <2>3. \A n \in 1..h.hdr.mx + Len(h.added) : n > shm.h0.mx => IsFrame(w[n])
    BY <1>2, <1>12 DEF WriterInv
  <2>4. QED
    BY <1>2, <1>11, <1>15, <2>1, <2>2, <2>3 DEF WriterInv, InWrite
<1>17. \A n \in 1..shm.h0.mx : OnIndex(w, idx, n)
  BY <1>2, <1>12, <1>13
<1>18. h.pc \notin ResetPcs
  BY <1>10, <1>11
<1> HIDE DEF n1
<1>19. QED
  BY <1>1, <1>2, <1>10, <1>11, <1>12, <1>16, <1>17, <1>18, WriterStep DEF w

\* The commit can be seen.
LEMMA PublishKeeps ==
  ASSUME IInv, IInv', JInv, NEW c \in Conns, Publish(c)
  PROVE  JInv'
<1> DEFINE g == con[c]
           w == Cur(wal)
           h == [g EXCEPT !.pc = "done", !.dirty = {}, !.com = FALSE]
<1>1. /\ g.pc = "publish" /\ g.pc \in FramePcs /\ UNCHANGED <<db, whdr, wal>>
      /\ con' = [con EXCEPT ![c] = h]
      /\ shm'.h0 = g.hdr /\ shm'.back = shm.back /\ shm'.idx = shm.idx
  BY BeforeShm DEF Publish, At, Put, ShmInv, log
<1>2. /\ g = [f \in Fields |-> g[f]]
      /\ g.job = "txn" /\ g.slot # 0 /\ InWrite(g) /\ g.mode = Passive
      /\ GoodHdr(g.hdr) /\ g.added = <<>> /\ g.hdr.mx \in Nat
      /\ GoodHdr(shm.h0) /\ shm.h0.mx \in Nat /\ shm.h0.mx <= g.hdr.mx
      /\ WriterInv(g, shm.h0, whdr.cur, w, shm.idx)
  BY <1>1, BeforeFrames
<1>3. Written1(g, whdr.cur, w, shm.idx) /\ g.redo = 0 /\ g.first = 0
  BY <1>1, <1>2 DEF WriterInv
<1>4. g.hdr.mx + Len(g.added) = g.hdr.mx /\ g.hdr.mx > 0
  <2>1. Len(g.added) = 0 /\ g.hdr.mx \in Nat
    BY <1>2
  <2>2. g.hdr.mx > 0
    BY <1>1, <1>3 DEF Written1
  <2>3. QED
    BY <2>1, <2>2
<1>5. c \in excl[WRITE_LOCK]
  BY <1>2, BeforeWrite
<1>6. /\ h.pc = "done" /\ h.job = "txn" /\ h.hdr = g.hdr /\ h.redo = 0 /\ h.first = 0
      /\ h.slot = g.slot /\ h.dirty = {} /\ h.mode = Passive /\ h.added = <<>>
  BY <1>2, <1>3 DEF Fields
<1>7. h = con'[c] /\ JobInv(con'[c])
  BY <1>1, BeforeShm DEF IInv, ConInv
<1> HIDE DEF h
<1>8. FitsLog(g.hdr, whdr.cur, w, shm.idx)
  BY <1>1, <1>3, <1>4 DEF Written1, FitsLog
<1>9. shm.h0.mx > 0 => shm.h0.salt = g.hdr.salt
  BY <1>3, <1>4, BeforeShm DEF Written1, FitsLog
<1>10. Allowed(c)
  <2>1. shm.h0.mx <= 0 \/ shm.h0.salt = g.hdr.salt
    BY <1>2, <1>9
  <2>2. QED
    BY <1>1, <1>2, <1>5, <2>1 DEF Allowed
<1>11. shm.back = 0 \/ shm.back <= shm.h0.mx
  BY <1>1, <1>5, BackWithin
<1>12. DbInv(shm'.h0, shm'.back, whdr'.cur, Cur(wal'), db')
  <2>1. DbInv(g.hdr, shm.back, whdr.cur, w, db)
    BY <1>2, <1>4, <1>11, BeforeShm, DbGrows
  <2>2. QED
    BY <1>1, <2>1
<1>13. BackInv(shm'.h0, shm'.back, con')
  <2>1. shm.back \in Nat
    BY BeforeShm
  <2>2. QED
    BY <1>1, <1>2, <1>11, <2>1 DEF BackInv
<1>14. Written1(h, whdr.cur, w, shm.idx)
  <2>1. /\ Len(h.added) = 0 /\ h.pc = "done" /\ h.hdr.mx + Len(h.added) = g.hdr.mx
        /\ g.hdr.mx + Len(g.added) = g.hdr.mx
    BY <1>2, <1>4, <1>6
  <2>2. \A n \in 1..Len(h.added) : FALSE
    BY <2>1
  <2>3. QED
    BY <1>3, <1>6, <2>1, <2>2 DEF Written1
<1>15. InWrite(h) /\ WriterInv(h, g.hdr, whdr.cur, w, shm.idx)
  <2>1. \A n \in 1..h.hdr.mx + Len(h.added) : ~(n > g.hdr.mx)
    BY <1>2, <1>4, <1>6
  <2>2. QED
    BY <1>2, <1>6, <1>14, <2>1 DEF WriterInv, InWrite
<1>16. /\ Parts(h, shm'.h0, shm'.back, whdr'.cur, Cur(wal'), shm'.idx, db')
       /\ ~Knows(h)
  <2>1. /\ Parts(h, g.hdr, shm.back, whdr.cur, w, shm.idx, db)
        /\ ~Knows(h)
    BY <1>2, <1>6, <1>7, <1>15, WriterParts
  <2>2. QED
    BY <1>1, <2>1
<1>17. \A d \in Conns : Fresh(h, con[d], shm'.h0) /\ Fresh(con[d], h, shm'.h0)
  BY <1>1, <1>6, <1>16 DEF Fresh
<1>18. FitsLog(shm'.h0, whdr'.cur, Cur(wal'), shm'.idx)
  BY <1>1, <1>8
<1>19. QED
  BY <1>1, <1>10, <1>12, <1>13, <1>16, <1>17, <1>18, OneStep

\* The writer lets go of its lock, and is a reader of what it has committed.
LEMMA EndWriteKeeps ==
  ASSUME IInv, IInv', JInv, NEW c \in Conns, EndWrite(c)
  PROVE  JInv'
<1> DEFINE g == con[c]
           h == [g EXCEPT !.pc = "read", !.redo = 0]
<1>1. g.pc = "done" /\ g.pc \in FramePcs /\ con' = [con EXCEPT ![c] = h] /\ Unseen
  BY SameFiles DEF EndWrite, At, Put
<1>2. /\ g = [f \in Fields |-> g[f]] /\ g.job = "txn" /\ g.slot # 0 /\ g.mode = Passive
      /\ g.dirty \subseteq Pages /\ WriterInv(g, shm.h0, whdr.cur, Cur(wal), shm.idx)
  BY <1>1, BeforeFrames
<1>3. g.first = 0
  BY <1>1, <1>2 DEF WriterInv
<1>4. /\ h.pc = "read" /\ h.job = "txn" /\ h.slot = g.slot /\ h.redo = 0 /\ h.first = 0
      /\ h.dirty = g.dirty /\ h.mode = Passive
  BY <1>2, <1>3 DEF Fields
<1> HIDE DEF h
<1>5. Harmless(h)
  BY <1>2, <1>4 DEF Harmless
<1>6. QED
  BY <1>1, <1>5, HarmlessStep

\* The header is again that of the last commit, and the index ends there.
LEMMA RollbackKeeps ==
  ASSUME IInv, IInv', JInv, NEW c \in Conns, Rollback(c)
  PROVE  JInv'
<1> DEFINE g == con[c]
           image == Image(g.min, IF g.slot = 0 THEN 0 ELSE shm.h0.mx)
           h == [g EXCEPT !.pc = "read", !.hdr = shm.h0, !.dirty = {}, !.redo = 0,
                          !.cache = image]
           idx == IF shm.h0.mx \in {0, g.hdr.mx} THEN shm.idx
                  ELSE SubSeq(shm.idx, 1, shm.h0.mx)
<1>1. /\ g.pc = "write" /\ con' = [con EXCEPT ![c] = h] /\ UNCHANGED <<db, whdr, wal>>
      /\ shm'.h0 = shm.h0 /\ shm'.back = shm.back /\ shm'.idx = idx
  BY BeforeShm DEF Rollback, At, Put, log, ShmInv
<1>2. g.job = "txn" /\ InWrite(g)
  BY <1>1, Before DEF JobInv, InWrite
<1>3. /\ WriterInv(g, shm.h0, whdr.cur, Cur(wal), shm.idx) /\ g.mode = Passive
      /\ c \in excl[WRITE_LOCK]
      /\ g.slot = 0 => shm.back \in {0, g.hdr.mx}
  BY <1>1, <1>2, BeforeWrite
<1>4. g.first = 0 /\ (g.slot = 0 => g.hdr = shm.h0)
  BY <1>1, <1>3 DEF WriterInv
<1> HIDE DEF image
<1>5. /\ h.pc = "read" /\ h.job = "txn" /\ h.slot = g.slot /\ h.redo = 0 /\ h.first = 0
      /\ h.dirty = {} /\ h.mode = Passive /\ h.hdr = shm.h0
  BY <1>2, <1>3, <1>4, Before DEF Fields
<1> HIDE DEF h
<1>6. ~InWrite(h) /\ ~Knows(h)
  BY <1>5 DEF InWrite, Knows
<1>7. OtherInv(h, shm.h0, shm.back, whdr.cur, Cur(wal), idx, db)
  BY <1>3, <1>4, <1>5, <1>6 DEF OtherInv
<1>8. Parts(h, shm.h0, shm.back, whdr.cur, Cur(wal), idx, db)
  BY <1>5, <1>6, <1>7 DEF Parts, ResetInv, CkptInv, CopyInv
<1>9. \A n \in 1..shm.h0.mx : OnIndex(Cur(wal), shm.idx, n) => OnIndex(Cur(wal), idx, n)
  <2>1. CASE shm.h0.mx \in {0, g.hdr.mx}
    BY <2>1
  <2>2. CASE shm.h0.mx \notin {0, g.hdr.mx}
    <3> SUFFICES ASSUME NEW n \in 1..shm.h0.mx, OnIndex(Cur(wal), shm.idx, n)
                 PROVE  OnIndex(Cur(wal), idx, n)
      OBVIOUS
    <3>1. shm.h0.mx \in Nat
      BY BeforeShm
    <3>2. Len(idx) = shm.h0.mx /\ idx[n] = shm.idx[n]
      BY <2>2, <3>1, SubSeqIs
    <3> HIDE DEF idx
    <3>3. n <= Len(idx)
      BY <3>1, <3>2
    <3>4. QED
      BY <3>2, <3>3 DEF OnIndex
  <2>3. QED
    BY <2>1, <2>2
<1> HIDE DEF idx
<1>10. FitsLog(shm.h0, whdr.cur, Cur(wal), idx)
  BY <1>9, BeforeShm, FitsKept
<1>11. Allowed(c)
  BY <1>1, <1>3 DEF Allowed
<1>12. BackInv(shm'.h0, shm'.back, con')
  <2>1. shm.back = 0 \/ shm.back <= shm.h0.mx
    BY <1>1, <1>3, BackWithin
  <2>2. QED
    BY <1>1, <2>1 DEF BackInv
<1>13. /\ FitsLog(shm'.h0, whdr'.cur, Cur(wal'), shm'.idx)
       /\ DbInv(shm'.h0, shm'.back, whdr'.cur, Cur(wal'), db')
       /\ Parts(h, shm'.h0, shm'.back, whdr'.cur, Cur(wal'), shm'.idx, db')
  BY <1>1, <1>8, <1>10, BeforeShm
<1>14. \A d \in Conns : Fresh(h, con[d], shm'.h0) /\ Fresh(con[d], h, shm'.h0)
  BY <1>6 DEF Fresh
<1>15. QED
  BY <1>1, <1>11, <1>12, <1>13, <1>14, OneStep

-----------------------------------------------------------------------------
\* sqlite3WalCheckpoint()

\* The header is read; with the write lock it is that of the log.
LEMMA BeginCheckpointKeeps ==
  ASSUME IInv, IInv', JInv, NEW c \in Conns, NEW mode, BeginCheckpoint(c, mode)
  PROVE  JInv'
<1> DEFINE g == con[c]
           md == IF mode # Passive /\ CanOwn(WRITE_LOCK) THEN mode ELSE Passive
           h == [g EXCEPT !.pc = "copy1", !.job = "ckpt", !.tmp = shm.h0, !.mode = md]
<1>1. g.pc = "idle" /\ con' = [con EXCEPT ![c] = h] /\ Unseen
  BY SameFiles DEF BeginCheckpoint, At, Put
<1>2. g.redo = 0 /\ g.first = 0 /\ g.dirty \subseteq Pages
  BY <1>1, Before DEF JobInv, InWrite
<1>3. /\ h.pc = "copy1" /\ h.job = "ckpt" /\ h.tmp = shm.h0 /\ h.redo = 0 /\ h.first = 0
      /\ h.dirty \subseteq Pages
  BY <1>2, Before DEF Fields
<1>4. JobInv(h)
  BY <1>1, BeforeShm DEF IInv, ConInv
<1> HIDE DEF h
<1>5. Known(h) = shm.h0 /\ Older(shm.h0, shm.h0)
  BY <1>3, BeforeShm DEF Known, Older
<1>6. Parts(h, shm.h0, shm.back, whdr.cur, Cur(wal), shm.idx, db) /\ ~InWrite(h)
  BY <1>3, <1>4, <1>5, CkptParts
<1>7. Heir(h, g, shm.h0)
  BY <1>5, <1>6 DEF Heir
<1>8. QED
  BY <1>1, <1>6, <1>7, QuietStep

\* What a checkpoint has before a step.
LEMMA BeforeCkpt ==
  ASSUME IInv, JInv, NEW c \in Conns, con[c].pc \in CkptPcs
  PROVE  LET g == con[c]
         IN /\ g = [f \in Fields |-> g[f]] /\ g.job = "ckpt" /\ ~InWrite(g)
            /\ c \in excl[CKPT_LOCK] /\ (g.mode # Passive => c \in excl[WRITE_LOCK])
            /\ g.redo = 0 /\ g.first = 0 /\ g.dirty \subseteq Pages /\ GoodHdr(g.hdr)
            /\ CkptInv(g, shm.h0, shm.back, Cur(wal))
            /\ CopyInv(g, shm.h0, shm.back, Cur(wal), db)
            /\ g.mode # Passive /\ g.pc \in {"start", "copied"} \cup SafePcs => g.hdr = shm.h0
            /\ g.pc \in SafePcs => g.safe \in 0..g.hdr.mx
            /\ g.pc \in {"start"} \cup SafePcs => Knows(g) /\ Known(g) = g.hdr
            /\ g.pc \in CopyPcs => c \in excl[READ_LOCK(0)]
            /\ g.hdr.mx \in Nat
<1> DEFINE g == con[c]
<1>1. /\ g = [f \in Fields |-> g[f]] /\ JobInv(g) /\ DataInv(g)
      /\ \A s \in Owns(g) : c \in excl[s]
      /\ Parts(g, shm.h0, shm.back, whdr.cur, Cur(wal), shm.idx, db)
      /\ g.dirty \subseteq Pages
      /\ ~InWrite(g) => g.redo = 0 /\ g.first = 0
      /\ g.pc \in CkptPcs
  BY Before
<1> HIDE DEF g
<1>2. g.job = "ckpt" /\ ~InWrite(g)
  BY <1>1 DEF JobInv, InWrite
<1>3. GoodHdr(g.hdr) /\ (g.pc \in SafePcs => g.safe \in 0..g.hdr.mx)
  BY <1>1 DEF DataInv
<1>4. g.hdr.mx \in Nat
  BY <1>3, Bounds DEF GoodHdr
<1>5. /\ CkptInv(g, shm.h0, shm.back, Cur(wal))
      /\ CopyInv(g, shm.h0, shm.back, Cur(wal), db)
      /\ g.mode # Passive /\ g.pc \in {"start", "copied"} \cup SafePcs => g.hdr = shm.h0
  BY <1>1 DEF Parts, OtherInv
<1>6. g.pc \in {"start"} \cup SafePcs => Knows(g) /\ Known(g) = g.hdr
  BY <1>2 DEF Knows, Known
<1>7. /\ c \in excl[CKPT_LOCK] /\ (g.mode # Passive => c \in excl[WRITE_LOCK])
      /\ g.pc \in CopyPcs => c \in excl[READ_LOCK(0)]
  BY <1>1, <1>2 DEF Owns
<1>8. QED
  BY <1>1, <1>2, <1>3, <1>4, <1>5, <1>6, <1>7 DEF g

\* A step of a checkpoint that nobody sees, and that changes nothing it knows.
LEMMA CkptQuiet ==
  ASSUME IInv, IInv', JInv, NEW c \in Conns, con[c].pc \in CkptPcs,
         NEW h, con' = [con EXCEPT ![c] = h], Unseen,
         h.pc \in {"start", "copied", "mark", "truncated"}, h.job = "ckpt",
         h.hdr = con[c].hdr, h.mode = con[c].mode, h.redo = con[c].redo,
         h.first = con[c].first, h.dirty = con[c].dirty,
         h.pc = "mark" => Knows(con[c]) /\ con[c].pc \in {"start"} \cup SafePcs,
         h.pc = "start" => con[c].pc = "start",
         h.pc = "copied" => con[c].pc \in {"start", "copied"} \cup SafePcs
  PROVE  JInv'
<1> DEFINE g == con[c]
<1>1. JobInv(h)
  BY BeforeShm DEF IInv, ConInv
<1>2. /\ g.job = "ckpt" /\ g.redo = 0 /\ g.first = 0 /\ g.dirty \subseteq Pages
      /\ CkptInv(g, shm.h0, shm.back, Cur(wal))
      /\ g.mode # Passive /\ g.pc \in {"start", "copied"} \cup SafePcs => g.hdr = shm.h0
      /\ g.pc \in {"start"} \cup SafePcs => Knows(g) /\ Known(g) = g.hdr
  BY BeforeCkpt
<1>3. Knows(h) => Known(h) = g.hdr /\ Knows(g) /\ Known(g) = g.hdr
  BY <1>2 DEF Knows, Known
<1>4. Knows(h) => Older(Known(h), shm.h0)
  BY <1>2, <1>3 DEF CkptInv
<1>5. h.mode # Passive /\ h.pc \in {"start", "copied"} \cup SafePcs => h.hdr = shm.h0
  BY <1>2
<1>6. Parts(h, shm.h0, shm.back, whdr.cur, Cur(wal), shm.idx, db) /\ ~InWrite(h)
  BY <1>1, <1>2, <1>4, <1>5, CkptParts
<1>7. Heir(h, g, shm.h0)
  BY <1>3, <1>6 DEF Heir
<1>8. QED
  BY <1>6, <1>7, QuietStep

\* A checkpoint starts from its header, or has nothing to copy.
LEMMA StartCheckpointKeeps ==
  ASSUME IInv, IInv', JInv, NEW c \in Conns, StartCheckpoint(c)
  PROVE  JInv'
<1> DEFINE g == con[c]
           h1 == [g EXCEPT !.pc = "mark", !.safe = g.hdr.mx, !.i = 1]
           h2 == [g EXCEPT !.pc = "copied"]
<1>1. g.pc = "start" /\ g.pc \in CkptPcs /\ Unseen
  BY SameFiles DEF StartCheckpoint, At
<1>2. g = [f \in Fields |-> g[f]] /\ g.job = "ckpt" /\ Knows(g)
  BY <1>1, BeforeCkpt
<1>3. CASE shm.back < g.hdr.mx
  <2>1. con' = [con EXCEPT ![c] = h1]
    BY <1>3 DEF StartCheckpoint, Put
  <2>2. /\ h1.pc = "mark" /\ h1.job = "ckpt" /\ h1.hdr = g.hdr /\ h1.mode = g.mode
        /\ h1.redo = g.redo /\ h1.first = g.first /\ h1.dirty = g.dirty
    BY <1>2 DEF Fields
  <2> HIDE DEF h1
  <2>3. QED
    BY <1>1, <1>2, <2>1, <2>2, CkptQuiet
<1>4. CASE ~(shm.back < g.hdr.mx)
  <2>1. con' = [con EXCEPT ![c] = h2]
    BY <1>4, Before DEF StartCheckpoint, Goto
  <2>2. /\ h2.pc = "copied" /\ h2.job = "ckpt" /\ h2.hdr = g.hdr /\ h2.mode = g.mode
        /\ h2.redo = g.redo /\ h2.first = g.first /\ h2.dirty = g.dirty
    BY <1>2 DEF Fields
  <2> HIDE DEF h2
  <2>3. QED
    BY <1>1, <1>2, <2>1, <2>2, CkptQuiet
<1>5. QED
  BY <1>3, <1>4

\* A reader's mark holds the checkpoint back, or is moved out of its way.
LEMMA CheckMarkKeeps ==
  ASSUME IInv, IInv', JInv, NEW c \in Conns, CheckMark(c)
  PROVE  JInv'
<1> DEFINE g == con[c]
           y == shm.mark[g.i]
           h1 == [g EXCEPT !.i = g.i + 1]
           h2 == [g EXCEPT !.i = g.i + 1, !.safe = Min({g.safe, y})]
<1>1. g.pc = "mark" /\ g.pc \in CkptPcs /\ Unseen
  BY BeforeShm DEF CheckMark, At, Unseen, log, ShmInv
<1>2. g = [f \in Fields |-> g[f]] /\ g.job = "ckpt" /\ Knows(g)
  BY <1>1, BeforeCkpt
<1>3. con' = [con EXCEPT ![c] = h1] \/ con' = [con EXCEPT ![c] = h2]
  BY DEF CheckMark, Put
<1>4. /\ h1.pc = "mark" /\ h1.job = "ckpt" /\ h1.hdr = g.hdr /\ h1.mode = g.mode
      /\ h1.redo = g.redo /\ h1.first = g.first /\ h1.dirty = g.dirty
  BY <1>1, <1>2 DEF Fields
<1>5. /\ h2.pc = "mark" /\ h2.job = "ckpt" /\ h2.hdr = g.hdr /\ h2.mode = g.mode
      /\ h2.redo = g.redo /\ h2.first = g.first /\ h2.dirty = g.dirty
  BY <1>1, <1>2 DEF Fields
<1> HIDE DEF h1, h2
<1>6. QED
  BY <1>1, <1>2, <1>3, <1>4, <1>5, CkptQuiet

\* walFindFrame() returns the last frame of a page in a part of the log that
\* the header has.
LEMMA FoundIsLast ==
  ASSUME NEW h, h.mx \in Int, NEW salt, NEW w, NEW idx, FitsLog(h, salt, w, idx),
         NEW mx \in Nat, mx <= h.mx, NEW p, NEW n \in 1..mx
  PROVE  LastFrame(idx, 1, mx, p) = n <=> IsLast(w, mx, n) /\ w[n].pg = p
<1> DEFINE k == LastFrame(idx, 1, mx, p)
           S == {0} \cup {m \in 1..mx : m <= Len(idx) /\ idx[m] = p}
<1>1. k \in S /\ (\A m \in S : m <= k) /\ k >= 0 /\ k <= mx
  BY FoundFrame
<1> HIDE DEF k
<1>2. \A m \in 1..mx : m <= Len(idx) /\ idx[m] = w[m].pg
  <2>1. h.mx > 0 /\ \A m \in 1..mx : m \in 1..h.mx
    OBVIOUS
  <2>2. QED
    BY <2>1 DEF FitsLog, OnIndex
<1>3. \A m \in 1..mx : m \in S <=> w[m].pg = p
  BY <1>2
<1>4. S \subseteq {0} \cup 1..mx
  OBVIOUS
<1> HIDE DEF S
<1>5. n \in Int /\ k \in Int /\ \A m \in 1..mx : m \in Int
  BY <1>1, <1>4
<1>6. ASSUME k = n
      PROVE  IsLast(w, mx, n) /\ w[n].pg = p
  <2>1. w[n].pg = p
    BY <1>1, <1>3, <1>6
  <2>2. ASSUME NEW m \in n + 1..mx, w[m].pg = w[n].pg
        PROVE  FALSE
    <3>1. m \in 1..mx /\ m > n
      BY <1>5
    <3>2. m \in S
      BY <1>3, <2>1, <2>2, <3>1
    <3>3. QED
      BY <1>1, <1>5, <1>6, <3>1, <3>2
  <2>3. QED
    BY <2>1, <2>2 DEF IsLast
<1>7. ASSUME IsLast(w, mx, n), w[n].pg = p
      PROVE  k = n
  <2>1. n \in S /\ n <= k
    BY <1>1, <1>3, <1>7
  <2>2. k \in 1..mx
    BY <1>1, <1>5, <2>1
  <2>3. w[k].pg = p
    BY <1>1, <1>3, <2>2
  <2>4. ~(k \in n + 1..mx)
    BY <1>7, <2>3 DEF IsLast
  <2>5. QED
    BY <1>1, <1>5, <2>1, <2>4
<1>8. QED
  BY <1>6, <1>7 DEF k

\* A checkpoint with the iterator, that copies pages.
LEMMA CopyParts ==
  ASSUME NEW h, h.job = "ckpt", JobInv(h), h.pc \in CopyPcs,
         h.redo = 0, h.first = 0, h.dirty \subseteq Pages,
         NEW h0, NEW back, NEW salt, NEW w, NEW idx, NEW d,
         Older(h.hdr, h0), CopyInv(h, h0, back, w, d), h.mode # Passive => h.hdr = h0
  PROVE  Parts(h, h0, back, salt, w, idx, d) /\ ~InWrite(h) /\ Knows(h) /\ Known(h) = h.hdr
<1>1. ~InWrite(h) /\ Knows(h) /\ Known(h) = h.hdr
  BY DEF InWrite, Knows, Known
<1>2. OtherInv(h, h0, back, salt, w, idx, d)
  BY <1>1 DEF OtherInv
<1>3. QED
  BY <1>1, <1>2 DEF Parts, ResetInv, CkptInv

\* walIteratorInit().
LEMMA IteratorKeeps ==
  ASSUME IInv, IInv', JInv, NEW c \in Conns, Iterator(c)
  PROVE  JInv'
<1> DEFINE g == con[c]
           w == Cur(wal)
           iter == [p \in Pages |-> FindFrame(1, g.hdr.mx, p)]
           h1 == [g EXCEPT !.pc = "lock0", !.iter = iter]
           h2 == [g EXCEPT !.pc = "copied"]
<1>1. g.pc = "mark" /\ g.pc \in CkptPcs /\ Unseen
  BY SameFiles DEF Iterator, At
<1>2. /\ g = [f \in Fields |-> g[f]] /\ g.job = "ckpt" /\ Knows(g) /\ Known(g) = g.hdr
      /\ g.redo = 0 /\ g.first = 0 /\ g.dirty \subseteq Pages /\ g.hdr.mx \in Nat
      /\ CkptInv(g, shm.h0, shm.back, w)
      /\ g.mode # Passive => g.hdr = shm.h0
  BY <1>1, BeforeCkpt
<1>3. Older(g.hdr, shm.h0)
  BY <1>2 DEF CkptInv
<1>4. CASE shm.back < g.safe
  <2>1. con' = [con EXCEPT ![c] = h1]
    BY <1>4 DEF Iterator, Put
  <2>2. g.hdr.salt = shm.h0.salt =>
          \A p \in Pages : \A n \in 1..g.hdr.mx :
            iter[p] = n <=> IsLast(w, g.hdr.mx, n) /\ w[n].pg = p
    <3> SUFFICES ASSUME g.hdr.salt = shm.h0.salt, NEW p \in Pages, NEW n \in 1..g.hdr.mx
                 PROVE  iter[p] = n <=> IsLast(w, g.hdr.mx, n) /\ w[n].pg = p
      OBVIOUS
    <3>1. g.hdr.mx <= shm.h0.mx
      BY <1>3 DEF Older
    <3>2. iter[p] = LastFrame(shm.idx, 1, g.hdr.mx, p)
      BY DEF FindFrame
    <3> HIDE DEF iter, g, w
    <3>3. shm.h0.mx \in Int /\ FitsLog(shm.h0, whdr.cur, w, shm.idx)
      BY BeforeShm DEF w
    <3>4. QED
      BY <1>2, <3>1, <3>2, <3>3, FoundIsLast
  <2> HIDE DEF iter
  <2>3. /\ h1.pc = "lock0" /\ h1.job = "ckpt" /\ h1.hdr = g.hdr /\ h1.mode = g.mode
        /\ h1.redo = g.redo /\ h1.first = g.first /\ h1.dirty = g.dirty
        /\ h1.iter = iter /\ h1.safe = g.safe
    BY <1>2 DEF Fields
  <2> HIDE DEF h1
  <2>4. Knows(h1) /\ Known(h1) = g.hdr /\ ~InWrite(h1)
    BY <2>3 DEF Knows, Known, InWrite
  <2>5. CkptInv(h1, shm.h0, shm.back, w)
    BY <1>3, <1>4, <2>2, <2>3, <2>4 DEF CkptInv
  <2>6. OtherInv(h1, shm.h0, shm.back, whdr.cur, w, shm.idx, db)
    BY <1>2, <2>3, <2>4 DEF OtherInv
  <2>7. Parts(h1, shm.h0, shm.back, whdr.cur, w, shm.idx, db)
    BY <2>3, <2>4, <2>5, <2>6 DEF Parts, ResetInv, CopyInv
  <2>8. Heir(h1, g, shm.h0)
    BY <1>2, <2>4 DEF Heir
  <2>9. QED
    BY <1>1, <2>1, <2>7, <2>8, QuietStep
<1>5. CASE ~(shm.back < g.safe)
  <2>1. con' = [con EXCEPT ![c] = h2]
    BY <1>5, Before DEF Iterator, Goto
  <2>2. /\ h2.pc = "copied" /\ h2.job = "ckpt" /\ h2.hdr = g.hdr /\ h2.mode = g.mode
        /\ h2.redo = g.redo /\ h2.first = g.first /\ h2.dirty = g.dirty
    BY <1>2 DEF Fields
  <2> HIDE DEF h2
  <2>3. QED
    BY <1>1, <1>2, <2>1, <2>2, CkptQuiet
<1>6. QED
  BY <1>4, <1>5

\* The database file is locked, if the log is still the one that was read.
LEMMA LockDbKeeps ==
  ASSUME IInv, IInv', JInv, NEW c \in Conns, LockDb(c)
  PROVE  JInv'
<1> DEFINE g == con[c]
           w == Cur(wal)
           todo == {q \in Pages : g.iter[q] \in shm.back + 1..g.safe}
           iter == [p \in todo |-> g.iter[p]]
           h1 == [g EXCEPT !.pc = "synclog", !.iter = iter]
           h2 == [g EXCEPT !.pc = "copied"]
<1>1. g.pc = "lock0" /\ g.pc \in CkptPcs /\ Unseen
  BY SameFiles DEF LockDb, At
<1>2. /\ g = [f \in Fields |-> g[f]] /\ g.job = "ckpt" /\ Knows(g) /\ Known(g) = g.hdr
      /\ g.redo = 0 /\ g.first = 0 /\ g.dirty \subseteq Pages /\ g.hdr.mx \in Nat
      /\ CkptInv(g, shm.h0, shm.back, w) /\ g.safe \in 0..g.hdr.mx
      /\ g.mode # Passive => g.hdr = shm.h0
  BY <1>1, BeforeCkpt
<1>3. CASE CanOwn(READ_LOCK(0)) /\ shm.h0.salt = g.hdr.salt
  <2>1. con' = [con EXCEPT ![c] = h1]
    BY <1>3 DEF LockDb, Put
  <2>2. /\ Older(g.hdr, shm.h0) /\ shm.back < g.safe
        /\ \A p \in Pages : \A n \in 1..g.hdr.mx :
             g.iter[p] = n <=> IsLast(w, g.hdr.mx, n) /\ w[n].pg = p
    BY <1>1, <1>2, <1>3 DEF CkptInv
  <2>3. \A n \in shm.back + 1..g.safe : n \in 1..g.hdr.mx
    <3>1. shm.back \in Nat
      BY BeforeShm
    <3>2. QED
      BY <1>2, <3>1
  <2>4. /\ DOMAIN iter = todo /\ todo \subseteq Pages
        /\ \A p \in todo : iter[p] = g.iter[p] /\ g.iter[p] \in shm.back + 1..g.safe
        /\ \A p \in Pages : g.iter[p] \in shm.back + 1..g.safe => p \in todo
    OBVIOUS
  <2> HIDE DEF iter, todo
  <2>5. /\ h1.pc = "synclog" /\ h1.job = "ckpt" /\ h1.hdr = g.hdr /\ h1.mode = g.mode
        /\ h1.redo = g.redo /\ h1.first = g.first /\ h1.dirty = g.dirty
        /\ h1.iter = iter /\ h1.safe = g.safe
    BY <1>2 DEF Fields
  <2>6. JobInv(h1)
    BY <2>1, BeforeShm DEF IInv, ConInv
  <2> HIDE DEF h1, g, w
  <2>7. \A p \in todo : IsLast(w, g.hdr.mx, iter[p]) /\ w[iter[p]].pg = p
    BY <2>2, <2>3, <2>4
  <2>8. \A n \in shm.back + 1..g.safe :
          ~(IsLast(w, g.hdr.mx, n) /\ w[n].pg \in Pages \ todo)
    BY <2>2, <2>3, <2>4
  <2>9. CopyInv(h1, shm.h0, shm.back, w, db)
    BY <1>3, <2>2, <2>4, <2>5, <2>7, <2>8 DEF CopyInv
  <2>10. /\ Parts(h1, shm.h0, shm.back, whdr.cur, w, shm.idx, db)
         /\ ~InWrite(h1) /\ Known(h1) = g.hdr
    BY <1>2, <2>2, <2>5, <2>6, <2>9, CopyParts
  <2>11. Heir(h1, g, shm.h0)
    BY <1>2, <2>10 DEF Heir
  <2>12. QED
    BY <1>1, <2>1, <2>10, <2>11, QuietStep DEF g, w
<1>4. CASE ~(CanOwn(READ_LOCK(0)) /\ shm.h0.salt = g.hdr.salt)
  <2>1. con' = [con EXCEPT ![c] = h2]
    BY <1>4, Before DEF LockDb, Goto
  <2>2. /\ h2.pc = "copied" /\ h2.job = "ckpt" /\ h2.hdr = g.hdr /\ h2.mode = g.mode
        /\ h2.redo = g.redo /\ h2.first = g.first /\ h2.dirty = g.dirty
    BY <1>2 DEF Fields
  <2> HIDE DEF h2
  <2>3. QED
    BY <1>1, <1>2, <2>1, <2>2, CkptQuiet
<1>5. QED
  BY <1>3, <1>4

\* The log is synced.
LEMMA CheckpointSyncKeeps ==
  ASSUME IInv, IInv', JInv, NEW c \in Conns, CheckpointSync(c)
  PROVE  JInv'
<1> DEFINE g == con[c]
           h == [g EXCEPT !.pc = "copy"]
<1>1. /\ g.pc = "synclog" /\ g.pc \in CkptPcs /\ con' = [con EXCEPT ![c] = h] /\ Unseen
  BY SyncIs, Before DEF CheckpointSync, At, Goto, Unseen
<1>2. /\ g = [f \in Fields |-> g[f]] /\ g.job = "ckpt" /\ Knows(g) /\ Known(g) = g.hdr
      /\ g.redo = 0 /\ g.first = 0 /\ g.dirty \subseteq Pages
      /\ CkptInv(g, shm.h0, shm.back, Cur(wal))
      /\ CopyInv(g, shm.h0, shm.back, Cur(wal), db)
      /\ g.mode # Passive => g.hdr = shm.h0
  BY <1>1, BeforeCkpt
<1>3. /\ h.pc = "copy" /\ h.job = "ckpt" /\ h.hdr = g.hdr /\ h.mode = g.mode
      /\ h.redo = g.redo /\ h.first = g.first /\ h.dirty = g.dirty
      /\ h.iter = g.iter /\ h.safe = g.safe
  BY <1>2 DEF Fields
<1>4. JobInv(h)
  BY <1>1, BeforeShm DEF IInv, ConInv
<1> HIDE DEF h
<1>5. CopyInv(h, shm.h0, shm.back, Cur(wal), db) /\ Older(g.hdr, shm.h0)
  <2>1. CopyInv(h, shm.h0, shm.back, Cur(wal), db)
    BY <1>1, <1>2, <1>3 DEF CopyInv, CopyPcs
  <2>2. Older(g.hdr, shm.h0)
    BY <1>2 DEF CkptInv
  <2>3. QED
    BY <2>1, <2>2
<1>6. /\ Parts(h, shm.h0, shm.back, whdr.cur, Cur(wal), shm.idx, db)
      /\ ~InWrite(h) /\ Known(h) = g.hdr
  BY <1>2, <1>3, <1>4, <1>5, CopyParts
<1>7. Heir(h, g, shm.h0)
  BY <1>2, <1>6 DEF Heir
<1>8. QED
  BY <1>1, <1>6, <1>7, QuietStep

\* A step of the holder of the lock of checkpoints and of slot 0 on the
\* database file, or on nBackfill.
LEMMA CopyingStep ==
  ASSUME IInv, IInv', JInv, NEW c \in Conns, con[c].pc \in CopyPcs,
         NEW h, con' = [con EXCEPT ![c] = h], UNCHANGED log,
         shm'.h0 = shm.h0, shm'.idx = shm.idx,
         shm'.back = 0 \/ shm'.back <= shm.h0.mx,
         shm'.back # shm.back => con[c].pc = "backfill",
         DbInv(shm.h0, shm'.back, whdr.cur, Cur(wal), db'),
         Parts(h, shm.h0, shm'.back, whdr.cur, Cur(wal), shm.idx, db'),
         ~InWrite(h), Knows(h) => Known(h) = con[c].hdr
  PROVE  JInv'
<1>1. /\ Knows(con[c]) /\ Known(con[c]) = con[c].hdr
      /\ c \in excl[CKPT_LOCK] /\ c \in excl[READ_LOCK(0)]
  <2>1. con[c].pc \in CkptPcs /\ con[c].pc \in {"start"} \cup SafePcs
    OBVIOUS
  <2>2. QED
    BY <2>1, BeforeCkpt
<1>2. UNCHANGED <<whdr, wal>>
  BY DEF log
<1>3. Allowed(c)
  BY <1>1, <1>2 DEF Allowed
<1>4. BackInv(shm'.h0, shm'.back, con')
  BY DEF BackInv
<1>5. Heir(h, con[c], shm.h0)
  BY <1>1 DEF Heir
<1>6. \A d \in Conns : Fresh(h, con[d], shm'.h0) /\ Fresh(con[d], h, shm'.h0)
  BY <1>5, HeirIsFresh
<1>7. /\ FitsLog(shm'.h0, whdr'.cur, Cur(wal'), shm'.idx)
      /\ DbInv(shm'.h0, shm'.back, whdr'.cur, Cur(wal'), db')
      /\ Parts(h, shm'.h0, shm'.back, whdr'.cur, Cur(wal'), shm'.idx, db')
  BY <1>2, BeforeShm
<1>8. QED
  BY <1>3, <1>4, <1>6, <1>7, OneStep

\* What a checkpoint has while it copies pages: its header is that of the log,
\* perhaps of an earlier commit.
LEMMA BeforeCopy ==
  ASSUME IInv, JInv, NEW c \in Conns, con[c].pc \in CopyPcs
  PROVE  LET g == con[c]
         IN /\ g = [f \in Fields |-> g[f]] /\ g.job = "ckpt"
            /\ g.redo = 0 /\ g.first = 0 /\ g.dirty \subseteq Pages
            /\ CopyInv(g, shm.h0, shm.back, Cur(wal), db)
            /\ Older(g.hdr, shm.h0) /\ g.hdr.mx \in Nat /\ g.hdr.mx <= shm.h0.mx
            /\ g.safe \in Nat /\ g.safe <= g.hdr.mx /\ shm.back < g.safe
            /\ g.mode # Passive => g.hdr = shm.h0
            /\ shm.h0.mx \in Nat /\ shm.h0 # NoHdr /\ shm.back < shm.h0.mx
            /\ shm.back \in Nat
<1> DEFINE g == con[c]
<1>1. /\ g = [f \in Fields |-> g[f]] /\ g.job = "ckpt"
      /\ g.redo = 0 /\ g.first = 0 /\ g.dirty \subseteq Pages
      /\ CkptInv(g, shm.h0, shm.back, Cur(wal))
      /\ CopyInv(g, shm.h0, shm.back, Cur(wal), db)
      /\ g.mode # Passive => g.hdr = shm.h0
      /\ g.safe \in 0..g.hdr.mx /\ Knows(g) /\ Known(g) = g.hdr /\ g.hdr.mx \in Nat
  BY BeforeCkpt
<1>2. g.pc \in CopyPcs
  OBVIOUS
<1> HIDE DEF g
<1>3. /\ Older(g.hdr, shm.h0) /\ g.hdr.salt = shm.h0.salt /\ shm.back < g.safe
  BY <1>1, <1>2 DEF CkptInv, CopyInv
<1>4. g.hdr.mx <= shm.h0.mx
  BY <1>3 DEF Older
<1>5. shm.h0.mx \in Int /\ shm.back \in Nat
  BY BeforeShm
<1>6. /\ g.safe \in Nat /\ g.safe <= g.hdr.mx /\ shm.h0.mx \in Nat
      /\ shm.back < shm.h0.mx
  BY <1>1, <1>3, <1>4, <1>5
<1>7. shm.h0 # NoHdr
  BY <1>6 DEF NoHdr, Hdr
<1>8. QED
  BY <1>1, <1>3, <1>4, <1>5, <1>6, <1>7 DEF g

\* The last frame of a page is copied.
LEMMA CopyKeeps ==
  ASSUME IInv, IInv', JInv, NEW c \in Conns, Copy(c)
  PROVE  JInv'
<1> DEFINE g == con[c]
           w == Cur(wal)
           iter == g.iter
           p == Min(DOMAIN iter)
           rest == [q \in DOMAIN iter \ {p} |-> iter[q]]
           h == [g EXCEPT !.iter = rest]
<1>1. /\ g.pc = "copy" /\ g.pc \in CopyPcs /\ DOMAIN iter # {} /\ UNCHANGED shm
      /\ UNCHANGED log /\ con' = [con EXCEPT ![c] = h]
      /\ db' = [db EXCEPT ![p] = WrittenPage(@, wal[iter[p]].cur.val, Torn)]
  BY DEF Copy, At, Put
<1>2. /\ g = [f \in Fields |-> g[f]] /\ g.job = "ckpt"
      /\ g.redo = 0 /\ g.first = 0 /\ g.dirty \subseteq Pages
      /\ CopyInv(g, shm.h0, shm.back, w, db)
      /\ Older(g.hdr, shm.h0) /\ g.hdr.mx \in Nat /\ g.hdr.mx <= shm.h0.mx
      /\ g.safe \in Nat /\ g.safe <= g.hdr.mx /\ shm.back < g.safe
      /\ g.mode # Passive => g.hdr = shm.h0
      /\ shm.h0.mx \in Nat /\ shm.h0 # NoHdr /\ shm.back < shm.h0.mx
      /\ shm.back \in Nat
  BY <1>1, BeforeCopy
<1>3. /\ DOMAIN iter \subseteq Pages
      /\ \A q \in DOMAIN iter : IsLast(w, g.hdr.mx, iter[q]) /\ w[iter[q]].pg = q
      /\ \A n \in shm.back + 1..g.safe :
           IsLast(w, g.hdr.mx, n) /\ w[n].pg \in Pages \ DOMAIN iter =>
             db[w[n].pg].cur = w[n].val
      /\ g.hdr.salt = shm.h0.salt
  BY <1>1, <1>2 DEF CopyInv
<1>4. p \in DOMAIN iter
  <2>1. Cardinality(Pages) \in Nat
    BY Bounds, FS_CardinalityType
  <2>2. Pages \subseteq Nat
    BY <2>1, WalAssumption DEF WalAssumption
  <2>3. DOMAIN iter \in SUBSET Nat
    BY <1>3, <2>2
  <2>4. QED
    BY <1>1, <2>3, MinOfNat
<1>5. /\ DOMAIN rest = DOMAIN iter \ {p} /\ \A q \in DOMAIN rest : rest[q] = iter[q]
  OBVIOUS
<1> DEFINE k == iter[p]
<1>6. IsLast(w, g.hdr.mx, k) /\ w[k].pg = p /\ p \in Pages
  BY <1>3, <1>4
<1>7. wal[k].cur = w[k]
  <2>1. k \in 1..g.hdr.mx
    BY <1>6 DEF IsLast
  <2>2. GoodHdr(g.hdr)
    BY <1>1, BeforeCkpt
  <2>3. g.hdr.mx <= MaxFrame /\ MaxFrame \in Nat
    BY <2>2, Bounds DEF GoodHdr
  <2>4. k \in Frames
    BY <2>1, <2>3, <1>2 DEF Frames
  <2>5. wal = [n \in Frames |-> wal[n]]
    BY DEF IInv, LogInv, FramesInv
  <2>6. QED
    BY <2>4, <2>5 DEF Cur
<1> HIDE DEF p
<1>8. db = [q \in Pages |-> db[q]]
  BY BeforeShm DEF DbInv
<1>9. /\ db'[p].cur = w[k].val /\ \A q \in Pages : q # p => db'[q] = db[q]
      /\ db' = [q \in Pages |-> db'[q]]
  BY <1>1, <1>6, <1>7, <1>8 DEF WrittenPage
<1> HIDE DEF rest
<1>10. /\ h.pc = "copy" /\ h.job = "ckpt" /\ h.hdr = g.hdr /\ h.mode = g.mode
       /\ h.redo = g.redo /\ h.first = g.first /\ h.dirty = g.dirty
       /\ h.iter = rest /\ h.safe = g.safe
  BY <1>1, <1>2 DEF Fields
<1>11. JobInv(h)
  BY <1>1, BeforeShm DEF IInv, ConInv
<1> HIDE DEF h, g, w, iter, k
<1>12. \A n \in shm.back + 1..g.safe :
         IsLast(w, g.hdr.mx, n) /\ w[n].pg \in Pages \ DOMAIN rest =>
           db'[w[n].pg].cur = w[n].val
  <2> SUFFICES ASSUME NEW n \in shm.back + 1..g.safe,
                      IsLast(w, g.hdr.mx, n), w[n].pg \in Pages \ DOMAIN rest
               PROVE  db'[w[n].pg].cur = w[n].val
    OBVIOUS
  <2>1. CASE w[n].pg = p
    <3>1. n = k
      <4>1. g.hdr.mx \in Int /\ w[n].pg = w[k].pg
        BY <1>2, <1>6, <2>1
      <4>2. QED
        BY <1>6, <4>1, OneIsLast
    <3>2. QED
      BY <1>9, <2>1, <3>1
  <2>2. CASE w[n].pg # p
    <3>1. w[n].pg \in Pages \ DOMAIN iter
      BY <1>5, <2>2
    <3>2. QED
      BY <1>3, <1>9, <2>2, <3>1
  <2>3. QED
    BY <2>1, <2>2
<1>13. CopyInv(h, shm.h0, shm.back, w, db')
  <2>1. \A q \in DOMAIN rest : IsLast(w, g.hdr.mx, rest[q]) /\ w[rest[q]].pg = q
    BY <1>3, <1>5
  <2>2. DOMAIN rest \subseteq Pages
    BY <1>3, <1>5
  <2>3. QED
    BY <1>2, <1>3, <1>10, <1>12, <2>1, <2>2 DEF CopyInv
<1>14. DbInv(shm.h0, shm.back, whdr.cur, w, db')
  <2>1. Backfilled(shm.h0.mx, shm.back, w, db)
    BY BeforeShm DEF DbInv, w
  <2>2. ASSUME NEW n \in 1..shm.back, IsLast(w, shm.h0.mx, n), w[n].pg \in Pages
        PROVE  db'[w[n].pg].cur = w[n].val
    <3>1. CASE w[n].pg = p
      <4>1. n \in Int /\ n <= g.hdr.mx
        BY <1>2
      <4>2. IsLast(w, g.hdr.mx, n)
        BY <1>2, <2>2, <4>1, LastOfFewer
      <4>3. n = k
        <5>1. g.hdr.mx \in Int /\ w[n].pg = w[k].pg
          BY <1>2, <1>6, <3>1
        <5>2. QED
          BY <1>6, <4>2, <5>1, OneIsLast
      <4>4. QED
        BY <1>9, <3>1, <4>3
    <3>2. CASE w[n].pg # p
      <4>1. db[w[n].pg].cur = w[n].val
        BY <2>1, <2>2 DEF Backfilled
      <4>2. QED
        BY <1>9, <2>2, <3>2, <4>1
    <3>3. QED
      BY <3>1, <3>2
  <2>3. ~(shm.back >= shm.h0.mx)
    BY <1>2
  <2>4. QED
    BY <1>2, <1>9, <2>2, <2>3 DEF DbInv, Backfilled
<1>15. /\ Parts(h, shm.h0, shm.back, whdr.cur, w, shm.idx, db')
       /\ ~InWrite(h) /\ Known(h) = g.hdr
  BY <1>2, <1>10, <1>11, <1>13, CopyParts
<1>16. /\ shm'.h0 = shm.h0 /\ shm'.idx = shm.idx /\ shm'.back = shm.back
       /\ shm'.back <= shm.h0.mx
  BY <1>1, <1>2
<1>17. /\ DbInv(shm.h0, shm'.back, whdr.cur, Cur(wal), db')
       /\ Parts(h, shm.h0, shm'.back, whdr.cur, Cur(wal), shm.idx, db')
       /\ ~InWrite(h) /\ Known(h) = con[c].hdr
  BY <1>14, <1>15, <1>16 DEF g, w
<1>18. con[c].pc \in CopyPcs
  BY <1>1 DEF g
<1>19. QED
  BY <1>1, <1>16, <1>17, <1>18, CopyingStep

\* The database file is synced, if nothing of the log is missing in it.
LEMMA CopiedAllKeeps ==
  ASSUME IInv, IInv', JInv, NEW c \in Conns, CopiedAll(c)
  PROVE  JInv'
<1> DEFINE g == con[c]
           w == Cur(wal)
           h == [g EXCEPT !.pc = "backfill"]
<1>1. /\ g.pc = "copy" /\ g.pc \in CopyPcs /\ DOMAIN g.iter = {} /\ UNCHANGED shm
      /\ UNCHANGED log /\ con' = [con EXCEPT ![c] = h]
      /\ db' = IF g.safe = shm.h0.mx THEN Sync(db) ELSE db
  BY Before DEF CopiedAll, At, Goto
<1>2. /\ g = [f \in Fields |-> g[f]] /\ g.job = "ckpt"
      /\ g.redo = 0 /\ g.first = 0 /\ g.dirty \subseteq Pages
      /\ CopyInv(g, shm.h0, shm.back, w, db)
      /\ Older(g.hdr, shm.h0)
      /\ g.mode # Passive => g.hdr = shm.h0
      /\ shm.h0.mx \in Nat /\ shm.h0 # NoHdr /\ shm.back < shm.h0.mx
      /\ shm.back \in Nat
  BY <1>1, BeforeCopy
<1>3. db = [q \in Pages |-> db[q]] /\ DbInv(shm.h0, shm.back, whdr.cur, w, db)
  BY BeforeShm DEF DbInv
<1>4. /\ db' = [q \in Pages |-> db'[q]] /\ \A q \in Pages : db'[q].cur = db[q].cur
      /\ g.safe = shm.h0.mx => Synced(db')
  <2>1. CASE g.safe = shm.h0.mx
    <3>1. db' = [q \in Pages |-> Stable(db[q].cur)]
      BY <1>1, <1>3, <2>1 DEF Sync
    <3>2. QED
      BY <3>1 DEF Stable, Synced
  <2>2. CASE g.safe # shm.h0.mx
    BY <1>1, <1>3, <2>2
  <2>3. QED
    BY <2>1, <2>2
<1>5. /\ h.pc = "backfill" /\ h.job = "ckpt" /\ h.hdr = g.hdr /\ h.mode = g.mode
      /\ h.redo = g.redo /\ h.first = g.first /\ h.dirty = g.dirty
      /\ h.iter = g.iter /\ h.safe = g.safe
  BY <1>2 DEF Fields
<1>6. JobInv(h)
  BY <1>1, BeforeShm DEF IInv, ConInv
<1> HIDE DEF h, g, w
<1>7. CopyInv(h, shm.h0, shm.back, w, db')
  <2>1. \A n \in shm.back + 1..g.safe :
          IsLast(w, g.hdr.mx, n) /\ w[n].pg \in Pages \ DOMAIN g.iter =>
            db'[w[n].pg].cur = w[n].val
    BY <1>1, <1>2, <1>4 DEF CopyInv
  <2>2. QED
    BY <1>1, <1>2, <1>4, <1>5, <2>1 DEF CopyInv
<1>8. DbInv(shm.h0, shm.back, whdr.cur, w, db')
  <2>1. Backfilled(shm.h0.mx, shm.back, w, db')
    BY <1>3, <1>4 DEF DbInv, Backfilled
  <2>2. ~(shm.back >= shm.h0.mx)
    BY <1>2
  <2>3. QED
    BY <1>2, <1>4, <2>1, <2>2 DEF DbInv
<1>9. /\ Parts(h, shm.h0, shm.back, whdr.cur, w, shm.idx, db')
      /\ ~InWrite(h) /\ Known(h) = g.hdr
  BY <1>2, <1>5, <1>6, <1>7, CopyParts
<1>10. /\ shm'.h0 = shm.h0 /\ shm'.idx = shm.idx /\ shm'.back = shm.back
       /\ shm'.back <= shm.h0.mx
  BY <1>1, <1>2
<1>11. /\ DbInv(shm.h0, shm'.back, whdr.cur, Cur(wal), db')
       /\ Parts(h, shm.h0, shm'.back, whdr.cur, Cur(wal), shm.idx, db')
       /\ ~InWrite(h) /\ Known(h) = con[c].hdr
  BY <1>8, <1>9, <1>10 DEF g, w
<1>12. con[c].pc \in CopyPcs
  BY <1>1 DEF g
<1>13. QED
  BY <1>1, <1>10, <1>11, <1>12, CopyingStep

\* nBackfill is set to what was copied.
LEMMA BackfillKeeps ==
  ASSUME IInv, IInv', JInv, NEW c \in Conns, Backfill(c)
  PROVE  JInv'
<1> DEFINE g == con[c]
           w == Cur(wal)
           h == [g EXCEPT !.pc = "copied", !.iter = <<>>]
<1>1. /\ g.pc = "backfill" /\ g.pc \in CopyPcs /\ UNCHANGED db /\ UNCHANGED log
      /\ con' = [con EXCEPT ![c] = h]
      /\ shm'.h0 = shm.h0 /\ shm'.back = g.safe /\ shm'.idx = shm.idx
  BY BeforeShm DEF Backfill, At, Put, ShmInv
<1>2. /\ g = [f \in Fields |-> g[f]] /\ g.job = "ckpt"
      /\ g.redo = 0 /\ g.first = 0 /\ g.dirty \subseteq Pages
      /\ CopyInv(g, shm.h0, shm.back, w, db)
      /\ g.hdr.mx \in Nat /\ g.hdr.mx <= shm.h0.mx
      /\ g.safe \in Nat /\ g.safe <= g.hdr.mx /\ shm.back < g.safe
      /\ g.mode # Passive => g.hdr = shm.h0
      /\ shm.h0.mx \in Nat /\ shm.h0 # NoHdr /\ shm.back \in Nat
  BY <1>1, BeforeCopy
<1>3. /\ h.pc = "copied" /\ h.job = "ckpt" /\ h.hdr = g.hdr /\ h.mode = g.mode
      /\ h.redo = g.redo /\ h.first = g.first /\ h.dirty = g.dirty
  BY <1>2 DEF Fields
<1>4. JobInv(h)
  BY <1>1, BeforeShm DEF IInv, ConInv
<1>5. DbInv(shm.h0, shm.back, whdr.cur, w, db)
  BY BeforeShm
<1> HIDE DEF h, g, w
<1>6. Backfilled(shm.h0.mx, g.safe, w, db)
  <2> SUFFICES ASSUME NEW n \in 1..g.safe, IsLast(w, shm.h0.mx, n), w[n].pg \in Pages
               PROVE  db[w[n].pg].cur = w[n].val
    BY DEF Backfilled
  <2>1. n \in Int /\ n <= g.hdr.mx
    BY <1>2
  <2>2. IsLast(w, g.hdr.mx, n)
    BY <1>2, <2>1, LastOfFewer
  <2>3. CASE n <= shm.back
    <3>1. n \in 1..shm.back
      BY <1>2, <2>1, <2>3
    <3>2. QED
      BY <1>5, <3>1 DEF DbInv, Backfilled
  <2>4. CASE ~(n <= shm.back)
    <3>1. n \in shm.back + 1..g.safe
      BY <1>2, <2>1, <2>4
    <3>2. QED
      BY <1>1, <1>2, <2>2, <3>1 DEF CopyInv
  <2>5. QED
    BY <2>3, <2>4
<1>7. g.safe >= shm.h0.mx => Synced(db)
  <2>1. g.safe >= shm.h0.mx => g.safe = shm.h0.mx
    BY <1>2
  <2>2. QED
    BY <1>1, <1>2, <2>1 DEF CopyInv
<1>8. DbInv(shm.h0, g.safe, whdr.cur, w, db)
  BY <1>2, <1>5, <1>6, <1>7 DEF DbInv
<1>9. ~Knows(h)
  BY <1>3 DEF Knows
<1>10. Parts(h, shm.h0, g.safe, whdr.cur, w, shm.idx, db) /\ ~InWrite(h)
  BY <1>2, <1>3, <1>4, <1>9, CkptParts
<1>11. g.safe <= shm.h0.mx
  BY <1>2
<1>12. /\ DbInv(shm.h0, shm'.back, whdr.cur, Cur(wal), db')
       /\ Parts(h, shm.h0, shm'.back, whdr.cur, Cur(wal), shm.idx, db')
       /\ shm'.back <= shm.h0.mx
  BY <1>1, <1>8, <1>10, <1>11 DEF w
<1>13. con[c].pc \in CopyPcs /\ con[c].pc = "backfill"
  BY <1>1 DEF g
<1>14. QED
  BY <1>1, <1>9, <1>10, <1>12, <1>13, CopyingStep

\* A checkpoint resets a log that is all in the database file.
LEMMA TruncateLogKeeps ==
  ASSUME IInv, IInv', JInv, NEW c \in Conns, TruncateLog(c)
  PROVE  JInv'
<1> DEFINE g == con[c]
           h == [g EXCEPT !.pc = "reset"]
<1>1. /\ g.pc = "copied" /\ g.pc \in CkptPcs /\ con' = [con EXCEPT ![c] = h] /\ Unseen
      /\ g.mode # Passive /\ shm.back = g.hdr.mx
  BY SameFiles, Before DEF TruncateLog, ToReset, At, Goto, Passive
<1>2. /\ g = [f \in Fields |-> g[f]] /\ g.job = "ckpt" /\ g.redo = 0 /\ g.first = 0
      /\ g.dirty \subseteq Pages /\ g.hdr = shm.h0
  BY <1>1, BeforeCkpt
<1>3. /\ h.pc = "reset" /\ h.job = "ckpt" /\ h.hdr = g.hdr /\ h.redo = 0 /\ h.first = 0
      /\ h.dirty \subseteq Pages
  BY <1>2 DEF Fields
<1> HIDE DEF h
<1>4. ~InWrite(h) /\ ~Knows(h)
  BY <1>3 DEF InWrite, Knows
<1>5. ResetInv(h, shm.h0, shm.back)
  BY <1>1, <1>2, <1>3 DEF ResetInv
<1>6. OtherInv(h, shm.h0, shm.back, whdr.cur, Cur(wal), shm.idx, db)
  BY <1>3, <1>4 DEF OtherInv
<1>7. Parts(h, shm.h0, shm.back, whdr.cur, Cur(wal), shm.idx, db)
  BY <1>3, <1>4, <1>5, <1>6 DEF Parts, CkptInv, CopyInv
<1>8. Heir(h, g, shm.h0)
  BY <1>4 DEF Heir
<1>9. QED
  BY <1>1, <1>7, <1>8, QuietStep

\* And cuts the file, of which no frame counts any more.
LEMMA CutLogKeeps ==
  ASSUME IInv, IInv', JInv, NEW c \in Conns, CutLog(c)
  PROVE  JInv'
<1> DEFINE g == con[c]
           h == [g EXCEPT !.pc = "truncated"]
<1>1. /\ g.pc = "cut" /\ g.pc \in CkptPcs /\ con' = [con EXCEPT ![c] = h]
      /\ UNCHANGED <<db, shm>>
  BY Before DEF CutLog, At, Goto
<1>2. /\ g = [f \in Fields |-> g[f]] /\ g.job = "ckpt" /\ g.redo = 0 /\ g.first = 0
      /\ g.dirty \subseteq Pages
  BY <1>1, BeforeCkpt
<1>3. /\ shm.h0.mx = 0 /\ c \in excl[WRITE_LOCK]
  BY <1>1, Before DEF Parts, ResetInv, Owns
<1>4. /\ h.pc = "truncated" /\ h.job = "ckpt" /\ h.redo = 0 /\ h.first = 0
      /\ h.dirty \subseteq Pages
  BY <1>2 DEF Fields
<1>5. JobInv(h)
  BY <1>1, BeforeShm DEF IInv, ConInv
<1> HIDE DEF h
<1>6. ~Knows(h)
  BY <1>4 DEF Knows
<1>7. Parts(h, shm.h0, shm.back, whdr'.cur, Cur(wal'), shm.idx, db) /\ ~InWrite(h)
  BY <1>4, <1>5, <1>6, CkptParts
<1>8. FitsLog(shm.h0, whdr'.cur, Cur(wal'), shm.idx)
  BY <1>3, BeforeShm, ChainZero DEF FitsLog
<1>9. DbInv(shm.h0, shm.back, whdr'.cur, Cur(wal'), db)
  <2>1. Backfilled(shm.h0.mx, shm.back, Cur(wal'), db)
    BY <1>3 DEF Backfilled, IsLast
  <2>2. Synced(db) /\ db = [p \in Pages |-> db[p]]
    BY <1>3, BeforeShm DEF DbInv
  <2>3. QED
    BY <2>1, <2>2 DEF DbInv
<1>10. Allowed(c)
  BY <1>1, <1>3 DEF Allowed
<1>11. BackInv(shm'.h0, shm'.back, con')
  <2>1. shm.back = 0 \/ shm.back <= shm.h0.mx
    BY <1>1, <1>3, BackWithin
  <2>2. QED
    BY <1>1, <2>1 DEF BackInv
<1>12. \A d \in Conns : Fresh(h, con[d], shm'.h0) /\ Fresh(con[d], h, shm'.h0)
  BY <1>6, <1>7 DEF Fresh
<1>13. /\ FitsLog(shm'.h0, whdr'.cur, Cur(wal'), shm'.idx)
       /\ DbInv(shm'.h0, shm'.back, whdr'.cur, Cur(wal'), db')
       /\ Parts(h, shm'.h0, shm'.back, whdr'.cur, Cur(wal'), shm'.idx, db')
  BY <1>1, <1>7, <1>8, <1>9
<1>14. QED
  BY <1>1, <1>10, <1>11, <1>12, <1>13, OneStep

\* A checkpoint ends; one that saw a new header forgets it.
LEMMA EndCheckpointKeeps ==
  ASSUME IInv, IInv', JInv, NEW c \in Conns, EndCheckpoint(c)
  PROVE  JInv'
<1>1. Unseen /\ con[c].pc # "reset1"
  BY SameFiles DEF EndCheckpoint, At
<1>2. Rest(c, IF con[c].changed THEN NoHdr ELSE con[c].hdr, con[c].cache)
  BY DEF EndCheckpoint
<1>3. QED
  BY <1>1, <1>2, RestStep

-----------------------------------------------------------------------------
\* Processes and power

\* A process is killed; in the middle of a reset only if the model allows it.
LEMMA KillKeeps ==
  ASSUME IInv, IInv', JInv, NEW c \in Conns, Kill(c), ~KillInReset
  PROVE  JInv'
<1> DEFINE h == [Blank EXCEPT !.pc = "closed"]
<1>1. con' = [con EXCEPT ![c] = h] /\ con[c].pc # "reset1" /\ Unseen
  BY SameFiles DEF Kill
<1>2. /\ h.pc = "closed" /\ h.job = "none" /\ h.redo = 0 /\ h.first = 0 /\ h.dirty = {}
      /\ h.mode = Passive
  BY DEF Blank
<1> HIDE DEF h
<1>3. Harmless(h)
  BY <1>2 DEF Harmless
<1>4. QED
  BY <1>1, <1>3, HarmlessStep

\* An empty wal-index that nobody reads yet.
LEMMA EmptyShm ==
  ASSUME shm' = ShmZero, db' = [p \in Pages |-> db'[p]],
         Recovered(whdr'.cur, Cur(wal')).hdr.mx = 0 => Synced(db'),
         \A c \in Conns : JobInv(con'[c]) /\ Harmless(con'[c])
  PROVE  JInv'
<1>1. shm'.h0 = NoHdr /\ shm'.back = 0 /\ shm'.idx = <<>> /\ NoHdr.mx = -1
  BY DEF ShmZero, NoHdr, Hdr
<1>2. FitsLog(shm'.h0, whdr'.cur, Cur(wal'), shm'.idx)
  BY <1>1 DEF FitsLog
<1>3. DbInv(shm'.h0, shm'.back, whdr'.cur, Cur(wal'), db')
  BY <1>1 DEF DbInv, Backfilled
<1>4. BackInv(shm'.h0, shm'.back, con')
  BY <1>1 DEF BackInv
<1>5. \A c \in Conns :
        /\ Parts(con'[c], shm'.h0, shm'.back, whdr'.cur, Cur(wal'), shm'.idx, db')
        /\ ~Knows(con'[c])
  BY HarmlessParts
<1>6. \A b, c \in Conns : Fresh(con'[b], con'[c], shm'.h0)
  BY <1>5 DEF Fresh
<1>7. QED
  BY <1>2, <1>3, <1>4, <1>5, <1>6 DEF JInv

\* The wal-index is made empty when all have died: what it had is in the log.
LEMMA OpenKeeps ==
  ASSUME IInv, IInv', JInv, NEW c \in Conns, Open(c)
  PROVE  JInv'
<1> DEFINE h == [con[c] EXCEPT !.pc = "idle"]
<1>1. /\ con[c].pc = "closed" /\ con' = [con EXCEPT ![c] = h] /\ UNCHANGED <<db, whdr, wal>>
  BY Before DEF Open, At, Goto, log
<1>2. ASSUME NEW d \in Conns, con[d].pc \in {"closed", "idle"}
      PROVE  /\ con[d].job = "none" /\ con[d].redo = 0 /\ con[d].first = 0
             /\ con[d].dirty \subseteq Pages /\ con[d].mode = Passive
  BY <1>2, Before DEF JobInv, InWrite
<1>3. /\ h.pc = "idle" /\ h.job = "none" /\ h.redo = 0 /\ h.first = 0
      /\ h.dirty \subseteq Pages /\ h.mode = Passive
  BY <1>1, <1>2, Before DEF Fields
<1> HIDE DEF h
<1>4. Harmless(h)
  BY <1>3 DEF Harmless
<1>5. CASE \A d \in Conns : con[d].pc = "closed"
  <2>1. shm' = ShmZero
    BY <1>5 DEF Open, At
  <2>2. \A d \in Conns : JobInv(con'[d]) /\ Harmless(con'[d])
    <3> SUFFICES ASSUME NEW d \in Conns
                 PROVE  JobInv(con'[d]) /\ Harmless(con'[d])
      OBVIOUS
    <3>1. JobInv(con'[d])
      BY DEF IInv, ConInv
    <3>2. CASE d = c
      BY <1>1, <1>4, <3>1, <3>2, BeforeShm
    <3>3. CASE d # c
      <4>1. con'[d] = con[d]
        BY <1>1, <3>3, BeforeShm
      <4>2. Harmless(con[d])
        BY <1>2, <1>5 DEF Harmless
      <4>3. QED
        BY <3>1, <4>1, <4>2
    <3>4. QED
      BY <3>2, <3>3
  <2>3. DbInv(shm.h0, shm.back, whdr.cur, Cur(wal), db) /\ shm.h0.mx \in Int
        /\ shm.back \in Nat /\ AnyHdr(shm.h0)
    BY BeforeShm
  <2>4. Recovered(whdr.cur, Cur(wal)).hdr.mx = 0 => Synced(db)
    <3> DEFINE r == Recovered(whdr.cur, Cur(wal))
    <3>1. whdr.cur \in Nat
      BY DEF IInv, LogInv, SaltsInv
    <3>2. PICK last \in 0..MaxFrame : IsRecovered(r, whdr.cur, Cur(wal), last)
      BY <3>1, RecoveredIs
    <3> HIDE DEF r
    <3>3. shm.h0.mx <= r.hdr.mx
      BY <2>3, <3>1, <3>2, BeforeShm, RecoveredCovers
    <3> SUFFICES ASSUME r.hdr.mx = 0
                 PROVE  Synced(db)
      BY DEF r
    <3>4. CASE shm.h0.mx = 0
      BY <2>3, <3>4 DEF DbInv
    <3>5. CASE shm.h0.mx # 0
      <4>1. shm.h0 = NoHdr
        BY <2>3, <3>3, <3>5 DEF AnyHdr, GoodHdr
      <4>2. QED
        BY <2>3, <4>1 DEF DbInv, r
    <3>6. QED
      BY <3>4, <3>5
  <2>5. QED
    BY <1>1, <2>1, <2>2, <2>3, <2>4, EmptyShm DEF DbInv
<1>6. CASE ~(\A d \in Conns : con[d].pc = "closed")
  <2>1. UNCHANGED shm
    BY <1>6 DEF Open, At
  <2>2. Unseen
    BY <1>1, <2>1 DEF Unseen
  <2>3. QED
    BY <1>1, <1>4, <2>2, HarmlessStep
<1>7. QED
  BY <1>5, <1>6

\* A connection of which nothing was asked yet.
LEMMA BlankHarmless == Harmless(Blank) /\ JobInv(Blank)
<1>1. /\ Blank.pc = "idle" /\ Blank.job = "none" /\ Blank.redo = 0 /\ Blank.first = 0
      /\ Blank.dirty = {} /\ Blank.mode = Passive
  BY DEF Blank
<1>2. QED
  BY <1>1 DEF Harmless, JobInv

\* The power is lost: what is left of the database file is on disk.
LEMMA PowerLossKeeps ==
  ASSUME PowerLoss
  PROVE  JInv'
<1>1. \A c \in Conns : con'[c] = Blank
  BY DEF PowerLoss
<1>2. PICK d : db' = [p \in Pages |-> Stable(d[p])]
  BY DEF PowerLoss
<1>3. db' = [p \in Pages |-> db'[p]] /\ Synced(db')
  BY <1>2 DEF Synced, Stable
<1>4. shm' = ShmZero
  BY DEF PowerLoss
<1>5. \A c \in Conns : JobInv(con'[c]) /\ Harmless(con'[c])
  BY <1>1, BlankHarmless
<1>6. QED
  BY <1>3, <1>4, <1>5, EmptyShm

-----------------------------------------------------------------------------
\* The log is empty, and so is the wal-index.
LEMMA InitJ == Init => JInv
<1> SUFFICES ASSUME Init
             PROVE  JInv
  OBVIOUS
<1>1. /\ shm = ShmZero /\ \A c \in Conns : con[c] = Blank
      /\ db = [p \in Pages |-> Stable(0)]
  BY DEF Init
<1>2. shm.h0 = NoHdr /\ shm.back = 0 /\ shm.idx = <<>> /\ NoHdr.mx = -1
  BY <1>1 DEF ShmZero, NoHdr, Hdr
<1>3. db = [p \in Pages |-> db[p]] /\ Synced(db)
  BY <1>1 DEF Synced, Stable
<1>4. \A c \in Conns :
        /\ Parts(con[c], shm.h0, shm.back, whdr.cur, Cur(wal), shm.idx, db)
        /\ ~Knows(con[c])
  BY <1>1, BlankHarmless, HarmlessParts
<1>5. \A b, c \in Conns : Fresh(con[b], con[c], shm.h0)
  BY <1>4 DEF Fresh
<1>6. FitsLog(shm.h0, whdr.cur, Cur(wal), shm.idx)
  BY <1>2 DEF FitsLog
<1>7. DbInv(shm.h0, shm.back, whdr.cur, Cur(wal), db)
  BY <1>2, <1>3 DEF DbInv, Backfilled
<1>8. QED
  BY <1>2, <1>4, <1>5, <1>6, <1>7 DEF JInv, BackInv

\* Every step keeps it, if nobody is killed in the middle of a reset.
LEMMA StepJ == IInv /\ JInv /\ [Next]_vars /\ ~KillInReset => JInv'
<1> SUFFICES ASSUME IInv, JInv, [Next]_vars, ~KillInReset
             PROVE  JInv'
  OBVIOUS
<1>1. IInv'
  BY StepInv
<1>2. ASSUME NEW c \in Conns, Reading(c)
      PROVE  JInv'
  BY <1>1, <1>2, BeginReadKeeps, TryHdrKeeps, BadHdrKeeps, BadHdrBusyKeeps, RecoverKeeps,
     RecoverHdrKeeps, RecoverInfoKeeps, PickDbKeeps, CheckDbKeeps, PickMarkKeeps,
     LockMarkKeeps, LoadMinKeeps, VerifyKeeps, EndReadKeeps DEF Reading
<1>3. ASSUME NEW c \in Conns, Writing(c)
      PROVE  JInv'
  BY <1>1, <1>3, BeginWriteKeeps, WriteKeeps, SpillKeeps, CommitKeeps, RestartLogKeeps,
     ResetHdrKeeps, ResetHdr0Keeps, ResetBackfillKeeps, ResetMarksKeeps, WriteHeaderKeeps,
     SyncHeaderKeeps, OverwriteKeeps, AppendFrameKeeps, RewriteChecksumsKeeps,
     SyncCommitKeeps, IndexKeeps, PublishKeeps, EndWriteKeeps, RollbackKeeps DEF Writing
<1>4. ASSUME NEW c \in Conns, Checkpointing(c)
      PROVE  JInv'
  BY <1>1, <1>4, BeginCheckpointKeeps, StartCheckpointKeeps, CheckMarkKeeps, IteratorKeeps,
     LockDbKeeps, CheckpointSyncKeeps, CopyKeeps, CopiedAllKeeps, BackfillKeeps,
     TruncateLogKeeps, CutLogKeeps, EndCheckpointKeeps DEF Checkpointing
<1>5. CASE UNCHANGED vars
  BY <1>5 DEF JInv, vars
<1>6. QED
  BY <1>1, <1>2, <1>3, <1>4, <1>5, KillKeeps, OpenKeeps, PowerLossKeeps DEF Next

\* In every behaviour in which no process is killed between the new header and
\* nBackfill of a reset: the headers, the index and the log fit each other, and
\* nBackfill never claims more than the database file has.
THEOREM LogInvariance ==
  ASSUME ~KillInReset
  PROVE  Spec => [](IInv /\ JInv)
<1>1. IInv /\ JInv /\ [Next]_vars => JInv'
  BY StepJ
<1>2. QED
  BY InitInv, StepInv, InitJ, <1>1, PTL DEF Spec

\* The writer that leaves slot 0, or has all locks on the log, knows how much of
\* it is in the database file.
LEMMA ResetOfAll ==
  ASSUME IInv, JInv
  PROVE  RestartIsSafe
<1> SUFFICES ASSUME NEW c \in Conns
             PROVE  /\ At(c, "restart") /\ con[c].slot = 0 => shm.back \in {0, con[c].hdr.mx}
                    /\ At(c, "reset") =>
                         /\ shm.back = con[c].hdr.mx
                         /\ \A p \in Pages :
                              LET n == FindFrame(1, con[c].hdr.mx, p)
                              IN /\ Sync(db) = db
                                 /\ n # 0 => db[p].cur = wal[n].cur.val
  BY DEF RestartIsSafe
<1> DEFINE g == con[c]
           w == Cur(wal)
<1>1. ASSUME g.pc = "restart", g.slot = 0
      PROVE  shm.back \in {0, g.hdr.mx}
  <2>1. InWrite(g)
    BY <1>1, Before DEF JobInv, InWrite
  <2>2. QED
    BY <1>1, <2>1, BeforeWrite
<1>2. ASSUME g.pc = "reset"
      PROVE  /\ shm.back = g.hdr.mx
             /\ \A p \in Pages :
                  LET n == FindFrame(1, g.hdr.mx, p)
                  IN Sync(db) = db /\ (n # 0 => db[p].cur = wal[n].cur.val)
  <2>1. /\ g.hdr = shm.h0 /\ shm.back = shm.h0.mx /\ GoodHdr(g.hdr)
    BY <1>2, BeforeReset DEF ResetInv
  <2>2. /\ shm.h0.mx \in Nat /\ shm.h0.mx <= MaxFrame /\ MaxFrame \in Nat
    BY <2>1, Bounds DEF GoodHdr
  <2>3. /\ DbInv(shm.h0, shm.back, whdr.cur, w, db)
        /\ FitsLog(shm.h0, whdr.cur, w, shm.idx)
    BY BeforeShm
  <2>4. Synced(db) /\ db = [p \in Pages |-> db[p]]
    BY <2>1, <2>2, <2>3 DEF DbInv
  <2>5. Sync(db) = db
    <3>1. Sync(db) = [p \in Pages |-> Stable(db[p].cur)]
      BY <2>4 DEF Sync
    <3>2. QED
      BY <2>4, <3>1 DEF Synced
  <2>6. ASSUME NEW p \in Pages, FindFrame(1, g.hdr.mx, p) # 0
        PROVE  db[p].cur = wal[FindFrame(1, g.hdr.mx, p)].cur.val
    <3> DEFINE mx == shm.h0.mx
               n == LastFrame(shm.idx, 1, mx, p)
    <3>1. FindFrame(1, g.hdr.mx, p) = n
      BY <2>1 DEF FindFrame
    <3>2. n \in 1..mx
      <4>1. n \in {0} \cup {m \in 1..mx : m <= Len(shm.idx) /\ shm.idx[m] = p}
        BY <2>2, FoundFrame
      <4> HIDE DEF n
      <4>2. QED
        BY <2>6, <3>1, <4>1
    <3> HIDE DEF w
    <3>3. IsLast(w, mx, n) /\ w[n].pg = p
      <4> DEFINE k == n
      <4>1. k \in 1..mx /\ LastFrame(shm.idx, 1, mx, p) = k
        BY <3>2
      <4> HIDE DEF k, n
      <4>2. IsLast(w, mx, k) /\ w[k].pg = p
        BY <2>2, <2>3, <4>1, FoundIsLast
      <4>3. QED
        BY <4>2 DEF k
    <3> HIDE DEF n
    <3>4. db[p].cur = w[n].val
      BY <2>1, <2>3, <3>2, <3>3 DEF DbInv, Backfilled
    <3>5. wal[n].cur = w[n]
      <4>1. n \in Frames
        BY <2>2, <3>2 DEF Frames
      <4>2. wal = [m \in Frames |-> wal[m]]
        BY DEF IInv, LogInv, FramesInv
      <4>3. QED
        BY <4>1, <4>2 DEF Cur, w
    <3>6. QED
      BY <3>1, <3>4, <3>5
  <2>7. QED
    BY <2>1, <2>5, <2>6
<1>3. QED
  BY <1>1, <1>2 DEF At

\* A writer, or a checkpoint, starts the log again only when every page's last
\* frame is in the database file, and that file is synced.
THEOREM RestartsAreSafe ==
  ASSUME ~KillInReset
  PROVE  Spec => []RestartIsSafe
<1>1. IInv /\ JInv => RestartIsSafe
  BY ResetOfAll
<1>2. QED
  BY <1>1, LogInvariance, PTL

\* While nobody holds a lock, nBackfill is at most mxFrame.
THEOREM BackfillIsWithin ==
  ASSUME ~KillInReset
  PROVE  Spec => []BackfillWithinLog
<1>1. IInv /\ JInv => BackfillWithinLog
  <2> SUFFICES ASSUME IInv, JInv, \A s \in Slots : excl[s] = {}
               PROVE  shm.back <= Max({0, shm.h0.mx})
    BY DEF BackfillWithinLog
  <2>1. \A c \in Conns : con[c].pc # "reset1"
    <3> SUFFICES ASSUME NEW c \in Conns, con[c].pc = "reset1"
                 PROVE  FALSE
      OBVIOUS
    <3>1. c \in excl[WRITE_LOCK]
      BY BeforeReset
    <3>2. WRITE_LOCK \in Slots
      BY LockNumbers
    <3>3. QED
      BY <3>1, <3>2
  <2>2. shm.h0.mx \in Int /\ shm.back \in Nat /\ (shm.back = 0 \/ shm.back <= shm.h0.mx)
    BY <2>1, BeforeShm DEF BackInv
  <2> DEFINE S == {0, shm.h0.mx}
  <2>3. \E x \in S : \A y \in S : x >= y
    BY <2>2
  <2>4. Max(S) \in S /\ \A y \in S : Max(S) >= y
    BY <2>3 DEF Max
  <2>5. Max(S) >= 0 /\ Max(S) >= shm.h0.mx /\ Max(S) \in Int
    BY <2>2, <2>4
  <2> HIDE DEF S
  <2>6. QED
    BY <2>2, <2>5 DEF S
<1>2. QED
  BY <1>1, LogInvariance, PTL
=============================================================================
