# A formal model of the storage layer of SQLite, as changed by this repository

The repository is a copy of SQLite 3 whose b-tree counts page splits and whose
shell reports them, with reports on how splitting works and experiments with
page and cache sizes. This directory holds a TLA+ model of the code below the
virtual machine, `Source Code/New/sqlite_demo/src/`: how a b-tree takes in and
gives up entries and balances itself (`btree.c`), what the new counter counts,
how cursors keep their places in a tree that changes,
how connections share a cache and wait for each other (`btree.c`, `notify.c`),
how the pager makes transactions atomic with a rollback journal (`pager.c`) or
a write-ahead log (`wal.c`), and how the file locks both rest on are made of
POSIX locks (`os_unix.c`). `PROJECT.json` lists components, runs, hazards,
findings and theorems, and maps every definition to the lines it stands for.
Line numbers without a file are those of `btree.c`.

## 1. The system and its parts

| Part | State | Operations | Who uses it |
|---|---|---|---|
| Balancing (`balance*()`, 7997-9277) | the pages on the cursor's path and their overflow cells | `balance_quick`, `balance_deeper`, `balance_nonroot`, the loop of `balance` | insertion, deletion |
| Insertion, deletion, seek (5447-6480, 9427-10060) | pages, cells, cursor path | `sqlite3BtreeInsert`, `sqlite3BtreeDelete`, `...Moveto`, `...Previous` | virtual machine |
| Allocation and freelist (6504-7035) | trunk and leaf pages of the freelist, length of the file, overflow chains | `allocateBtreePage`, `freePage2`, `clearCellOverflow`, `fillInCell` | all of the above |
| Space on a page (1618-2030) | freeblocks, fragments, content area | `allocateSpace`, `freeSpace`, `defragmentPage` | `insertCell`, `dropCell`, `editPage` |
| Cursors (719-1000, `btreeInt.h`) | state, path, saved key, flags `BTCF_*` | open, first, last, next, previous, seek, save, restore, insert, delete | virtual machine, other cursors' writes |
| Auto-vacuum (1041-1160, 3945-4290) | pointer-map pages | `ptrmapPut`, `relocatePage`, `incrVacuumStep` | commit, balancing |
| Transactions, shared cache (223-520, 3283-4660, `notify.c`) | table locks, `BTS_PENDING`, savepoints, who waits for whom | begin, commit, rollback, savepoint, unlock-notify | connections |
| Pager (`pager.c`) | journal, file locks, page cache, its own state machine | get, write, sync, commit, rollback, hot-journal recovery | b-tree |
| Write-ahead log (`wal.c`) | frames, index, read marks, locks | read, append, checkpoint, restart, recover | pager |
| Page cache (`pcache.c`, `pcache1.c`) | dirty list, reference counts, LRU | fetch, pin, unpin, make clean or dirty, recycle | pager |
| Backup (`backup.c`) | next page, list of running backups | step, update after a write | connections |
| Split counter and report (24, 8317, 8456, 9067, `shell.c.in` 3279-3411) | `split_count`, pages before and after | reset, count, report | shell |
| Virtual machine, SQL compiler, library services, extensions, shell, tests | | | |

The b-tree calls the pager for every page it reads or writes; the pager calls
the page cache, the log and the operating system. The virtual machine runs a
statement as a series of calls on cursors. Connections meet in three places: in
a shared cache (one `BtShared`, several `Btree`s, one mutex), in the file locks,
and in the shared memory of the log.

What is hard here:

* *arithmetic on sizes*: how cells are dealt over pages depends on the sizes of
  everything on up to three pages, with dividers that come and go; one slot of
  two bytes decides between a legal tree and `SQLITE_CORRUPT`;
* *order*: pages are rewritten in place while others still take cells from
  them; dividers are inserted one after the other into a page that may overflow;
* *long sequences*: a deletion from an interior page edits two pages and leaves
  one of them under-, the other overfull; balances propagate;
* *failure half-way*: an allocation fails with dividers already gone;
* *crashes at every system call*: what of the unsynced writes has reached the
  disk is any subset; a recovery may crash itself;
* *interleavings of processes* that share nothing but files, locks and a mapped
  index, each of which reads one thing and then locks another;
* *waiting*: connections that lock each other out, writers that readers could
  keep out for ever;
* *what one cursor does to the others*: each write may move every cell, and a
  cursor must find its place again, or know that its entry is gone and on which
  side of the gap it stands.

What would make each part correct: balancing keeps every entry, exactly once,
where a seek finds it, keeps all leaves on one level, and never reports
corruption that is not there; allocation gives every page one use; a statement
takes effect as a whole or not at all; a cursor is never left on a moved cell; a
committed transaction survives a crash and an unfinished one leaves no trace; a
reader sees one snapshot.

## 2. Modules

| Module | Models |
|---|---|
| `CellPacking` | the two packing passes of `balance_nonroot()` and the order in which it rewrites the pages, one iteration per step |
| `CellCuts` | what those passes compute, as functions; `CellPacking` is compared with them |
| `MCCellPacking` | loads for TLC, built the way they arise |
| `CellPackingProofs` | theorems about `CellPacking` with their proofs |
| `Freelist` | allocation and release of pages, as operators on the file |
| `KeyStore` | the abstract specification: what a b-tree promises |
| `BTree` | insertion, deletion, seek and the loop of `balance()`, on `Freelist` and `CellCuts`; implements `KeyStore` |
| `MCBTree`, `MCBTreeScript` | instances of `BTree`: payload sizes; a script that builds a tall tree first |
| `SplitReport`, `MCSplitReport` | `BTree` with the counter and the report of the shell; the same on the scripted tree |
| `ScanStore` | the abstract specification of cursors: what a scan promises while the entries change |
| `Cursors`, `MCCursors` | the cursors open on one tree: moves, seeks, writes, saved positions, on `BTree`; implements `ScanStore` |
| `SharedCache` | transactions and table locks of the connections of a shared cache, and unlock-notify |
| `SharedCacheProofs` | theorems about `SharedCache` with their proofs |
| `FileLock` | the five locks of a database file, one call per action |
| `UnixLock`, `MCUnixLock` | `unixLock()`, `posixUnlock()`, `unixClose()` on POSIX locks of processes; implements `FileLock` |
| `UnixLockProofs` | theorems about `UnixLock`, that it implements `FileLock` among them |
| `Disk` | a file between two syncs (external) |
| `AtomicFile` | the abstract specification of the pager: atomic, isolated, durable transactions |
| `Pager`, `MCPager` | the pager with a rollback journal, on `FileLock` and `Disk`; implements `AtomicFile` |
| `PagerProofs` | theorems about `FileLock`, and those about the locks and the journal of `Pager` and about what its files and pagers hold |
| `PagerPromiseProofs` | on top of those: what the files amount to, and that the steps of a transaction up to its last page keep the committed image |
| `PagerImageProofs` | theorems about the committed image of `Pager`, through rollbacks, commits, crashes and power losses |
| `SnapshotStore` | the abstract specification of the log: snapshots, one writer, checkpoints that nobody sees |
| `Wal`, `MCWal` | the write-ahead log, its index and its locks, on `Disk`; implements `SnapshotStore` |
| `WalProofs` | theorems about the locks, headers and read-marks of `Wal` |
| `WalRestartProofs` | theorems about the contents of the log, on top of those |

`Pager` takes the actions of `FileLock` for its lock calls, so `UnixLock`
implementing `FileLock` closes the gap down to the system calls.

**CellPacking.** The cells of the siblings lie in one array (`b.apCell[]`); all
that the loops need is the space they take, so the module holds the running
total `P`. `cnt`, `sz`, `k`, `i` are `cntNew[]`, `szNew[]`, `k` and the loop
counters, `done` is `abDone[]`. `Shrink`, `Grow`, `Settle` are the turns of the
first pass (8554-8595), `MoveRight`, `NextPair` those of the second (8610-8663),
`EditPage`, `SkipPage` those of the third (8929-8966). `pc = "corrupt"` stands for
the three places where the routine returns `SQLITE_CORRUPT`. A load is not any
array of cells: it comes from siblings that were within their pages before
cells came in (or went), which `ValidLoad` says by way of `fit`, cuts that deal
the cells over NB+2 pages. One cell of an index or interior page takes at most
64/255 of the space of a page: `maxLocal` is `(usableSize-12)*64/255-23` (3442),
and a child pointer, the length of the payload, the number of an overflow page and
the slot are fifteen bytes at most. On pages of 16384 bytes and more this is above a
quarter.

**BTree.** A page is a record: leaf or not, its cells, its right child, its
overflow cells with their index (`aiOvfl[]`), and `lost`, bytes that `nFree` has
counted off although no cell has them. A cell is its key, payload, left child
and overflow chain. `nFree()` is computed as `btreeComputeFreeSpace()` would.
The statements `Insert`, `Overwrite` and `Delete` seek a key and are then the two
API calls up to their call of `balance()` (`PutAt`, `OverwriteAt`,
`DeleteFromLeaf`, `DeleteFromInterior`, which `Cursors` uses with the path of a
cursor); then `pc` is `"balance"` and
each step is one turn of its loop: `BalanceDeeper`, `BalanceQuick`,
`BalanceNonroot`, or `BalanceDone`, which also climbs to the interior page a
deletion started from (10027). `BalanceNonroot` is composed in the stages of the
routine: `Siblings`, `Gathered`, `Deal` (with `CellCuts`), pages allocated,
reused and freed (`Freelist`), `NewNodes`, `NewDivider`, `NewParent`,
`Shallower`. `"failed"` is `SQLITE_FULL`, from where only `Rollback` leads on;
`"corrupt"` is any return of `SQLITE_CORRUPT`.

What is abstracted: bytes other than their number; the place of cells on a page
(so `defragmentPage()` always succeeds, and `editPage()` and `rebuildPage()` are
one); keys are numbers and a comparison is `<`; a divider of a table always takes
five bytes (a rowid below 128); a seek starts from the root (the short cuts are
in `Cursors`); each statement is a transaction of
its own, so that a rollback returns to the state before it; one connection; no
auto-vacuum, so no pointer map; no I/O errors; the sizes that `Deal` starts from are
those of the cells, without the bytes of `lost`, which differ only after what the
run `interior_delete` shows.

**Cursors.** `csr[c]` is the `BtCursor`: `eState`, `path` (`apPage[]`, `aiIdx[]`),
`skipNext`, the saved key, and the flags `BTCF_ValidNKey` (with `info.nKey`:
`nKey`), `BTCF_AtLast` and `BTCF_Multiple`. A call is a step; a write whose
`balance()` has work to do takes further ones (`Rebalance`), during which nobody
else runs. `Following` and `Preceding` are the ways of `btreeNext()` and
`btreePrevious()` through the tree, `Landings` is where a seek may end,
`TableShortcut` and `IndexShortcut` are what the two `Moveto` functions try
first. `SaveAll` is `saveAllCursors()`, `Restored` is
`btreeRestoreCursorPosition()`, `WillBalance` the prediction at 9918 and
`AfterDelete` the end of `sqlite3BtreeDelete()`. `at` and `stay` are not in the
code: the key a cursor showed last and the entries that have been there since;
they are what `ScanStore` speaks of.

*Rules of the caller.* Two kinds of cursors, as the virtual machine has them:
`Scanners` go to the first entry, step both ways, and delete or update what they
stand on with `BTREE_SAVEPOSITION`; `Editors` seek, go to the last entry, insert
and delete without it. A scanner does not seek: a restore sets `BTCF_ValidNKey`
(5906) and the step that follows it on the same leaf leaves the flag set with the
key of the entry before (6342), so that a seek for that key at once would stay
where the cursor is; the virtual machine reads the row, which sets it right. With
`Careful` a scanner makes no update in place while `skipNext` is not zero, see
section 5. A scanner that knows its place is gone (the result of
`sqlite3BtreeCursorRestore()`) steps on and does not write.

**Freelist.** A file is its freelist and its length. The trunk pages are a
sequence with the array of leaves of each, in the order of the file, because the
order decides which page is taken next.

**FileLock and UnixLock.** `lock` is what each connection holds, `reserver`
whose RESERVED byte is locked (who has EXCLUSIVE of a hot journal has no
RESERVED). In `UnixLock` connections belong to processes, and a process has one
POSIX lock for each of the three places of the file (pending byte, reserved
byte, shared range), which is all the kernel knows; `inode` is the
`unixInodeInfo` of the process, with `nShared`, `nLock` and whether descriptors
wait to be closed (`pUnused`). Steps are system calls; the calls of one process
exclude each other by `pLockMutex` (`Enter`). A process may be killed.

**Pager.** A step is a system call with the code around it. The journal is a row
of slots, each with a header or a record; its records carry the nonce of their
header, which stands for the checksum. `db`, `journal` and `dirent` (which file
the name of the journal stands for) hold of each cell what a read returns and
what the disk may hold. `eState` is that of `pager.c`; `pc` says where the
running call is. A connection reads pages, writes and appends pages, spills
(`pagerStress()`), commits in the order of `sqlite3PagerCommitPhaseOne()` and
`...Two()`, rolls back, or finds a hot journal in `sqlite3PagerSharedLock()` and
plays it back. Page 1 holds the change counter and the number of pages.
`IoError` lets a system call of a commit, a spill or a rollback fail and a page be
written in part (not the writes of records in `pager_write()`), `Crash` kills a
process, `PowerLoss` leaves of every unsynced cell any of its contents. What a
state amounts to - the image a reader would get after recovery, and the images
that a power loss could still bring back - is `Image` and `Undone`, and
`AtomicFile` says how these may change: by a commit of what the writer has in
its hands, or by a power loss to an image from before a commit that is not
settled yet. With synchronous=FULL a commit in the modes TRUNCATE and PERSIST is
settled when it returns; in the mode DELETE the deletion of the journal may
still be undone.

A header takes a slot as a record does, not the next sector. A pager that has yet to
write the header that follows a spill (`header` is FALSE) must not take what an older
transaction left in this slot for its own; `PlayHeader` asks for that, where
`readJournalHdr()` has the offset alone to go by.

**Wal.** The log is a sequence of frames with salts; that a frame's checksum
fits is the predicate of the running chain (`Recovered`). The index is `shm`: two copies of the
header (a reader that finds them different retries or recovers), `nBackfill`,
the read marks, and the locks. Each load, store and lock of
`walTryBeginRead()`, `walRestartLog()`, `walCheckpoint()` and
`walIndexRecover()` that another process could fall between is a step. The writer
appends frames, overwrites those of its own transaction and rewrites the
checksums, spills, undoes, restarts the log. A checkpoint is PASSIVE, FULL,
RESTART or TRUNCATE. `SnapshotStore` has one image, a view for each reader, and says that a
checkpoint, a restart and a recovery change neither, and which commits a
power loss may undo (none when commits are synced).

**SharedCache.** `inTrans`, `eLock`, `pWriter`, `inTransaction`, `pending`
(`BTS_PENDING`) and `exclusive` (`BTS_EXCLUSIVE`) are those of `Btree` and
`BtShared`; `pBlockingConnection` and `pUnlockConnection` those of `sqlite3`.
Three kinds of connections: writers, one that begins with EXCLUSIVE, and one that
leaves a SELECT half stepped (`open`), for which `sqlite3BtreeCommitPhaseTwo()`
keeps a read transaction. The mutex of the `BtShared` makes a statement's calls
atomic; between them everybody else runs. A statement that meets a lock fails with
SQLITE_LOCKED; the application then calls `sqlite3_unlock_notify()`, with
anything in between.

**Definitions named `Slip...`** are plausible slips of the definition that
follows them (a dropped guard, an off-by-one, a forgotten assignment). Nothing
uses them; put in place of the definition they show that a property notices.

## 3. Runs

`tlc -config X.cfg M`; sizes of payloads and pages are in the configurations.

| Run | Configuration | Shows |
|---|---|---|
| `packing_leaf` | `CellPackingLeaf` | packing and rewriting for all loads from 5 kinds of siblings, up to three of them, the hot one in 8 x 8 shapes, with and without the bulk-load hint |
| `table_report` | `SplitReport` | a table with a full root, then any three statements, through its growth to three levels and back, with the split counter against the growth of the file (22,075 states) |
| `cursors` | `Cursors` | a scanner and an editor on a table with one entry on each of three leaves; four writes, moves without a bound (82,982 states) |
| `index` | `BTreeIndex` | an index of three levels whose leaves were thinned, then any two statements |
| `page_one` | `BTreePageOne` | the tree whose root is page 1, in a file of five pages, trunks of one leaf, chains of two pages, whole graph; liveness |
| `interior_delete` | `InteriorDelete` | refutes an assertion, see Findings |
| `unix_lock` | `UnixLock` | three connections in two processes, whole graph (1,656 states); liveness |
| `pager` | `Pager` | two connections on a file of up to three pages, in the scenarios below (652,931 states) |
| `pager_shrink` | `PagerShrink` | refutes a comment, see Findings |
| `wal` | `Wal` | one or two connections, four frames, in the scenarios below (881,686 states) |
| `wal_kill` | `WalKill` | refutes a comment, see Findings |
| `shared_cache` | `SharedCache` | three connections, the schema and one table, whole graph (189,310 states); liveness |

Two more configurations of `MCCursors` are there to be run by hand.
`CursorsIndex`: the same two cursors on an index of eight entries and two levels,
one write; passes (12,021 states), and is where the short cut of
`sqlite3BtreeIndexMoveto()` and scans through interior entries are met.
`CursorsOldSkip`: `cursors` without `Careful`, see section 5.

Run `page_one` says nothing about roots elsewhere: the other runs of trees have
theirs on page 2. Loads of index and interior pages, with their
dividers, are not in `packing_leaf`: they are covered by the theorems of section
4, and met in the run `index`, where `GatheringsValid` is checked.

**Bounds and why they are enough.** Pages of 40 to 64 bytes hold two to six
cells, and four cells of an index always fit, as in the code. With payloads of
a small and a big size all the ways to pack arise: pages that overflow by one
cell or by a divider of three, two equal cuts within reach, merges from three
pages to one. Tables with two levels are explored completely
(`page_one`: every sequence of statements whatever its length, as nothing counts
them). Three levels are needed for balances that propagate, for
overflow cells on interior pages, for `OnceEach` and for deletions that reach
more than one level down; reaching them from the empty tree one statement at a
time would mean enumerating all trees on the way, so `MCBTreeScript` inserts and
deletes along a script and then leaves `MaxOps` = 2 or 3 statements free, each on any
key. In `cursors` the tree is filled before a cursor opens and `MaxWrites` = 4:
enough for a deletion, a restored or skipped step, a reinsertion and a balance
under the cursor, in any order and with any moves between. `MaxPgno` limits the file: 5 in `page_one`, where that is the point, and out of
reach elsewhere. `MaxPgno` and `TrunkCap` are the only bounds in `BTree`
itself and both exist in the code (`max_page_count`, `usableSize/4 - 8`).
`BTCURSOR_MAX_DEPTH` bounds a path as in the code.

In `pager` the scenarios are: for each journal mode and a database that is empty
or has two pages, two transactions and a crash, one transaction and two crashes
(a recovery that crashes), one transaction with a crash and an I/O error; and
three pages, so that a transaction spills two. A journal of six slots
(`MaxSlot`) takes such a transaction with its headers, three files (`MaxInode`)
are the journal and two that were it; a journal is created only while one of
them is free (`FreeInodes`). In `wal` they are: two connections with two
transactions and two checkpoints (a checkpoint beside a restart of the log); with
one transaction that spills twice and a crash; with a TRUNCATE checkpoint and a
crash; and one connection with a longer history, commits that are not synced, and
up to two crashes. Four frames (`MaxFrame`) hold two transactions, of which the second
is overwritten by a restart; three read locks (`NReader`, five in the code) are
the slot for the database file, a mark that is kept and a mark that is moved.
`trans`, `crashes`, `errors`, `spills` and `ckpts` bound a scenario, and nothing
else does: everything that lies between is in any order.

*Restrictions with a name.* `DoubleFault` = FALSE (`Pager`): no second fault falls
where the first end of a journal is not synced yet (`Exposed`). With a process
killed there, the next connection takes the journal for worthless, since the
system shows it zeroed, and reuses it before it is on disk; a power loss in that
transaction may then find the old header. Rule (7) at the head of `pager.c`
(89-92) is what it runs against. `KillInReset` = FALSE (`Wal`): no process is
killed inside `walRestartHdr()`; TRUE is the run `wal_kill`. `ShrinkModes`: a
transaction gives up the last page in the modes TRUNCATE and PERSIST; in the mode
DELETE this is `pager_shrink`. A second transaction on a database that is
still empty with the journal of the first kept open is left out (guard of
`BeginWrite`): it would write a journal whose rollback is decided by
`hasHotJournal()` from the size of the file alone.

**Deadlock** is checked in all runs of `BTree` and `Cursors`, in `unix_lock` and in
`shared_cache`: a call that has begun can always go on. It is not in
`packing_leaf`, where the routine ends, and in `pager` and `wal`, where the
transactions and faults of a scenario are used up.

**Fairness.** `CellPacking` has weak fairness of its next step: one call of a
routine, on one thread, that nothing waits for. `BTree` assumes that a running
call goes on: `Fairness` says that infinitely often no call runs or a step of
one is taken. That is weak fairness of `Balance \/ Rollback`, whose enabledness
(`Running`) is written out since TLC would otherwise evaluate the whole balance
twice; that a step is enabled whenever a call runs is what the deadlock check
says. Nothing is assumed of the statements themselves.
`UnixLock`: a call that has begun ends, a connection that reads gives its lock
back, and one that has PENDING tries again, as the busy handler makes it do. `WriterGetsIn`
is stated for a writer against processes that read with one connection each: a
process whose connections take turns holds its one POSIX lock all the time, and
nothing in the code would end that. `SharedCache`: calls and statements end
(weak fairness), and transactions are finished (strong fairness of `Finish`, as an
application may always run another statement first). Nothing is assumed of who
begins what, and nobody has to wait: `GiveUp` is an application that tries again.

**Properties of the other parts.** `Covered`: the locks a connection counts on are
backed by locks of its process, so closing or unlocking one takes nothing from
another. `Refinement` (of `UnixLock`): together with the theorem `LocksExclude`,
exclusion. `WriteAhead`: a page that the file had when the transaction began is overwritten
only when a record of it is on disk, in a segment whose header is on disk
and counts it; and a record of it on disk has the page as it was. `Exclusion`: of file locks. `Refinement` (of
`Pager` and `Wal`): every connection sees one committed image from the beginning
to the end of a transaction, one writer at a time, commits are atomic, and what is settled
survives. `RestartIsSafe`: the log is started over only when everything in it is in
the database file, on disk, and nobody reads it. `LocksOK`: the assertions
of `btree.c` on locks of a shared cache. `NoWaitCycle`, `WaitersAreWoken`:
`sqlite3_unlock_notify()` neither closes a circle nor forgets anybody; a circle is a
set of connections each of which waits for one of the set.
`PendingKeepsReadersOut`: while `BTS_PENDING` is set no new transaction begins, and
the flag stays until the writer has ended its transaction or no other is left. A
connection that was refused ends its statement by the same
`btreeEndTransaction()`, which therefore asks whether it has a transaction (4360)
before it looks at the flag; `SlipClearsPending` is that routine without the
question, and lets the connection in at its second try. That the writer gets in at
all is not promised: the comment says that the flag helps prevent starvation, and
it is cleared when the readers end, before the writer has tried again.

**Properties of the b-tree.** `NeverCorrupt`: no legal sequence of statements makes the code
report corruption. `PagesInBounds`: no page fuller than it can be, no overflow
cell left behind. `Searchable`: all leaves on one level, keys in order, each
entry found from the root at its place. `PagesAccounted`: every page of the file
is used once, as part of the tree, of a chain or of the freelist, also between
the steps of a balance. `OverflowAsserts`, `OnceEach`, `ExactSizes`: assertions
of the code. `GatheringsValid`: what a balance of `BTree` deals out is a load of
`CellPacking`; this is what carries the theorems over to trees.
`Refinement`: `BTree` implements `KeyStore` with the entries of the tree, those
before the statement while one runs; so no entry is lost, doubled or
changed by a balance, and a failed statement leaves no trace. `StatementsEnd`:
each call ends. `GrowthIsCounted`: the pages a command adds are at most the
splits counted plus the calls of `balance_quick()`.

**Properties of cursors.** `PositionHolds`: after any write, a cursor that need not
be restored has a way from the root to an entry of the tree as it now is; one
that says it is valid is on the entry it showed; one that is saved has that key;
any other has lost its entry. `SeeksAgree`: wherever an editor stands, a seek that
takes a short cut reports the same result at the same place as some seek from the
root. `ScanRefinement`: `Cursors` implements `ScanStore`: a step passes over no
entry that has been there all the time and goes back to none, whatever was
written in between, and a write of one cursor changes the place of no other.

## 4. Proofs

Each theorem holds for every value of the constants that the assumptions named
below allow; TLC evaluates these in the runs. Few of the properties
are inductive as they stand: each module states an invariant `IInv` that is, and has
one lemma for each action that keeps it. TLC has checked each `IInv` over the
states of the run of its module before it was proved.

**CellPacking** (`CellPackingProofs`): every page size, every number NB of siblings,
leaves and interior pages, with and without bulk load, and every valid load
(`PackingAssumption`: types, and that loads are valid).

* `TypeCorrect`: the counters stay within the arrays;
* `SizesAreExact`: `szNew[]` always is the space between the cuts;
* `NoFalseCorruption`: the routine never returns `SQLITE_CORRUPT`;
* `EveryPageFits`: each page gets a non-empty run of cells within its space;
* `EveryPageEdited`: the two rewriting passes leave out no page;
* `CellsAreReadFirst`: no page is rewritten while another still needs its cells;
* `CutsAreThose`: the two loops compute the cuts of `CellCuts`, which `BTree` uses:
  a cut of the first pass is the furthest that fits, a cut of the second the
  furthest, from its greedy one leftwards, that the loop's test lets stay.

`IInv` adds, for the first pass, that the pages already settled are as full as
they can be and that the greedy cuts are never left of those of `fit`: this is why
NB+2 pages suffice. For the second it says that each page is within its space
and each cut strictly right of the one before, which needs that a cell of an
index is at most 64/255 of a page, so that three are less than one: a page that
gives up cells until its right neighbour would be the fuller one keeps at least
one. For the third it says
which pages are done in terms of `i`: on the way down those whose cells do not
move left, with everything to the right of them that they take from already
read. `CutsInv` compares the loops half-way with the recursive functions of
`CellCuts`. `GatheringsValid` ties these theorems to `BTree`: checked by TLC, it says
that its balances start from valid loads.

**FileLock** (`PagerProofs`): any set of connections, no assumption.
`LockTypeCorrect`, and `LocksExclude`: whoever has EXCLUSIVE is alone, and one
connection at most is above SHARED.

**UnixLock** (`UnixLockProofs`): any finite set of connections in any processes
(`UnixLockAssumption`; finite because `nShared` and `nLock` count).

* `TypeCorrect`: `nShared` and `nLock` are the numbers of connections of the process
  that have a lock;
* `EveryConnectionCovered`: `Covered`, what a connection believes to have the
  kernel has given to its process;
* `ImplementsFileLock`: `Refinement`, each system call is a step of `FileLock` or
  changes no lock of it;
* `ConnectionsExclude`: with `LocksExclude`, exclusion down to the byte locks.

`IInv` says where a call can be that others of the process see nothing of
(`pLockMutex`), that the level in the `unixInodeInfo` is that of its strongest
connection except between the two halves of an unlock, and which of the three
byte locks the process has in terms of these. Two processes exclude each other
because of the kernel's rule alone; two connections of one process because of
the level, and this is where the invariant is needed.

**SharedCache** (`SharedCacheProofs`): any finite set of connections, any tables
(`SharedCacheAssumption`: the schema table is one of them).

* `LocksAreOK`: `LocksOK`, the assertions of `btree.c` on table locks;
* `ReadersBecomeFewer`: `PendingKeepsReadersOut`; the flag goes with two transactions
  left, and what is proved is that these are the writer's and that of the
  connection which ends (`LastOfTwo`);
* `NoCallIsLost`: whom a connection waits for is in a transaction or has yet to
  make its calls at the end of one;
* `NobodyWaitsInACircle`: `NoWaitCycle`. The graph of who waits for whom gets an edge
  only from the connection that calls `sqlite3_unlock_notify()`, and only when the
  loop of `notify.c` does not come back to it. A circle is stated as a set of
  connections that wait within it, and the loop as the least set that whoever is
  met leads on within (`WaitsFor`): a set that the new edge would close holds the
  caller, so the path from it would have led back.

`IInv` adds to the locks that whoever has a transaction has a lock on the
schema, which is how one that wants to be alone sees it, and to the waits
that the connection in the way owes a call (`Owes`) until it has made it.

**Pager** (`PagerProofs`): any numbers of connections, pages, slots and inodes, any
scenarios, any values of `DoubleFault` and `ShrinkModes` (`PagerAssumption`:
numbers that are not zero, and that a page that is missing is no value of one).

* `WriterIsAlone`: `Exclusion`; the lock calls of `Pager` are actions of `FileLock`,
  and the proof uses `ExclusionStep`, the lemma for a step of `FileLock`;
* `PagerStates`: `assert_pager_state()` in what it says of locks, size and journal;
* `WrittenAlone`: the file changes only under an EXCLUSIVE lock that is the only
  lock, or by a power loss;
* `RecordsComeFirst`: when a transaction overwrites a page that the file had at its
  beginning, a record of this page is on disk, in a segment whose header is on
  disk and counts it.

`IInv` lists which states of a pager go with which places of its calls and which
lock (`StateInv`), and while a transaction is being logged (`Logging`) what its
journal holds (`LogInv`): of each journalled page the record is on disk and counted,
or the page is in `needSync` and its record in the open segment. A spill writes a
page of a transaction whose other pages are not synced, so the invariant has to
speak of pages, not of the journal as a whole. One connection moves at a time,
and another that is logging would have RESERVED as well (`OneMoves`). What
`RecordsComeFirst` does not say is that the record has the content the page had
before the transaction; that, and what recovery makes of it, is the subject of
`PagerImageProofs`. It speaks of pages the file has (`db[p].cur # NoPage`): page
numbers above its end have no content to lose.

**The data of the pager** (`PagerProofs`): the same, with no more assumptions.

* `TypeCorrect`: `TypeOK`, the files hold what was written or what is left of a write
  that was broken off, and what each pager knows of pages, sizes and places in
  the journal exists.

`TypeOK` says of a dirty page that it is in the cache, and this is no question
of types: a page is journalled and changed after it was read, so the file has to
have it. `DbType` says the file has no gap (`Present`), after a spill that extends it
and a power loss too, and `SizeType` that it still has the pages a transaction
began with, or those a rollback goes back to, through the errors in between.
A rollback reads that size from the first header of the journal: `HeaderType` says
that it is a header with the size the transaction began with, until the journal
is ended, and that the header the pager knows by its place is one. `JournalType`
says what records and headers hold, and that no number (`cksumInit`) in a journal is
above a bound: so there always is one that the journal does not hold, which is
what a new header takes.

**The committed image** (`PagerPromiseProofs`, `PagerImageProofs`): the same
assumptions, `~DoubleFault`, and that no transaction shrinks the file in the mode
DELETE. The last two are the constants of the run `pager`; without the second the
theorem is false, as `pager_shrink` shows, and section 3 says what the first leaves
out.

* `CommittedImageKept`: in every reachable state there is an image, a row of pages
  of which the first has their number, of which `PInv` holds;
* `PagesAreOnRecord`: `WriteAhead`, a page of that image is overwritten only when a
  record of it, with its content, is on disk in a segment that counts it.

`PInv(i)` has a part for the files and one for each connection. `FilesK`: whatever
file the name of the journal may stand for after a power loss, and whichever of its
contents the first header may have then, the database file is `i` and the journal
not hot, or the journal brings an image back: `i`, or one that was committed before
`i` when the end of the journal is not on disk yet (`Revives`). `Covered` says how a
journal brings an image back: its segments follow each other without a gap, its
records are on disk and those of the image have its content, behind the last one no
old header can be taken for a new one, and each page that is not on disk as the
image has it is on record. `ConnK` says what a connection relies on: `TrustK`, that
the file is `i` with no journal hot where the code takes it to be; `CacheK` and `ReadK`, that
a reader's cache is of `i`, and one kept from before is if its version is; `JfdK`, that
the journal it has open is the one with the name; `OwnK`, of a transaction, that its
journal covers `i` up to the last synced header and that cache, file and journal
together have each page; the same during its rollback, for what is still to be
played; `HotK`, of a hot journal, also when a second process begins again where the first
was killed. A step of one connection leaves what is said of the others because they
then have no lock, or one that keeps it off the file (`WriterIsAlone`). TLC has checked
`PInv`, with the image a variable of its own, over scenarios of `pager`.

`CommittedImageKept` is the safety half of `Refinement` put as an invariant: the image
does not change but by the end of a journal or a power loss. That the steps are those of
`AtomicFile`, with `Undone`, the images a power loss may still bring back, stays with TLC.

**Wal** (`WalProofs`): any finite sets of connections and pages, any numbers of
frames and read-marks (three at least), any scenarios, both values of
`KillInReset` (`WalAssumption`).

* `TypeCorrect`: `TypeOK`, each lock has one owner or is shared, each part of the
  code has the lock it relies on, and no read-mark is above the snapshot of a
  reader on it;
* `SnapshotsArePinned`: no read-mark moves while a reader is on it, and the header
  changes under no writer - not by a recovery either, which takes the write lock
  but not those of readers.

`IInv` says which locks each place of a call owns or shares (`Owns`, `Shares`), which
places belong to which job, and where headers and marks may stand (`MarkInv`:
the header of a writer never is behind the one in shared memory, except in the
middle of a reset).

**The contents of the log** (`WalRestartProofs`): the same assumptions and
`~KillInReset`, which is not for convenience: `wal_kill` shows what a process killed
inside `walRestartHdr()` leaves behind (section 5).

* `RestartsAreSafe`: `RestartIsSafe`, the log is started again only when the last
  frame of every page is in the database file and the file is on disk;
* `BackfillIsWithin`: `BackfillWithinLog`, which is false with `KillInReset`.

`JInv` is what the three files say together. `FitsLog`: the frames up to a header's
`mxFrame` have its salt, the last of them is a commit, the index knows their pages
and the checksum covers them all; hence `walIndexRecover()` finds at least as much
as the header had. `DbInv`: a page whose last frame is one of the first `nBackfill` has
that content in the database file, and the file is on disk once all frames
were copied. `Written1` and `WriterInv`: the same of a writer that has published nothing
yet, but for the frames behind one that it has written over (`redo`), whose
checksums are wrong until `walRewriteChecksums()`. `CkptInv` and `CopyInv`: how far a
checkpoint is. A checkpoint may hold a header of a log that was started again
since: `Older` and `Fresh` say that salts tell the two logs apart, and also from the
one that a writer is about to begin. A step of one connection is shown to leave
what is said of the others by `PartsKept`, in terms of what it may change while they
are where they are (`Rely`). TLC has checked `JInv` over a scenario of `wal`.

**What stays with TLC.** Liveness (`Terminates`, `StatementsEnd`, `WriterGetsIn`,
`WaitersAreWoken`): fairness and ENABLED are out of reach of the prover.
`Refinement` of `Pager` and `Wal`: it compares contents across journals, logs and files
with what each reader was shown. Everything about `BTree`,
`Freelist`, `KeyStore`, `Cursors`, `ScanStore` and `SplitReport`. A recursive function
over numbers can be reasoned about, by a least counterexample (`TableExists` and
`SurvivorsAre` in `PagerProofs` and `WalProofs`, for the power loss,
`GreedyTableExists` and `LevelTableExists` for the cuts); trees have no such order at hand.

Two cautions for whoever extends the proofs. tlapm 1.4.5 translates a function
update with two paths through the same element, `[f EXCEPT ![p].a = @ + 1, ![p].b
= @ + 1]`, wrongly and can prove falsehoods from it: the modules that are proved
about update the element as a whole. And it reads `UNION S \cup T` as `UNION
(S \cup T)`, unlike SANY: such expressions have parentheses.

## 5. Findings

* **Deletion from an interior page passes a wrong size** (`interior_delete`,
  9997). The last cell of a leaf moves to the interior page with the size on the
  leaf plus four. A cell of three bytes counts as four on a leaf, so seven bytes
  are inserted as eight; `insertCell()` asserts that they agree (7340), and
  `balance_nonroot()` reparses the cell for exactly this case (8876-8890). In a
  build without assertions the page counts as used a byte that no cell has. It
  takes an index with a three-byte entry: a `WITHOUT ROWID` table whose only
  column is its key, or an `IN (SELECT ...)`.
* **The end of a commit that shrinks the file is not synced in time**
  (`pager_shrink`, `pager.c:2144`). The comment calls the transaction committed
  and the truncation safe. With `journal_mode=DELETE` and `synchronous=FULL` the
  directory is not synced after the journal was deleted (only `EXTRA` does), so a
  power loss may undo the deletion and keep the truncation. The page at the end,
  which the vacuum has moved elsewhere (`relocatePage()`), was never written and so
  is not in the journal; the rollback gives the file its old length with zeros in
  that place. In the modes TRUNCATE and PERSIST the end of the journal is synced.
* **`nBackfill` may exceed `mxFrame`** (`wal_kill`, `wal.c:2155`). `walRestartHdr()`
  publishes `mxFrame`=0 and sets `nBackfill`=0 afterwards; a process killed in
  between, with others attached, leaves the old count beside an intact header, and
  nobody recovers. In the model a later commit of as many frames is then taken
  for one that is in the database file, readers do not see it, and the next
  writer restarts the log over it.

Seen on the way, in no listed run:

* *An assertion of `walRestartLog()`.* `assert( pWal->hdr.mxFrame==pInfo->nBackfill )`
  (`wal.c:3875`, a writer that reads from the database file alone, `readLock==0`) can
  fail. A recovered header has `iChange`=0. Let a checkpoint be complete, and a reader
  be on slot 0; another connection begins a write and is killed in
  `walRestartHdr()` between the two copies of the header. A third finds them
  different and recovers: the log is as it was, so the recovered header is the
  same, byte for byte, and `nBackfill` is 0. The reader then begins to write (its
  header is the current one) and finds `nBackfill` 0 where it had been `mxFrame`. It
  takes three transactions, a checkpoint and two crashes, more than a scenario of
  `wal` has; a run steered there shows it. Without assertions nothing happens,
  since the log is started over only if `nBackfill` > 0. `RestartIsSafe` therefore
  asks for `nBackfill` = `mxFrame` only where `nBackfill` is not 0.
* *A cache that outlives a log.* "If the database contents have changes since the
  previous read transaction, then *pChanged is set to 1" (`wal.c:3482`, at
  `sqlite3WalBeginReadTransaction()`). A header recovered from an empty log is all zeros
  (1408), the same each time. Let A read while nothing was ever written to the log, and
  keep its cache. B commits; a TRUNCATE checkpoint copies everything and cuts the log; a
  second one is killed in `walRestartHdr()` (2154) between the two copies of the header.
  Whoever comes next recovers from the empty log, and A, which finds the header it
  remembers (2624), does not reset its cache (`pager.c:3260`) and reads the pages of
  before B's commit. The process must die between two `memcpy()`. `Refinement` of
  `Wal` looks at the pages that a connection has in its cache while it reads, kept
  ones included, but its scenarios are a checkpoint too short for this; a longer one
  with one read page kept from one transaction to the next ends in this state.
* *`skipNext` outlives its state.* `btreeInt.h:523` calls it meaningless in a valid
  cursor. `sqlite3BtreeInsert()` (9720) and `sqlite3BtreeDelete()`
  (10053) bring a valid cursor to CURSOR_REQUIRESEEK without setting it to
  zero, which `saveCursorPosition()` does (774), and `btreeRestoreCursorPosition()`
  (919-922) then takes the old value for its own. `tlc -config CursorsOldSkip.cfg
  MCCursors` ends in such a state: one cursor goes to the first entry, deletes it
  keeping its place, steps to the second, and updates that with a longer payload,
  which is balanced; restored, it is SKIPNEXT on the very entry it showed, so that
  the next step returns that entry again. Statements of SQL do not delete and
  update with one cursor; a statement that updates while a function it calls
  deletes rows of the same table comes near.
* *The counter.* `balance_nonroot()` counts its call (8317) and each overfull
  sibling (8456), and a split by `balance_quick()` counts nothing, so `split_count`
  is not the number of splits of which `Experiment/Code_Changes.md` speaks
  (`GrowthIsCounted` is what does hold).
* *The reports.* `Report/DesignDecision.md` describes a preemptive top-down split;
  the code lets the leaf overflow and balances on the way up. `balance_quick()`
  tests that the leaf is the last child of its parent, not that the parent is the
  last page of its level, contrary to the comment on it.

## 6. Not modelled

Space on a page, auto-vacuum, page cache and backup: see the plan. Of cursors:
CURSOR_FAULT after a rollback (`sqlite3BtreeTripAllCursors()`), pinned cursors, a
root on page 1, `OPFLAG_SEEKRESULT`. Of the b-tree: `BTREE_APPEND`, `BTREE_PREFORMAT`,
`sqlite3BtreeClearTable()`, incremental blobs; the bulk-load hint (`Bulk`) is
checked in `packing_leaf` and FALSE in the runs of trees. Of the shared cache:
read-uncommitted, attached databases, the read-locks of a backup, connections that
close. Of the pager: savepoints, super-journals, `locking_mode=EXCLUSIVE`,
`synchronous` below FULL, journals in memory, memory mapping, sectors larger than
a page, batch-atomic writes. Of the log: `sqlite3WalClose()` (the last connection
checkpoints and deletes the log), savepoints, snapshots, an index in heap memory
or on a read-only file, blocking locks, and the hash tables, which only speed
`walFindFrame()` up. Locks other than POSIX. The virtual machine, the SQL
compiler, library services, extensions, shell and tests: sequential code over
large data that a small state space says nothing about, or no code of the program.
The repository also holds generated amalgamations (`sqlite3.c`, `shell.c`, `tsrc/`)
of the same sources and an unmodified copy of the library; the map names
the sources in `src/` only.

## 7. Plan

Done: all modules of section 2, and the proofs of section 4. Next, in this order:

1. Proofs: `Refinement` of `Pager`, for which `PInv` has the image, and what is left is
   the bookkeeping of `Undone`; `Refinement` of `Wal`, for which `JInv` has to say of each
   cached page that it is the last frame, or the page of the database file, of its
   snapshot; that `Freelist` neither loses nor doubles a page; `GrowthIsCounted`.
2. `PageSpace`: `allocateSpace()`, `freeSpace()`, `defragmentPage()` on a page of
   some 40 bytes; free bytes and fragments always agree with the cells.
3. Savepoints on `Pager`; page cache and backup; pointer map and auto-vacuum on
   `Freelist`.
