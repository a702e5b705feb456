------------------------------- MODULE Disk --------------------------------
(***************************************************************************)
(* Files as an operating system keeps them between two syncs: of each cell *)
(* (a page, a header, a record) what a read returns and what the disk may  *)
(* hold after a power loss.  External: os_unix.c leaves this to the kernel.*)
(***************************************************************************)
EXTENDS Naturals, Sequences

Stable(x) == [cur |-> x, may |-> {x}]
Written(cell, x) ==
  [cur |-> x, may |-> cell.may \cup {x}]
\* A write of a page is not atomic, unless it changes nothing.
WrittenPage(cell, x, torn) ==
  [cur |-> x, may |-> cell.may \cup {x} \cup (IF cell.may = {x} THEN {} ELSE {torn})]
Sync(f) == [i \in DOMAIN f |-> Stable(f[i].cur)]
Cur(f) == [i \in DOMAIN f |-> f[i].cur]

\* What a power loss may make of a file: of each cell any of its contents.
Survivors(f) ==
  LET upTo[k \in 0..Len(f)] ==
        IF k = 0 THEN {<<>>}
        ELSE {Append(s, x) : s \in upTo[k - 1], x \in f[k].may}
  IN upTo[Len(f)]
=============================================================================
