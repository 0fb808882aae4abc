----------------------------- MODULE BlockFile ------------------------------
(***************************************************************************)
(* The block device over an image file (src/temu.c): read only, written    *)
(* through, or with a snapshot, where what is written stays in memory.     *)
(* The device is a record [mode, file, table] with the sectors of the file *)
(* and of sector_table.                                                    *)
(***************************************************************************)
EXTENDS Integers, Sequences

NoSector == -1

file_init(mode, image) ==
  [mode |-> mode, file |-> image, table |-> [s \in DOMAIN image |-> NoSector]]

\* bf_read_async: the sectors it puts into the buffer
file_read(f, sector, n) ==
  [i \in 1 .. n |->
     LET s == sector + i - 1
     IN  IF f.mode = "snapshot" /\ f.table[s] # NoSector THEN f.table[s] ELSE f.file[s]]

Written(sectors, sector, buf) ==
  [s \in DOMAIN sectors |->
     IF s \in sector .. sector + Len(buf) - 1 THEN buf[s - sector + 1] ELSE sectors[s]]

\* bf_write_async
file_write(f, sector, buf) ==
  CASE f.mode = "ro" -> [f |-> f, ret |-> -1]
    [] f.mode = "rw" -> [f |-> [f EXCEPT !.file = Written(@, sector, buf)], ret |-> 0]
    [] f.mode = "snapshot" ->
         [f |-> [f EXCEPT !.table = Written(@, sector, buf)], ret |-> 0]
=============================================================================
