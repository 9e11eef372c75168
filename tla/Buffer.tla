------------------------------- MODULE Buffer -------------------------------
(***************************************************************************)
(* buffer.c: the byte buffer every connection reads into and writes from.  *)
(*                                                                         *)
(* A buffer is a block of BufSize bytes with a read and a write pointer.   *)
(* The pointers are modelled as offsets from `data'; which bytes sit       *)
(* between them is the business of the modules that use the buffer.        *)
(***************************************************************************)
EXTENDS Integers

CONSTANT BufSize     \* limit - data: RAW_BUFFER_SIZE in the proxy

ASSUME BufSizeAssumption == BufSize \in Nat \ {0}

(* The invariant buffer.h draws: R <= W <= limit.                          *)
Buffers == {b \in [read : 0 .. BufSize, write : 0 .. BufSize] : b.read <= b.write}

buffer_init == [read |-> 0, write |-> 0]

(* Room left to write (what buffer_write_ptr returns through nbyte).       *)
buffer_write_ptr(b) == BufSize - b.write

buffer_can_write(b) == buffer_write_ptr(b) > 0

(* Bytes waiting to be read (what buffer_read_ptr returns through nbyte).  *)
buffer_read_ptr(b) == b.write - b.read

buffer_can_read(b) == buffer_read_ptr(b) > 0

(* Mutant: the write pointer skips a byte.                                 *)
WriteAdvSkips(b, n) == [b EXCEPT !.write = @ + n + 1]

buffer_write_adv(b, n) == [b EXCEPT !.write = @ + n]

buffer_compact(b) == [read |-> 0, write |-> b.write - b.read]

(* Mutant: a partial read discards the rest.                               *)
ReadAdvDiscards(b, n) == buffer_init

(* Mutant: an emptied buffer is not compacted.                             *)
ReadAdvNoCompact(b, n) == [b EXCEPT !.read = @ + n]

(* The only compaction the program ever makes: when the buffer empties.    *)
buffer_read_adv(b, n) ==
  LET advanced == [b EXCEPT !.read = @ + n]
  IN  IF advanced.read = advanced.write THEN buffer_compact(advanced) ELSE advanced
=============================================================================
