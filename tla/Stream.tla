------------------------------- MODULE Stream -------------------------------
(***************************************************************************)
(* What a UDT stream socket promises to its two applications: the bytes    *)
(* read from one end are a prefix of the bytes written at the other.  The  *)
(* stream is cut into payload-sized blocks and block k is the k-th block   *)
(* written, so a faithful reader reads 1, 2, 3, ...                        *)
(***************************************************************************)
EXTENDS Naturals, Sequences

VARIABLES written,   \* number of blocks the writer handed to CUDT::send
          read       \* the blocks CUDT::recv returned, in the order it did

streamVars == <<written, read>>

StreamInit == written = 0 /\ read = <<>>

Write == written' = written + 1 /\ UNCHANGED read

Read ==
    /\ Len(read) < written
    /\ read' = Append(read, Len(read) + 1)
    /\ UNCHANGED written

StreamNext == Write \/ Read

StreamSpec == StreamInit /\ [][StreamNext]_streamVars
=============================================================================
