---------------------------- MODULE MCMemoryPool ----------------------------
(***************************************************************************)
(* A pool of four blocks of two bytes.  Clients free every address of the  *)
(* pool, one below, and those above it past the first wrap of the block    *)
(* number as an int of 8 values; they write ints that look like links.     *)
(***************************************************************************)
EXTENDS MemoryPool

MCPointers == -1 .. (IntModulus + BlockCount) * BlockSize
MCContents == -1 .. BlockCount - 1
=============================================================================
