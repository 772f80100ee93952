-------------------------- MODULE MCHeapAllocator --------------------------
(***************************************************************************)
(* A heap of 48 units (384 bytes), headers of 4 units.  In the first       *)
(* instance every size is a multiple of BLOCK_SIZE, as the page-sized      *)
(* requests of the tests are: every address then is one too.  In the       *)
(* second a client of val_malloc asks for an odd number of units.          *)
(***************************************************************************)
EXTENDS HeapAllocator

Pages == { <<8, 8>>, <<16, 16>> }

OnePage == { <<8, 8>> }
=============================================================================
