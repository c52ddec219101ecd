------------------------------ MODULE MCMemory ------------------------------
(***************************************************************************)
(* The memory of the virtual machine, on small instances: references with  *)
(* the collector that frees them, and the chunks they are allocated in.    *)
(* References see chunks as memory that is reused, so a behaviour          *)
(* exercises one of the two.                                               *)
(***************************************************************************)
EXTENDS MCHeap, ChunkAllocator

VARIABLE part

MemoryInit == part \in {"references", "chunks"} /\ Init /\ ChunksInit /\ (part = "references" => areas = 0)

MemoryNext == /\ UNCHANGED part
              /\ \/ part = "references" /\ Next /\ UNCHANGED chunkVars
                 \/ part = "chunks" /\ ChunksNext /\ UNCHANGED vars

MemorySpec == MemoryInit /\ [][MemoryNext]_<<part, vars, chunkVars>>
=============================================================================
