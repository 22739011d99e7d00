--------------------------- MODULE MCGpuResources ---------------------------
(* Constants and symmetry for model-checking GpuResources.                 *)
EXTENDS GpuResources, TLC

CONSTANTS k1, k2, k3, m1, m2

MayFail == Results

BlockSymmetry == Permutations(Blocks)

(* 1024x768 and 2560x1600 at 32 bits, and 64x64.                           *)
Sizes == [m \in {m1, m2, Pointer} |->
            CASE m = m1 -> 3145728 [] m = m2 -> 16384000 [] m = Pointer -> 16384]
=============================================================================
