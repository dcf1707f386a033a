-------------------------- MODULE MC_ResourceManager --------------------------
(* Instances of the resource manager.  Its threads are interchangeable.        *)
EXTENDS ResourceManager, TLC

ThreadSymmetry == Permutations(Threads)
BothModes == {"Shared", "Exclusive"}
ExclusiveOnly == {"Exclusive"}
===============================================================================
