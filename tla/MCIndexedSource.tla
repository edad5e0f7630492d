--------------------------- MODULE MCIndexedSource ---------------------------
(* One file that is served as the HDF5 dataset H, by itself: the instance    *)
(* with an aggregate of the same file is that of MCServer.                   *)
EXTENDS IndexedSource

MCDatasetOf == [s \in Sources |-> "H"]
MCFileOf == [s \in Sources |-> "f"]
MCKeyOf == [s \in Sources |-> "kf"]
=============================================================================
