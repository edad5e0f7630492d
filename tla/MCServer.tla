------------------------------ MODULE MCServer ------------------------------
(* The file f is served as the HDF5 dataset H, and twice as a member of the *)
(* aggregate N, which finds it by its <scan> (ma) and lists it once more     *)
(* (mb).  ma and mb are opened in parallel, and all three share a key.  A     *)
(* response of H has two variables; one of N goes over both members and back  *)
(* to the first.                                                            *)
EXTENDS Server

MCDatasetOf == [s \in Sources |-> IF s = "h" THEN "H" ELSE "N"]
MCFileOf == [s \in Sources |-> "f"]
MCKeyOf == [s \in Sources |-> "kf"]

MCPlans == [d \in Datasets |->
    IF d = "H" THEN {<<"h", "h">>} ELSE {<<"ma", "mb", "ma">>}]

MCLength == [f \in Files |-> [v \in 1..MaxVersion |-> 10 * v]]
=============================================================================
