---------------------------- MODULE MCNcmlDataset ----------------------------
(* Two files with rows of time, one that has no number for a coordinate and  *)
(* is emptied later.  b is listed first but starts later than a, and its     *)
(* second version is longer.  The documents name the members, find them by a *)
(* scan, cannot be used, name a file twice, whose members then share an      *)
(* index, or name none; every replacement of the document on disk is by the  *)
(* next of them.  Each file may have been indexed before.                    *)
EXTENDS NcmlDataset

F(f) == [file |-> f, hidden |-> FALSE, suffixed |-> TRUE, ignored |-> FALSE]
Netcdf(f) == [tag |-> "netcdf", location |-> TRUE, suffix |-> FALSE, found |-> <<F(f)>>]
NoLocation == [tag |-> "netcdf", location |-> FALSE, suffix |-> FALSE, found |-> <<>>]
Unknown == [tag |-> "attribute", location |-> TRUE, suffix |-> FALSE, found |-> <<F("c")>>]
Scan(suffix, found) == [tag |-> "scan", location |-> TRUE, suffix |-> suffix, found |-> found]
Doc(elements) == [joinExisting |-> TRUE, elements |-> elements]

Walk == << F("b"),
           [file |-> "c", hidden |-> TRUE, suffixed |-> TRUE, ignored |-> FALSE],
           [file |-> "c", hidden |-> FALSE, suffixed |-> FALSE, ignored |-> FALSE],
           [file |-> "c", hidden |-> FALSE, suffixed |-> TRUE, ignored |-> TRUE],
           F("a") >>

MCFiles == {"a", "b", "c"}

MCContent == [f \in MCFiles |->
    CASE f = "a" -> << <<1, 2>>, <<1>> >>
      [] f = "b" -> << <<4>>, <<3, 4>> >>
      [] f = "c" -> << <<NaN>>, <<>> >>]

MCDocuments == <<
    Doc(<<Netcdf("b"), Unknown, NoLocation, Netcdf("a")>>),
    Doc(<<Scan(FALSE, Walk)>>),
    Doc(<<Scan(TRUE, Walk)>>),
    Doc(<<Netcdf("a"), Netcdf("c")>>),
    Doc(<<Netcdf("b"), Netcdf("b")>>),
    Doc(<<>>) >>
=============================================================================
