------------------------------- MODULE Catalog -------------------------------
(***************************************************************************)
(* The pages of the catalog, from the keys of the datasets:                *)
(*                                                                         *)
(*   elements, folder     dars-catalog/src/filters.rs, handlers.rs         *)
(*   the links of a page  dars-catalog/src/templates/folder.html           *)
(*                                                                         *)
(* Keys and paths are as in DataDir.  The keys come in the order in which  *)
(* the map happens to yield them.  The text of a page is left out: a page  *)
(* is what it lists and what it links to.                                  *)
(***************************************************************************)
EXTENDS DataDir, FiniteSets

CONSTANTS
    Alphabet,   \* every name that occurs, in the order of strings
    Wide        \* names whose first character is longer than one byte

DataPath == << <<"data">> >>    \* "/data"

\* It lists nothing twice.
ASSUME AlphabetAssumption ==
    /\ Alphabet \in Seq(Names)
    /\ \A i, j \in DOMAIN Alphabet : Alphabet[i] = Alphabet[j] => i = j

\* What follows "data/" in the path of a request.
TailOf(path) == IF Len(path) = 1 THEN <<Empty>> ELSE Tail(path)

Before(a, b) ==
    \E i, j \in DOMAIN Alphabet : i < j /\ Alphabet[i] = a /\ Alphabet[j] = b

\* A definition X_Y that precedes X is a mutation of X: a plausible mistake at
\* that place.
Sorted_Not(names) == names

\* Equal names stay in the order they have.
NotAfter(names, i, j) ==
    Before(names[i], names[j]) \/ (names[i] = names[j] /\ i <= j)

OfRank(names, n) ==
    CHOOSE j \in 1..Len(names) :
        Cardinality({i \in 1..Len(names) : NotAfter(names, i, j)}) = n

Sorted(names) == [n \in 1..Len(names) |-> names[OfRank(names, n)]]

\* Vec::dedup compares neighbours.
Dedup(names) ==
    FlattenSeq([i \in 1..Len(names) |->
        IF i > 1 /\ names[i] = names[i - 1] THEN <<>> ELSE <<names[i]>>])

AsFolder(tail) == IF Last(tail) = Empty THEN tail ELSE Append(tail, Empty)

\* What remains of the keys that start with the folder (filter_map).
Rests(keys, tail) ==
    LET folder == Front(AsFolder(tail))
    IN  FlattenSeq([i \in 1..Len(keys) |->
            IF IsStrictPrefix(folder, keys[i])
            THEN <<SubSeq(keys[i], Len(folder) + 1, Len(keys[i]))>> ELSE <<>>])

\* The two halves of the partition, cut to the first name.
FileNames(rests) ==
    FlattenSeq([i \in 1..Len(rests) |->
        IF Len(rests[i]) = 1 THEN <<Head(rests[i])>> ELSE <<>>])

FolderNames(rests) ==
    FlattenSeq([i \in 1..Len(rests) |->
        IF Len(rests[i]) > 1 THEN <<Head(rests[i])>> ELSE <<>>])

Files(keys, tail) == Sorted(FileNames(Rests(keys, tail)))

Folders(keys, tail) == Dedup(Sorted(FolderNames(Rests(keys, tail))))

\* p[1..] is no slice of a string whose first character is longer than a byte.
Panics(keys, tail) ==
    ToSet(FolderNames(Rests(keys, tail))) \cap Wide # {}

IsFolder_Any(keys, tail) == TRUE

IsFolder(keys, tail) ==
    Folders(keys, tail) # <<>> \/ Files(keys, tail) \notin {<<>>, AsFolder(tail)}

-----------------------------------------------------------------------------
(* The links of the page, as paths.                                         *)

PathOf(folder, name) == DataPath \o folder \o <<name>>

\* d.path.das
WithSuffix(path, suffix) == Append(Front(path), Append(Last(path), suffix))

DatasetLinks(path) == <<path, WithSuffix(path, "das"), WithSuffix(path, "dds")>>

FolderLinks_TwoSlashes(keys, tail) ==
    [i \in DOMAIN Folders(keys, tail) |-> PathOf(AsFolder(tail), Folders(keys, tail)[i])]

FolderLinks(keys, tail) ==
    [i \in DOMAIN Folders(keys, tail) |->
        PathOf(WithoutSlash(tail), Folders(keys, tail)[i])]

PageLinks(keys, tail) ==
    << <<Empty>>, Append(DataPath, Empty) >>
    \o FolderLinks(keys, tail)
    \o FlattenSeq([i \in DOMAIN Files(keys, tail) |->
           DatasetLinks(PathOf(WithoutSlash(tail), Files(keys, tail)[i]))])

\* The link of index.html.
IndexLinks == <<DataPath>>
=============================================================================
