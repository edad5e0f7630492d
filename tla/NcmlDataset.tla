---------------------------- MODULE NcmlDataset ----------------------------
(***************************************************************************)
(* An NcML aggregate from its document to the rows it serves:              *)
(*                                                                         *)
(*   NcmlDataset::open, get_member_files, variable_xdr                     *)
(*   CoordinateVariable::from, stream_xdr        dars/src/ncml/mod.rs      *)
(*   NcmlDdsBuilder                              dars/src/ncml/dds.rs      *)
(*   NcmlMember::open, stream_xdr (its check)    dars/src/ncml/member.rs   *)
(*                                                                         *)
(* The members are opened in parallel, the coordinate variable is read     *)
(* from all of them afterwards and kept, and the rows of a request are     *)
(* read later still, while the document and the files may be replaced at   *)
(* any time.  Whatever is read of a variable is found through the index    *)
(* that the database has under the path of the file: members of one path    *)
(* share it, and it may have been there before.  Versions and modification *)
(* times are as in IndexedSource, which has the database's own life, over  *)
(* flushes and restarts.  How a slab is cut at the member boundaries is    *)
(* the subject of AggregateStream: here its rows are delivered one by one.  *)
(***************************************************************************)
EXTENDS Naturals, FiniteSets, Sequences, SequencesExt, Sums

CONSTANTS
    Files,
    Content,     \* Content[f][v]: the coordinates in version v of file f
    Documents,   \* the versions of the .ncml file
    NaN,         \* a coordinate that is not a number
    Garbage      \* what an index of one version reads from another

\* A file that is ever there has a first version.
ASSUME ContentAssumption ==
    /\ Content \in [Files -> Seq(Seq(Nat \cup {NaN}))]
    /\ \A f \in Files : Content[f] # <<>>

VARIABLES
    ver,        \* ver[f]: version of file f on disk
    docver,     \* version of the document on disk
    index,      \* index[f]: version indexed under the path of f, 0 if none
    stage,      \* how far NcmlDataset::open is, see Stages
    modified,   \* the document's modification time, 0 before it is taken
    listing,    \* the member files in the order of the document
    members,    \* members[k], of file listing[k]: [st, modified, opened]
    order,      \* the members after sort_by, as places in the listing
    attributes, \* version of the first member that the DAS was built from
    described,  \* version of it that the DDS was built from
    cache,      \* CoordinateVariable.bytes, one value per dsz bytes
    read,       \* number of members whose coordinates are in the cache
    status,     \* of a request: "none", "data", "map", "other", "served", ..
    first, count,   \* its slab along the aggregation dimension
    reader,     \* the member being read: its place, and the version opened
    rows,       \* data rows delivered: [place, version, row]
    coords,     \* coordinates delivered
    other,      \* version that a variable outside the aggregation came from
    checkedDoc  \* version of the document at its latest check

diskVars == <<ver, docver>>
describedVars == <<attributes, described>>
cacheVars == <<cache, read>>
openVars == <<index, stage, modified, listing, members, order, describedVars, cacheVars>>
requestVars == <<status, first, count, reader, rows, coords, other, checkedDoc>>
vars == <<diskVars, openVars, requestVars>>

Stages == {"start", "document", "members", "sorted", "attributes", "described", "open",
           "failed"}

NoReader == [place |-> 0, version |-> 0]

\* Earlier opens of the files, by other datasets or another process, may have
\* left their index; the scan opens one dataset after the other, so that nobody
\* else inserts one meanwhile.
Init ==
    /\ ver = [f \in Files |-> 1]
    /\ docver \in 1..Len(Documents)
    /\ index \in [Files -> {0, 1}]
    /\ stage = "start"
    /\ modified = 0
    /\ listing = <<>>
    /\ members = <<>>
    /\ order = <<>>
    /\ attributes = 0 /\ described = 0
    /\ cache = <<>>
    /\ read = 0
    /\ status = "none"
    /\ first = 0 /\ count = 0
    /\ reader = NoReader
    /\ rows = <<>>
    /\ coords = <<>>
    /\ other = 0
    /\ checkedDoc = 0

-----------------------------------------------------------------------------
(* A definition X_Y that precedes X is a mutation of X: a plausible mistake *)
(* at that place.                                                          *)
(*                                                                          *)
(* The document.  An element is [tag, location, suffix, found]: whether the *)
(* attributes are there, and the files it leads to, for a scan everything   *)
(* below the directory in the order of the walk, as [file, hidden, suffixed,*)
(* ignored].                                                                *)

\* An element of another name, or without a location, is skipped.
Usable(e) == e.tag \in {"netcdf", "scan"} /\ e.location

Selected(e) ==
    IF e.tag = "netcdf" THEN e.found
    ELSE SelectSeq(e.found, LAMBDA x : ~x.hidden /\ x.suffixed /\ ~x.ignored)

\* A scan without a suffix is an error, whatever the other elements are.
DocumentAccepted(doc) ==
    /\ doc.joinExisting
    /\ \A e \in ToSet(doc.elements) : (Usable(e) /\ e.tag = "scan") => e.suffix

MemberFiles(doc) ==
    LET found == FlattenSeq([k \in 1..Len(doc.elements) |->
                    IF Usable(doc.elements[k]) THEN Selected(doc.elements[k]) ELSE <<>>])
    IN  [k \in 1..Len(found) |-> found[k].file]

ASSUME DocumentsAssumption ==
    /\ Len(Documents) \in Nat
    /\ \A v \in 1..Len(Documents) : MemberFiles(Documents[v]) \in Seq(Files)

\* let modified = metadata(path)?.modified()?;
StatDocument ==
    /\ stage = "start"
    /\ modified' = docver
    /\ stage' = "document"
    /\ UNCHANGED <<diskVars, index, listing, members, order, describedVars, cacheVars,
                   requestVars>>

\* read_to_string(path)?, the checks of the tags, get_member_files.
ReadDocument ==
    /\ stage = "document"
    /\ IF DocumentAccepted(Documents[docver])
       THEN /\ listing' = MemberFiles(Documents[docver])
            /\ members' = [k \in 1..Len(listing') |->
                              [st |-> "idle", modified |-> 0, opened |-> 0]]
            /\ stage' = "members"
       ELSE stage' = "failed" /\ UNCHANGED <<listing, members>>
    /\ UNCHANGED <<diskVars, index, modified, order, describedVars, cacheVars, requestVars>>

-----------------------------------------------------------------------------
(* The members, opened in parallel.                                         *)

StatMember(k) ==
    /\ stage = "members"
    /\ members[k].st = "idle"
    /\ members' = [members EXCEPT ![k].st = "statted", ![k].modified = ver[listing[k]]]
    /\ UNCHANGED <<diskVars, index, stage, modified, listing, order, describedVars, cacheVars,
                   requestVars>>

\* hdf5::File::open(path)?: n, the rank and the index are read through it.
OpenMember(k) ==
    /\ stage = "members"
    /\ members[k].st = "statted"
    /\ Content[listing[k]][ver[listing[k]]] # <<>>   \* "aggregate dimension is empty"
    /\ members' = [members EXCEPT ![k].st = "opened", ![k].opened = ver[listing[k]]]
    /\ UNCHANGED <<diskVars, index, stage, modified, listing, order, describedVars, cacheVars,
                   requestVars>>

\* if !db.contains_key(&idxkey)?
CheckKey(k) ==
    /\ stage = "members"
    /\ members[k].st = "opened"
    /\ members' = [members EXCEPT ![k].st =
                      IF index[listing[k]] = 0 THEN "indexing" ELSE "loaded"]
    /\ UNCHANGED <<diskVars, index, stage, modified, listing, order, describedVars, cacheVars,
                   requestVars>>

\* index_file(&hf, ..) and db.insert(&idxkey, bts)?
InsertIndex(k) ==
    /\ stage = "members"
    /\ members[k].st = "indexing"
    /\ members' = [members EXCEPT ![k].st = "loaded"]
    /\ index' = [index EXCEPT ![listing[k]] = members[k].opened]
    /\ UNCHANGED <<diskVars, stage, modified, listing, order, describedVars, cacheVars,
                   requestVars>>

\* Any ? on the way: the aggregate is not opened.
OpenFails ==
    /\ stage \in Stages \ {"open", "failed"}
    /\ stage' = "failed"
    /\ UNCHANGED <<diskVars, index, modified, listing, members, order, describedVars, cacheVars,
                   requestVars>>

\* The coordinates of a member as it was opened, its n and its rank.
Opened(k) == Content[listing[k]][members[k].opened]

Rank(k) == Opened(k)[1]

\* partial_cmp, with a rank that is not a number equal to every other.
Before(j, k) == Rank(j) < Rank(k) \/ (Rank(j) = Rank(k) /\ j < k)

\* members.first(), or "no members in aggregate."
HasFirst_Assumed == TRUE

HasFirst == listing # <<>>

\* sort_by is stable.  When a rank is not a number the comparison is no order
\* and the result is unspecified.
SortMembers ==
    LET places == 1..Len(listing)
    IN  /\ stage = "members"
        /\ \A k \in places : members[k].st = "loaded"
        /\ HasFirst
        /\ order' \in {p \in [places -> places] :
              /\ \A i, j \in places : p[i] = p[j] => i = j
              /\ (\A k \in places : Rank(k) # NaN) =>
                    \A i, j \in places : i < j => Before(p[i], p[j])}
        /\ stage' = "sorted"
        /\ UNCHANGED <<diskVars, index, modified, listing, members, describedVars, cacheVars,
                       requestVars>>

-----------------------------------------------------------------------------
(* The rest of open, in the order of the source.                            *)

\* The n of the members p[1], p[2], .., and the rows of the first n of them.
Lengths(p) == [i \in 1..Len(p) |-> Len(Opened(p[i]))]

Offset(p, n) == SumTo(Lengths(p), n)

\* The extent of the aggregation dimension in the DDS: NcmlDdsBuilder.n.
Total == Offset(order, Len(order))

\* The first member is opened again, by its path, for the DAS, and once more
\* for the DDS.
BuildDas ==
    /\ stage = "sorted"
    /\ attributes' = ver[listing[order[1]]]
    /\ stage' = "attributes"
    /\ UNCHANGED <<diskVars, index, modified, listing, members, order, described, cacheVars,
                   requestVars>>

BuildDds ==
    /\ stage = "attributes"
    /\ described' = ver[listing[order[1]]]
    /\ stage' = "described"
    /\ UNCHANGED <<diskVars, index, modified, listing, members, order, attributes, cacheVars,
                   requestVars>>

\* What the index in the database says of the coordinates of a member, and what
\* is read by it from the file that has the path by now: as many values as the
\* index says, whichever version it is of.
IndexOf(k) == index[listing[k]]

Indexed(k) == Content[listing[k]][IndexOf(k)]

CoordinatesOf_NoIndex(k) == Content[listing[k]][ver[listing[k]]]

CoordinatesOf(k) ==
    IF ver[listing[k]] = IndexOf(k) THEN Indexed(k)
    ELSE [i \in 1..Len(Indexed(k)) |-> Garbage]

NextToRead_AsListed == read + 1

NextToRead == order[read + 1]

\* CoordinateVariable::from, one member.
ReadCoordinates ==
    /\ stage = "described"
    /\ read < Len(order)
    /\ cache' = cache \o CoordinatesOf(NextToRead)
    /\ read' = read + 1
    /\ UNCHANGED <<diskVars, index, stage, modified, listing, members, order, describedVars,
                   requestVars>>

Open ==
    /\ stage = "described"
    /\ read = Len(order)
    /\ stage' = "open"
    /\ UNCHANGED <<diskVars, index, modified, listing, members, order, describedVars, cacheVars,
                   requestVars>>

-----------------------------------------------------------------------------
(* A request for a variable with an aggregated and a further dimension: the *)
(* response is the variable, the coordinates of the aggregation dimension   *)
(* and those of the other dimension, each through variable_xdr.             *)

\* if self.modified != metadata(&self.path)?.modified()?
DocumentUnchanged_Skipped == TRUE

DocumentUnchanged == docver = modified

MemberUnchanged_Skipped(k) == TRUE

MemberUnchanged(k) == ver[listing[k]] = members[k].modified

\* A slab that Dds::dds accepts.
Request(f, n) ==
    /\ stage = "open"
    /\ status = "none"
    /\ f < Total /\ f + n <= Total
    /\ DocumentUnchanged
    /\ first' = f /\ count' = n
    /\ status' = "data"
    /\ checkedDoc' = docver
    /\ UNCHANGED <<diskVars, openVars, reader, rows, coords, other>>

\* The member that holds row i of the aggregate, as its place in the order.
MemberAt(i) ==
    CHOOSE n \in 1..Len(order) : Offset(order, n - 1) <= i /\ i < Offset(order, n)

NextRow == first + Len(rows)

RowsRemain == status = "data" /\ Len(rows) < count

\* The member that is to be read: that of the next row, or the first one.
Wanted == IF status = "data" THEN order[MemberAt(NextRow)] ELSE order[1]

\* NcmlMember::stream_xdr looks at the file twice, by its path: for its time,
\* and when the streamer opens it.  The index it gets in between is the one that
\* the coordinates were read by: nothing is inserted once the server serves.
CheckMember ==
    /\ RowsRemain \/ status = "other"
    /\ reader.place # Wanted
    /\ MemberUnchanged(Wanted)
    /\ reader' = [place |-> Wanted, version |-> 0]
    /\ UNCHANGED <<diskVars, openVars, status, first, count, rows, coords, other, checkedDoc>>

OpenStreamer ==
    /\ RowsRemain \/ status = "other"
    /\ reader.place # 0 /\ reader.version = 0
    /\ reader' = [reader EXCEPT !.version = ver[listing[reader.place]]]
    /\ UNCHANGED <<diskVars, openVars, status, first, count, rows, coords, other, checkedDoc>>

\* One row; those of a piece come from the same open file.
SendRow ==
    LET n == MemberAt(NextRow)
        row == [place |-> order[n], version |-> reader.version,
                row |-> NextRow - Offset(order, n - 1) + 1]
    IN  /\ RowsRemain
        /\ reader.place = order[n] /\ reader.version # 0
        /\ rows' = Append(rows, row)
        /\ UNCHANGED <<diskVars, openVars, status, first, count, reader, coords, other,
                       checkedDoc>>

\* self.coordinates.stream_xdr(..): the slice of the cache, no file is read.
SendCoordinates ==
    /\ status = "data"
    /\ Len(rows) = count
    /\ DocumentUnchanged
    /\ checkedDoc' = docver
    /\ IF first + count <= Len(cache)
       THEN coords' = SubSeq(cache, first + 1, first + count) /\ status' = "map"
       ELSE status' = "out of range" /\ UNCHANGED coords
    /\ reader' = NoReader
    /\ UNCHANGED <<diskVars, openVars, first, count, rows, other>>

\* A variable whose first dimension is not the aggregated one is read from the
\* first member.
AskOther ==
    /\ status = "map"
    /\ DocumentUnchanged
    /\ checkedDoc' = docver
    /\ status' = "other"
    /\ UNCHANGED <<diskVars, openVars, first, count, reader, rows, coords, other>>

SendOther ==
    /\ status = "other"
    /\ reader.version # 0
    /\ other' = reader.version
    /\ status' = "served"
    /\ UNCHANGED <<diskVars, openVars, first, count, reader, rows, coords, checkedDoc>>

\* A check or a read fails and the response breaks off.
Break ==
    /\ status \in {"data", "map", "other"}
    /\ status' = "broken"
    /\ UNCHANGED <<diskVars, openVars, first, count, reader, rows, coords, other, checkedDoc>>

-----------------------------------------------------------------------------
ReplaceFile(f) ==
    /\ ver[f] < Len(Content[f])
    /\ ver' = [ver EXCEPT ![f] = @ + 1]
    /\ UNCHANGED <<docver, openVars, requestVars>>

ReplaceDocument ==
    /\ docver < Len(Documents)
    /\ docver' = docver + 1
    /\ UNCHANGED <<ver, openVars, requestVars>>

Opening ==
    \/ StatDocument
    \/ ReadDocument
    \/ \E k \in 1..Len(listing) :
          StatMember(k) \/ OpenMember(k) \/ CheckKey(k) \/ InsertIndex(k)
    \/ OpenFails
    \/ SortMembers
    \/ BuildDas
    \/ BuildDds
    \/ ReadCoordinates
    \/ Open

Serving ==
    \/ \E f, n \in 0..Total : Request(f, n)
    \/ CheckMember
    \/ OpenStreamer
    \/ SendRow
    \/ SendCoordinates
    \/ AskOther
    \/ SendOther
    \/ Break

Next ==
    \/ Opening
    \/ Serving
    \/ ReplaceDocument
    \/ \E f \in Files : ReplaceFile(f)

Spec == Init /\ [][Next]_vars

-----------------------------------------------------------------------------
(* Properties.                                                              *)

Members == [st : {"idle", "statted", "opened", "indexing", "loaded"},
            modified : Nat, opened : Nat]

\* The DDS is to be built, or has been.
Sorted == {"sorted", "attributes", "described", "open"}

\* An aggregate that is past the sort has a first member, the one every index
\* [0] of the source is about (ncml/mod.rs:102-122, :268).
TypeOK ==
    /\ ver \in [Files -> Nat \ {0}]
    /\ docver \in 1..Len(Documents)
    /\ index \in [Files -> Nat]
    /\ stage \in Stages
    /\ modified \in 0..Len(Documents)
    /\ listing \in Seq(Files)
    /\ Len(members) = Len(listing)
    /\ \A k \in 1..Len(members) : members[k] \in Members
    /\ stage \in Sorted => order # <<>> /\ ToSet(order) = 1..Len(listing)
    /\ read \in 0..Len(order)
    /\ status \in {"none", "data", "map", "other", "served", "broken", "out of range"}
    /\ first \in Nat /\ count \in Nat
    /\ reader \in [place : 0..Len(listing), version : Nat]

\* The index under the path of each member is of a version as long as the one
\* the member was opened with.  This is so when no other opening of the file left
\* its index first; when one did, it is all that is needed.
IndexesFit ==
    \A k \in 1..Len(listing) : Len(Indexed(k)) = Len(Opened(k))

\* Next to every data row that a response delivers, it delivers the coordinate
\* of that row, of the very version of the file that the row was read from, if
\* the row was read by an index of that version.  The two take different ways: the
\* row goes through the offsets of the sorted members and a check of the file, the
\* coordinate comes from a cache that was filled after the members were opened
\* and is never checked again (ncml/mod.rs:91-122, :256-322).  (A file replaced
\* between its check and its open is read by the index of another version.)
RowHasItsCoordinate ==
    status \in {"map", "other", "served"} /\ IndexesFit =>
        /\ Len(coords) = Len(rows)
        /\ \A j \in 1..Len(rows) :
              rows[j].version = IndexOf(rows[j].place) =>
                coords[j] = Content[listing[rows[j].place]][rows[j].version][rows[j].row]

\* The cache holds exactly as many coordinates as the DDS announces rows, even
\* when a member is replaced by one of another length before its coordinates
\* are read, so that "slab out of range" (ncml/mod.rs:399) is never the answer to a
\* slab that the DDS accepted: as long as the indexes fit.
CacheCoversDds ==
    stage = "open" /\ IndexesFit => Len(cache) = Total /\ status # "out of range"

\* The cache of a test document has a coordinate for each row of its members
\* (ncml/mod.rs:417): the same, whatever other opening of a file left its
\* index in the database first.
CoordinateForEveryRow == stage = "open" => Len(cache) = Total

\* Once the first member has passed the check for a variable outside the
\* aggregation, DAS and DDS were built from one version of it, although it was
\* opened for each of them and for n before (ncml/mod.rs:91-116); the rows it
\* delivered earlier in the response, each after a check of its own, turn out to be
\* of that version too; and what is served now is of that version or of one that
\* took its place after the check (member.rs:69, :85), never of an earlier one.
OtherIsDescribed ==
    status = "served" =>
        /\ attributes = described
        /\ \A j \in 1..Len(rows) :
              rows[j].place = order[1] => rows[j].version = described
        /\ other >= described

\* The document that passes the check is the one the members were taken from
\* (ncml/mod.rs:58-62, :241).
DocumentInForce ==
    checkedDoc # 0 => listing = MemberFiles(Documents[checkedDoc])

\* "No handling of overlapping coordinate variable is done, it is concatenated in
\* order listed" (ncml/mod.rs:33): as far as no member was replaced meanwhile, the
\* coordinates are those of the members in the order of the document.
ConcatenatedInOrderListed ==
    stage = "open" /\ Garbage \notin ToSet(cache) /\ IndexesFit =>
        cache = FlattenSeq([k \in 1..Len(listing) |-> Opened(k)])

-----------------------------------------------------------------------------
(* The inductive invariant of the opening, which DocumentInForce rests on.  *)

StateTypes ==
    /\ ver \in [Files -> Nat]
    /\ docver \in 1..Len(Documents)
    /\ index \in [Files -> Nat]
    /\ stage \in Stages
    /\ modified \in Nat
    /\ listing \in Seq(Files)
    /\ members \in [1..Len(listing) -> Members]

\* The time of the document is taken before it is read: if it is still that of
\* the document on disk, then so was the document that was read.
DocumentKept ==
    /\ modified <= docver
    /\ stage \in {"members"} \cup Sorted /\ modified = docver =>
          listing = MemberFiles(Documents[docver])
    /\ status # "none" \/ checkedDoc # 0 => stage = "open"
    /\ DocumentInForce

\* The version a member was opened with, and the one indexed under its path, are
\* versions that the file has had; and a member that is open has an index.
VersionsKept ==
    /\ \A f \in Files : ver[f] \in 1..Len(Content[f]) /\ index[f] <= ver[f]
    /\ \A k \in 1..Len(listing) :
          /\ members[k].st \in {"opened", "indexing", "loaded"} =>
                /\ members[k].opened \in 1..ver[listing[k]]
                /\ members[k].modified <= members[k].opened
                /\ Opened(k) # <<>>
          /\ members[k].st = "loaded" => IndexOf(k) # 0

\* Past the sort the order is one of all members, which are all open.
OrderKept ==
    /\ stage \in {"start", "document", "members"} => order = <<>>
    /\ order \in Seq(1..Len(listing))
    /\ stage \in Sorted =>
          /\ listing # <<>> /\ Len(order) = Len(listing)
          /\ \A i, j \in 1..Len(order) : order[i] = order[j] => i = j
          /\ \A k \in 1..Len(listing) : members[k].st = "loaded"

\* What was read of a file after the time of the k-th member was taken.
Since(k, v) == members[k].modified <= v /\ v <= ver[listing[k]]

\* The time of a member is taken before it is opened, and the first member is
\* described after that, first in the DAS.
MembersInOrder ==
    /\ attributes \in Nat /\ described \in Nat
    /\ \A k \in 1..Len(listing) : members[k].st # "idle" => Since(k, ver[listing[k]])
    /\ stage \in Sorted \ {"sorted"} => Since(order[1], attributes)
    /\ stage \in {"described", "open"} =>
          Since(order[1], described) /\ attributes <= described

OpenInv == StateTypes /\ DocumentKept /\ VersionsKept /\ OrderKept /\ MembersInOrder

-----------------------------------------------------------------------------
(* The inductive invariant behind CacheCoversDds, RowHasItsCoordinate and   *)
(* OtherIsDescribed.                                                        *)

\* The coordinates of the n-th member in order lie where its rows do.
Faithful(n) ==
    \A i \in 1..Len(Opened(order[n])) :
        cache[Offset(order, n - 1) + i] = Opened(order[n])[i]

\* They were read by an index of another version, or from another version, and
\* the file has been one ever since.
Spoilt(n) ==
    \/ IndexOf(order[n]) # members[order[n]].opened
    \/ ver[listing[order[n]]] > members[order[n]].opened

CacheKept ==
    /\ cache \in Seq(Nat \cup {NaN, Garbage})
    /\ read \in 0..Len(order)
    /\ stage \in Stages \ {"described", "open", "failed"} => read = 0 /\ cache = <<>>
    /\ stage \in {"described", "open"} /\ IndexesFit =>
          /\ Len(cache) = Offset(order, read)
          /\ \A n \in 1..read : Faithful(n) \/ Spoilt(n)
    /\ stage = "open" => read = Len(order)

\* The n-th member in order has passed a check: its file was found to be of the time
\* that was taken before it was opened, so that it was of that version in between
\* too, when its coordinates were read.
Vouched(n) ==
    /\ members[order[n]].modified = members[order[n]].opened
    /\ IndexOf(order[n]) <= members[order[n]].opened
    /\ IndexOf(order[n]) = members[order[n]].opened /\ IndexesFit => Faithful(n)

\* A row that was delivered belongs to a member that has passed one, and lies
\* in it where the offsets say.
RowKept(j) ==
    \E n \in 1..Len(order) :
        /\ Vouched(n)
        /\ Offset(order, n - 1) < first + j /\ first + j <= Offset(order, n)
        /\ rows[j].place = order[n]
        /\ rows[j].version >= members[order[n]].opened
        /\ rows[j].row = (first + j) - Offset(order, n - 1)

\* The slab lies in the aggregate; a reader has passed a check, and so have the
\* rows it delivered.
ResponseKept ==
    /\ status # "none" => first + count <= Total
    /\ status \in {"none", "data", "map", "other", "served", "broken", "out of range"}
    /\ status = "out of range" => ~IndexesFit
    /\ first \in Nat /\ count \in Nat
    /\ reader.place # 0 => \E n \in 1..Len(order) : order[n] = reader.place /\ Vouched(n)
    /\ rows \in Seq([place : Nat, version : Nat, row : Nat]) /\ Len(rows) <= count
    /\ \A j \in 1..Len(rows) : RowKept(j)
    /\ status \in {"map", "other", "served"} =>
          /\ Len(rows) = count
          /\ coords = SubSeq(cache, first + 1, first + count)
          /\ first + count <= Len(cache)

\* What a response reads of a member it reads after a check; and a check of the
\* first member that succeeds leaves one version for all that was read of it.
ReadInOrder ==
    /\ reader \in [place : 0..Len(listing), version : Nat]
    /\ reader.version # 0 => reader.place # 0 /\ Since(reader.place, reader.version)
    /\ status = "none" => reader = NoReader /\ rows = <<>>
    /\ status = "map" => reader = NoReader
    /\ \A j \in 1..Len(rows) :
          rows[j].place \in 1..Len(listing) /\ Since(rows[j].place, rows[j].version)
    /\ status = "other" /\ reader.place # 0 =>
          /\ reader.place = order[1]
          /\ members[order[1]].modified = described /\ attributes = described
          /\ \A j \in 1..Len(rows) :
                rows[j].place = order[1] => rows[j].version = described
    /\ OtherIsDescribed

ServeInv == OpenInv /\ CacheKept /\ ResponseKept /\ ReadInOrder
=============================================================================
