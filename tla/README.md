# A TLA+ model of DARS

DARS serves HDF5/NetCDF4 files and NcML aggregates of them over the DAP2 protocol.
This directory holds TLA+ modules of its core, TLC configurations that check them on
small instances, and TLAPS proofs of what can be proved for every instance.

    tlc -workers 2 -config Dods.cfg MCDods.tla       # one run
    tlapm ServerProofs.tla                           # the proofs of one module

`PROJECT.json` lists the runs with their properties, the mutation that each property
notices, the source lines behind every definition, the hazards and the findings.

## 1. The system

| part | source | state | operations |
|---|---|---|---|
| scan of the data directory | `dars/src/data/dataset.rs`, `main.rs` | the map `datasets` | walk, open each file, leave out what fails, then listen |
| HDF5 dataset | `dars/src/hdf5/mod.rs` | path, index key, DAS, DDS, modification time | `open`, `variable_xdr`, `raw` |
| NcML dataset | `dars/src/ncml/mod.rs`, `dds.rs` | members, dimension, DDS, cached coordinates, modification time of the document | `open`, `variable_xdr` in three branches |
| NcML member | `dars/src/ncml/member.rs` | path, key, modification time, `n`, `rank` | `open`, `stream_xdr` |
| chunk index | sled, used in `hdf5/mod.rs`, `member.rs` | key to serialized index, on disk | `contains_key`, `insert`, `get` |
| constraint parser | `dap2/src/constraint.rs`, `hyperslab.rs` | none | `parse`, `parse_hyperslab`, `count_slab` |
| DDS | `dap2/src/dds.rs` | variables, their order | `From<ToDds>`, `all`, `dds` |
| file metadata | `dars/src/hdf5/das.rs`, `dds.rs`, `ncml/dds.rs`, `dap2/src/das.rs` | none | the walks over a file for the DAS and for the DDS |
| DODS response | `dap2/src/dods/mod.rs`, `dars/src/data/handlers.rs` | position in the body | `dods` |
| raw download | `hdf5/mod.rs`, `handlers.rs` | none | length, open, stream |
| routes | `dars/src/data/filters.rs`, `main.rs` | none | suffix routing, lookup, constraint filter, rejections |
| catalog | `dars-catalog` | none | front page, folder pages, JSON list |
| configuration | `dars/src/config.rs` | none | arguments, files, defaults |
| XDR conversion | `dap2/src/dods/xdr.rs` | none | conversion of buffers |

How they interact.  At start the scan opens every dataset in turn; the members of an
aggregate are opened by parallel threads.  Each open takes the modification time, opens
the file, reads the metadata and puts a chunk index into the shared database unless one
is there.  After the scan everything in memory is read-only.  A request goes through the
constraint filter to `Dds::dds`, which validates the slabs; `Dods::dods` computes the
length, then asks `variable_xdr` for one part after the other.  `variable_xdr` compares
modification times, gets the index from the database and opens the file again by its
path.  So the actors that really interleave are: the member threads among each other, the
concurrent streams, whatever replaces files on disk, sled's background flush, and
the process being stopped.

The catalog and the routes share one chain of filters: a filter that rejects passes the
request on to the next, and the links that a page shows come back as requests.

What is hard: pairing a file with metadata, cache and index that were read at different
moments; a database that outlives the process; cutting slabs at member boundaries;
announcing a length before reading; a response made of parts that are each checked on
their own; a chain of filters in which an earlier one may take what is meant for a later
one; two walks over a file that have to agree; and unsigned arithmetic on numbers from a
query.

## 2. Modules

| module | models | checked by |
|---|---|---|
| `SlabStream` | the contract of `variable_xdr` along the outermost dimension | the abstract side of `AggregateStream` |
| `AggregateStream` | the loop of the aggregated branch, `ncml/mod.rs:277-322` | `AggregateStream.cfg`, `AggregateStreamProofs` |
| `IndexedSource` | scan, open, index, publish, check, stream, replacement, flush, restart | `Server.cfg` (through `Server`), `IndexedSourceStale.cfg`, `ServerProofs` |
| `Server` (extends `IndexedSource`) | whole responses and raw downloads of several clients | `Server.cfg`, `ServerRaw.cfg`, `ServerProofs` |
| `NcmlDataset` | an aggregate from document to served rows | `NcmlDataset.cfg`, `NcmlDatasetShared.cfg`, `NcmlDatasetOrder.cfg`, `NcmlDatasetProofs` |
| `Sums` | operators: sums and products over the beginning of a sequence | `SumsProofs` |
| `Constraint` | parser and constraint filter | `Constraint.cfg`, `ConstraintProofs` |
| `Hdf5Metadata` | a file to its DAS and DDS, also as the first member of an aggregate | `Hdf5Metadata.cfg`, `Hdf5MetadataProofs` |
| `Dds` | operators: variables, slabs, grids, sizes, order | through `Dods`, `DodsProofs` |
| `HttpBody` | the contract of a body with a Content-Length | the abstract side of `Dods` |
| `Dods` (extends `Dds`) | length computation and body | `Dods.cfg`, `DodsProofs` |
| `DataDir` | operators: data directory, walk, keys | through `Site`, `SiteProofs` |
| `Catalog` (extends `DataDir`) | operators: folders, datasets and links of a page | through `Site`, `SiteProofs` |
| `Site` (extends `Catalog`) | the chain of filters and a visitor | `Site.cfg`, `SiteEscaped.cfg`, `SiteProofs` |

`MC...` modules give the constants of the runs.

A definition `X_Y` in front of a definition `X` is a mutation of `X`: a plausible mistake
at that place.  Replacing `X` by it makes a property of some run fail, which shows that the
property is about the code and not about the shape of the model.  No specification uses
these definitions.

How the models fit together.  `Constraint` produces the items that `Dds` resolves;
the parts that `Dds` accepts (`SlabsInRange`) are the slabs that `AggregateStream` and
`NcmlDataset` start from; `AggregateStream` implements `SlabStream`, which is
what `Dods` assumes of a part: bytes of the slab in chunks of any size, or an error.
`Hdf5Metadata` yields the variables that `Dds` starts from, and `GridsAreConsistent` is
what `Dds` takes for granted of them.  `Site` decides which dataset and which handler a path
leads to; what the handler sends is `Dods`, of a dataset whose sources are those of
`Server`.  `Server` is `IndexedSource` with clients: every part of a response goes through
`Check`, `FetchIndex`, `OpenStreamer` of that module.
`NcmlDataset` delivers rows one by one, as `SlabStream` allows; it opens and indexes members
and checks and opens their streams by the steps of `IndexedSource`, of which it leaves out what
happens to the database over flushes and restarts: an index that an earlier opening left is
there from the beginning.

### AggregateStream
State: the slab (`first`, `count`), the loop variables (`m`, `member_start`), the piece
being drained (`slab`) and the history of what left.  One action per arm of the loop, with
failure of the member's open (`OpenPieceFails`) and of its stream (`ChunkFails`).  Only the
outermost dimension is there: the others are passed on unchanged.

### IndexedSource
A *source* is one file opened by one dataset.  `Stat`, `OpenFile`, `CheckKey`,
`InsertIndex` are the four moments of `Hdf5Dataset::open` and `NcmlMember::open` at which
the outside world is looked at or changed; each interleaves with the opening of the other
members.  `Check`, `FetchIndex`, `OpenStreamer` are those of the streams.
`BeginDataset`, `PublishDataset`, `DropDataset`, `Serve` are the scan.  `DescribePanics` is the
panic on a dimension without a scale (`hdf5/dds.rs:87`): it ends the scan and the process, in the
phase "stopped", which only a restart leaves.  `Replace`, `Remove`, `Flush`, `Restart` are the
surroundings.

Assumptions: a file's content is its version and every replacement changes the
modification time (a clock too coarse breaks this, and with it `CheckedIsDescribed`);
files are replaced as a whole, so that an open handle keeps its version; sled returns
after a restart any mixture of flushed and unflushed inserts.

### NcmlDataset
`StatDocument`, `ReadDocument` (with `get_member_files`), `StatMember`, `OpenMember`, `CheckKey`,
`InsertIndex`, `SortMembers`, `BuildDas`, `BuildDds`, `ReadCoordinates` (one member at a time),
`Open`: the statements of `NcmlDataset::open` that look at the disk or at the database.  The index is
kept under the path of a file (`index[f]`), and members of one path share it: one that finds an
index there, of an earlier opening or of the other member, keeps it, although it read its own number
of rows from the file (`member.rs:32`, `:41`).  `CoordinatesOf` is what the coordinates then are: as
many values as the index says, and `Garbage` if the file is of another version than the index.
`Request`, `CheckMember`, `OpenStreamer`, `SendRow`, `SendCoordinates`, `AskOther`, `SendOther`: the
response for a gridded variable, which takes the three branches of `variable_xdr`.  A member is
checked by its path and then opened by its path (`member.rs:69`, `:85`), and may be replaced in
between; all rows of one piece come from the file so opened.  With a rank that is not a number
`sort_by` has no order to follow, and any permutation may result.

### Constraint
Queries are token sequences; `find`, `split` and `strip_prefix` are operators on them.
`Is...` says what is accepted and `...Of` what it means.  The reference is `Render`, which
writes a constraint down.  A query whose percent-encoding is no UTF-8, or that is missing
(`NoText`), takes the way of one that does not parse: the empty constraint.  `Written` are the constraints of clients; `WrittenAssumption` says of
them what a query can express at all (`Writable`): the outer name ends at the first dot, the name
at the first bracket and an item at a comma, and a slab has slices of one to three numerals.

### Dds and Dods
Variables are records; names are numbers so that the order of the map is their order.
`usize` is `0 .. Word - 1` with wrap-around, as in a release build.  `Dods` sends the body
piece by piece and counts bytes; the bytes of an element are those hidefix streams
(`StreamedSize`), independent of `XdrSize`, by which the length is computed.
`KeepsToTheHttpContract` maps it to `HttpBody`: the announced length is sent or the body
breaks off where the client sees it, and it comes to an end.

### Server
A *plan* is the list of sources that a response opens, one per variable, map and member.
`Ask`, `CheckPart`, `FetchPart`, `OpenPart`, `FinishPart`, `BreakPart`, `FinishResponse` are
`dods` from part to part; `RawLength`, `RawOpen`, `RawDone` the two looks of `raw` at its
file and its body.  A restart breaks all connections.

### Site
Paths are sequences of names, names sequences of the parts between dots, so that suffixes
and extensions are last parts.  `Init` takes any build (with the catalog or without), any
command line and any order of the map.  `Visit` takes the next request; then one action per
filter answers or falls through.  `Preferred` is warp's choice among rejections: any other to
404, otherwise the greater status.  The
visitor makes a list of typed requests and follows every link of every page.
It is assumed that there is nothing below a file and no name is empty (`DiskAssumption`), that
the alphabet by which names are ordered has all names of the datasets (`NamesAssumption`), and
that no folder is named like the URL of a dataset next to it (`UrlsAssumption`): a folder `a.nc.das/` takes the
URL over.  RAW of an NcML dataset is 404, although the
page shows the button.

### Hdf5Metadata
One action per member of the root group and walk.  A file whose attributes cannot be listed
(`Unreadable`) has no container of global ones.  A member is a data set or not, has storage
or not, a type, a shape, the scales of its dimensions and its attributes.  What a type
becomes is decided by two tables, `AttrType` and `VarType`.  Assumed of the files
(`FilesAssumption`): a labelled variable has a label for every dimension, and a coordinate
variable has the extent of its dimension, and a fill value has the type of its variable, as in
every netCDF file; of an aggregate
(`BuildersAssumption`): its dimension is the outermost one.

## 3. Runs

| run | instance | shows |
|---|---|---|
| `aggregate_stream` | 4 members of 2, 1, 3, 1 rows, every slab | the contract, no needless open, the inductive invariant |
| `indexed_source_stale` | one file, one restart | *finding*: stale index |
| `server` | one file as a dataset and as two members, opened in parallel, under one key; 1 client with responses of 2 and 3 parts and raw downloads; 1 replacement, 1 restart | of `IndexedSource`: index always there, metadata and index of the checked version, complete publishing, the scan ends, serving or stopped by a panic; of `Server`: the parts of a response agree, every request ends |
| `server_raw` | the HDF5 dataset alone, without a restart | *finding*: raw length of another file |
| `ncml_dataset` | 3 files of up to 2 versions, each indexed before or not; 6 documents (listed, scanned, unusable, without a number, twice the same, empty) | rows and coordinates aligned and the cache covers the DDS as far as the indexes fit, DAS, DDS and first member agree, the document in force |
| `ncml_dataset_index` | the same | *finding*: coordinates read by an older index |
| `ncml_dataset_order` | the same | *finding*: sorted, not in order listed |
| `constraint` | all queries of up to 5 tokens; renderings of one and two items with slabs of up to 2 dimensions | what is accepted means what it says, and what was written is understood |
| `dods` | 6 variables of all kinds; every variable with some 30 slabs, structure members, pairs | ranges, prefixes, extents, order, the HTTP contract |
| `hdf5_metadata` | 21 files, as themselves and as first members | DAS and DDS agree, fill values have the type of their variable, grids fit |
| `site` | both builds, 4 command lines, every order of up to 5 keys; 14 typed requests and all links | every URL answered by its filter, pages complete and without doubles, all datasets reached |
| `site_escaped` | two datasets, one with a space in its name | *finding*: never found |

Why the bounds are enough.  The loop of `AggregateStream` compares the slab with one
member at a time; four members give a first, a middle, a last and an untouched one, with a
one-row member among them, and all slabs are enumerated; the theorems lift the bound.  In
`Server` two sources of a dataset and one of another on the same file cover every
pair that can share a key or a file.  One replacement comes before or after any step; a file
that was replaced never passes a check again, so that a second one adds no new answer, and
with 3 versions (2,167,612 states instead of 383,151) nothing else is found.  Clients share nothing but
what they read, and the theorems are for any number of clients, files, parts, replacements and restarts.  In `Site` there are datasets
on three levels, and folders with one and with several entries, in every order.  In
`NcmlDataset` two versions of a file allow a replacement at each step, between the check and the
open of a streamer too, and the versions differ in length, so that an index of the other one is
too long or too short; one document names a file twice.  `Hdf5Metadata` has each type of variable once, and each kind of member
that one walk might treat differently from the other; the proofs are for all files.  In
`Dods` the slices have every relation to extents of 2 and 3, reversed and wrapping ones
included.

`CHECK_DEADLOCK FALSE` is set where a finished request, or a server that nobody asks
anything, is the end of the behaviour.

Fairness.  `Dods` and `Server`: weak fairness of the steps of each body, since `Dods::dods` polls
the streams until they end (`dods/mod.rs:96`); it is assumed that the client keeps reading.  In
`Server` it is enough that a part whose file is gone or changed can always break; nothing is assumed
of files, flushes or restarts.  The scan has weak fairness too: it runs in the main task before
anything else (`main.rs:33`) and waits for nobody.  That it ends is to say that the server serves, or that a
panic has stopped it.  The other specifications have no fairness and only
safety properties.

## 4. Proofs

`SumsProofs` holds what the other proofs need of numbers and sequences of any length.  The
library's induction theorems take an operator as a parameter, which the provers cannot
instantiate, so induction is stated on sets: `SetInduction` (a set that has 0 and with every
number the next one has all), from well-foundedness of `<`.  From it follow that primitive
recursive functions exist (`PrimitiveRecursion`, `BoundedRecursion`), with them the equations
of sums, products and `FlattenSeq` (`SumEquation`, `ProductEquation`, `Flattened`), that every
number below a sum falls into exactly one of its pieces (`SumsCover`, `SumsApart`), that
flattening lists without doubles and without common members makes no doubles
(`FlattenedOnce`), that counting what is not after an element is a bijection (`Ranks`, by which the sorts of the
program are defined), and the arithmetic of wrapping (`RestIsUnique`, `WrapOnce`).

`AggregateStreamProofs`, for any members and any slab:
`TypeCorrect` proves `[](TypeOK /\ LoopInv)`, `TypesHold` the types alone.  `LoopInv` is
inductive together with `TypeOK`: the running sum is the offset of the member, the rows
delivered between two members are those before `member_start`, and within a member the
position of the piece is the next row.  Without the middle part nothing would relate the three
conditions of the loop to what has left.  `OpensOnlyNeeded` is an action property from the
types alone.  `RefinesContract` proves that every step is a step of `SlabStream` or stutters
under `pos <- first + delivered`.
Assumed: `MembersAssumption` (members are not empty, `member.rs:35-38`, `mod.rs:102`) and
`OffsetAssumption` (Offset holds the prefix sums).

`ServerProofs`, its part on `IndexedSource`, for any sets of files, keys, datasets, sources and
streams:
`TypeCorrect`, then `IndexInvariant` for `IndexInv = Versions /\ Indexed /\ ScanOrder /\
StreamsChecked /\ NoPanic`, by one lemma per part.  The argument: versions only grow, and a
source's time, metadata and index are taken in this order (`Versions`, `Indexed`), so
equality at the check squeezes all of them to one version; the scan publishes only
completed datasets and serves only after it is over (`ScanOrder`), so a stream's index
cannot change under it (`StreamsChecked`).  From it follow `NeverPanics`,
`PublishedWhole`, `DescribedByDds` and `OwnIndex`.
Assumed: `SourcesAssumption`, `BoundsAssumption`.

`ServerProofs`, its part on `Server`, for any number of clients and any plans, on top of that:
`ServerImplementsSource` shows that every step is one of `IndexedSource` or leaves it
alone, so `IndexInv` holds of the composition.  `PartsInvariant` proves `PartsInv`:
a check of a later part proves that the file still was, at that moment, the version that the
source was opened on, hence so was whatever an earlier part of the same file opened before
(`PartsInOrder`).  `ResponseParts` concludes `PartsAgree`: all parts of one file but the last
came from exactly the checked version.  The last part is really excepted: see section 5.
Assumed in addition: `PlansAssumption`.

`NcmlDatasetProofs`, for any files and documents: `OpenInvariant` for `OpenInv =
StateTypes /\ DocumentKept /\ VersionsKept /\ OrderKept /\ MembersInOrder`, which is about the opening
alone.  Times are taken before what they stand for is read, versions only grow, the index under a
path is never of a version still to come, DAS and DDS are built in this order, and past the sort the
order is one of all members.  `DocumentHolds` follows.
`ServeInvariant` adds what is true of the response, `ServeInv = OpenInv /\ CacheKept /\ ResponseKept
/\ ReadInOrder`.  The difficulty is that three versions of a member may be about: the one it was
opened on, the one that the index under its path is of, and the one on disk.  `CacheKept`: the
coordinates of every member read so far lie where its rows do, or they are spoilt: the index is of
another version, or the file has been replaced since it was opened, and neither is ever undone.  A
check that succeeds excludes the latter, and that is kept for the member (`Vouched`): its file was of
the opened version from its time to the check, so that its coordinates are faithful if the index is of that version.
`ResponseKept` says that every row came from a member that is vouched for, at the place at which the
sums of the members' lengths put it, and of the opened version or a later one: the file may be replaced between the
check and the open.  `ReadInOrder` relates what a response read of the first member to DAS and DDS.
From it follow `CacheIsWhole`, `RowsMeetTheirCoordinates`, `FirstMemberIsDescribed` and the types.
The first two are about aggregates whose indexes fit (`IndexesFit`: of the length of the version that
was opened), and finding 4 is what happens without; the second also leaves out rows that were read by an index of another
version, which are no rows of either.  Both need that a place in the aggregate belongs to one member
only, which is what the lemmas about sums are for.
Assumed: `ContentAssumption` (a file that is ever there has a first version, whose coordinates
are numbers or not), `DocumentsAssumption` (members are files).

`ConstraintProofs`, for any names and numerals and queries of any length: `TypeCorrect` (every
slice that reaches the handlers has one to three numbers), `AcceptedMeans` and its converse,
`WrittenUnderstood`.  For the second,
`Render` and the parser are shown to be inverse piece by piece: to split and to join again is the
identity (`SplitJoined`), so a slice, a hyperslab, an item and a query that are accepted are
written as they were read (`SliceWritten`, `HyperslabWritten`, `ItemWritten`, `QueryWritten`).
Only the empty pieces between closing brackets get lost.  That they may is said by a relation, two
texts being the same in every context once brackets are forgiven (`Same`), which unlike
`ForgiveBrackets` itself passes from the parts of a text to the whole (`SameJoined`).  The hypothesis
of `AcceptedMeans` is `OneNumeral`: a constraint has numbers, and does not remember how many
leading zeros they had.
For the converse, each split must find exactly the joints of the rendering: pieces without the
separator, joined by it or closed by it, split into the same pieces (`SplitBack`, `SplitClosed`,
by induction on how many there are), and a `find` stops at the end of what is free of the
separator (`FoundFirst`).  So slices, slabs, items and whole constraints are read as they were
written (`SliceBack`, `SlabBack`, `ItemBack`, `RoundTrip`), from inside out, because what is free of
a separator at one level is what the level below is made of (`SlabTokens`).  No `OneNumeral` here:
any numeral of a number will do.
Assumed: `WrittenAssumption`, and `TokensAssumption` (separators, names and numerals are different tokens, and queries are
made of them).

`Hdf5MetadataProofs`, for any files: `WalkInvariant` says that there is one list of
positions that both walks follow: the first has written it up to where it is, and the second
is at one of its places or between two.  The existential keeps the proof clear of recursion
over the file.  From it follow `DescribedAlike` and, with the assumptions on netCDF files,
`GridsAgree`, `FillValuesFit` (the two tables of types agree on the fill value of every
variable whose type is shown at all) and the types of both walks.

`DodsProofs`, for any variables, any `Word` and any constraints: `BodyInvariant` proves
`BodyInv`, which says that what was sent is the beginning of the body up to the stage of the
current part (`SentSoFar`), with lengths that do not wrap.  That every part of an accepted
response has slabs inside its variable is shown first, from the validation alone
(`SlabsStayInside`); this is the place where the unsigned arithmetic matters.  The other
results have a hypothesis each, and need it:
- `ImplementsHttp` is the whole refinement `Spec => Body!Spec` of the HTTP contract without its
  fairness, under `BodiesFit`: no body is longer than a `usize`, beyond which the length wraps;
- `PrefixAnnouncesLength` under `PrefixesFit`: no part has more elements than a `u32` counts
  (`dods/mod.rs:89` casts without a check);
- `TextDescribesData` under `WellLabelled`: every dimension has a name.  Section 5 says what
  happens without;
- `AnswersAreSorted` under `ListedByName`: the variables of the file come by name, as the map
  of `dds.rs` lists them.
TLC's instance satisfies all four.  Assumed besides: `FileAssumption`, `LengthsAssumption`,
`ConstraintsAssumption`.

`SiteProofs`, for any data directory, build, command line, visitor and order of the map:
`SiteInvariant` proves `SiteInv`.  A request for a dataset has not passed the filter that
answers it (`OnItsWay`), and whatever was answered was answered properly (`Proper`).  That no
other filter takes it over rests on the names alone: a key ends in a supported extension and
no suffix is one, no key lies below another, and a path that no key extends is no page
(`KeysAreNames`, `SuffixedNames`, `NoPage`).  Only a constraint that does not fit leads past
`dods`; then its rejection outweighs that of `raw`.  `DatasetsAnswer` and `TypeCorrect` follow.
`PagesList` proves `PagesListEachOnce`.  Its part of the invariant is that a page was answered
for a request under `/data`, with the links of the folder asked for (`Listing`).  What the page of a
folder shows is then a matter of operators: cutting all keys below the folder yields the names of
its folders, many times and in any order (`RestsAre`, `NamesAre`); to sort puts equal names next
to each other (`SortedIs`, by ranks), and so `dedup`, which compares neighbours, leaves each
once (`DedupIs`, `ListingIs`); and no two links of a page are the same path, because what is below
a dataset is no key and a dataset with a suffix is neither a folder nor a dataset (`NamesApart`,
`LinksAre`).
`VisitReachesAll` proves `AllAvailable`: who starts at the front page and follows every link has,
once nothing is left to ask, met every dataset that no panicking page hides, and was answered under
each of its links.  `SiteInv` looks at one request at a time and says nothing of what comes of the links
of an answer; `VisitInv` (`VisitInvariant`) adds that: the front page and every link ever shown was asked
for, is being asked for or will be (`Met`), no page has passed the filter that shows it, and pages show
the links of their folder (`Shown`).  When the visit is over, what was met was answered
(`AllAnswered`), and an induction down the folders of a key (`WayDown`, `WholeWay`) leads from the
front page to the dataset.  The theorem has a hypothesis, `NothingEscaped`: a browser writes the
names on the way as they are.  TLC evaluates it for the instance of the run `site` (an `ASSUME` of
`MCSite`); finding 2 is what happens without.
Assumed: `PartsAssumption` (suffixes and extensions are names), `DiskAssumption` (nothing is below a
file, and no name is empty), `AlphabetAssumption` and `NamesAssumption` (the alphabet orders
the names of the datasets), `UrlsAssumption` (no folder `a.nc.das/`, see section 5),
`RequestsAssumption`.

Only model-checked:
- liveness: `ScanEnds`, `RequestsEnd`, and of `KeepsToTheHttpContract` that the body
  comes to an end; temporal reasoning under fairness is out of the prover's reach.

So every invariant and every action property of the passing runs is a theorem as well.

## 5. Findings

1. *Stale index* (`indexed_source_stale`).  The index is looked up by path in a database that
   outlives the process, and the check compares with the time of this process.  A file
   replaced while the server is down is read with the chunk offsets of the old one.
2. *Escaped names* (`site_escaped`).  Keys are names on disk, and the path of a request stays
   percent-encoded: a dataset with a space in its name is listed, and 404 under its own link.
3. *Raw length* (`server_raw`).  `raw` takes the length by path and opens the path afterwards:
   replaced in between, the announced length is that of the old file.
4. *Shared index* (`ncml_dataset_index`).  A member whose path is in the database is not indexed,
   whatever version the index is of, but its number of rows is read from the file.  If the file was
   indexed before, by another dataset, an earlier process or a second listing in the same document, and
   replaced since, the cache has more or fewer coordinates than the DDS announces: later coordinates are shifted
   against their rows, or a slab that was accepted is "slab out of range".
5. *Order* (`ncml_dataset_order`).  The members are sorted by their first coordinate, the
   documentation says "concatenated in order listed" (`ncml/mod.rs:33`, `:96`).

Seen while modelling, without a run of their own:

- the check of a part and the open of its streamer are two looks at the path
  (`hdf5/mod.rs:123`, `:141`, `member.rs:69`, `:85`): the last part of a response may be read from a
  file that was replaced in between, with the old index.  Both models have the gap, and `PartsAgree`
  and `OtherIsDescribed` say how far this can go;
- a variable of several dimensions without `DIMENSION_LIST` gets one name (`hdf5/dds.rs:107`), and the
  details pair names with counts as far as both go (`dds.rs:370-375`): the DDS shows the first extent,
  the data section has the product of all.  `DdsDescribesData` fails for a file like that;
- the number of elements is cast to `u32` without a check (`dods/mod.rs:89`);
- byte arrays are not padded (`dds.rs:85`), against the module documentation;
- `count_slab([1, 2, 7])` is 3, the documentation lists 4 values (`hyperslab.rs:6`, `:15`);
  strided slabs are refused before;
- a folder that is named like the URL of a dataset takes that URL over
  (`dars-catalog/src/filters.rs:78`);
- a folder whose name begins with a letter beyond ASCII makes the page above it panic
  (`dars-catalog/src/filters.rs:91`); `AllAvailable` leaves out what lies behind that page;
- only the first data directory is taken, and a trailing slash makes no difference
  (`config.rs:71-77`, `:99`);
- fill values of byte, unsigned and 64 bit variables do not appear in the DAS
  (`hdf5/das.rs:83-100`), and those of floating point are rounded to two digits
  (`dap2/src/das.rs:61`).

## 6. Not modelled, and the plan

Not modelled: the layout of DAS and DDS text and the look of pages (pure formatting; only the
length of the DDS text matters to a property); XDR conversion of buffers (used by no source
here); address, database path and root URL of the configuration (no influence on the rest);
benchmarks; the reading of HDF5 attributes through the C library.

What a further step could take up:

1. Members that differ in type or inner shape: the DDS and the element size of the
   coordinate cache are those of the first member (`ncml/mod.rs:348`), and nothing
   compares the others with it; `NcmlDataset` has members that agree.
2. A clock that is coarser than the replacements (`hdf5/mod.rs:124`): the version and the
   time of a file as two things, and which of the properties of `IndexedSource` remain.
