---------------------------- MODULE IndexedSource ----------------------------
(***************************************************************************)
(* How a data file on disk, its chunk index in the sled database and the   *)
(* metadata kept in memory stay together, from the scan of the data        *)
(* directory at start-up to the streams served from it:                    *)
(*                                                                         *)
(*   Datasets::new_with_datadir   dars/src/data/dataset.rs                 *)
(*   Hdf5Dataset::open            dars/src/hdf5/mod.rs                     *)
(*   Hdf5Dataset::variable_xdr    dars/src/hdf5/mod.rs                     *)
(*   NcmlDataset::open            dars/src/ncml/mod.rs (the members)       *)
(*   NcmlMember::open             dars/src/ncml/member.rs                  *)
(*   NcmlMember::stream_xdr       dars/src/ncml/member.rs                  *)
(*                                                                         *)
(* A source is one opened file: the file of an HDF5 dataset or one member  *)
(* of an NcML aggregate.  The content of a file is its version, which only *)
(* grows; the modification time is identified with the version, that is,   *)
(* every replacement of a file is assumed to change its modification time. *)
(* Files are replaced as a whole (written elsewhere and renamed), so that  *)
(* an open handle keeps the version it was opened on.                      *)
(*                                                                         *)
(* What lies outside the repository is modelled from how it is used: sled  *)
(* (db, disk, Flush, and what a restart recovers) and the file system      *)
(* (data, gone, Replace, Remove).                                          *)
(***************************************************************************)
EXTENDS Naturals, FiniteSets

CONSTANTS
    Files, Keys,   \* paths on disk; keys of the sled database
    Datasets,      \* what the scan of the data directory finds
    Aggregates,    \* those of them that are .ncml files
    Sources,       \* the files they open
    DatasetOf,     \* DatasetOf[s]: the dataset that opens source s
    FileOf,        \* FileOf[s]: the file behind source s
    KeyOf,         \* KeyOf[s]: its idxkey
    Streams,       \* concurrent reads of a variable of one source
    None,
    MaxVersion,    \* bound: how often files are replaced
    MaxRestarts    \* bound: how often the server is restarted

ASSUME SourcesAssumption ==
    /\ Aggregates \subseteq Datasets
    /\ DatasetOf \in [Sources -> Datasets]
    /\ FileOf \in [Sources -> Files]
    /\ KeyOf \in [Sources -> Keys]
    /\ None \notin Datasets \cup Sources

ASSUME BoundsAssumption == MaxVersion \in Nat /\ MaxRestarts \in Nat

VARIABLES
    data,       \* data[f]: version of file f
    gone,       \* the files that do not exist at the moment
    db,         \* db[k]: version the index under k was built from, 0 if none
    disk,       \* the part of db that survives a crash
    writer,     \* history: the source of this process that wrote db[k]
    phase,      \* "scanning", then "serving", or "stopped" by a panic
    opening,    \* the dataset being opened, or None
    tried,      \* the datasets the scan is done with
    published,  \* the keys of the map Datasets.datasets
    st,         \* st[s]: how far the opening of source s is
    modified,   \* modified[s]: the field of that name
    meta,       \* meta[s]: version that dds, das, n and rank were read from
    at,         \* at[r]: how far stream r is
    src,        \* src[r]: the source it reads
    checked,    \* checked[r]: version of the file at its mtime check
    idx,        \* idx[r]: version of the index it fetched
    file,       \* file[r]: version of the file its streamer opened
    restarts    \* restarts so far

fsVars     == <<data, gone>>
dbVars     == <<db, disk, writer>>
scanVars   == <<phase, opening, tried, published>>
sourceVars == <<st, modified, meta>>
streamVars == <<at, src, checked, idx, file>>
vars == <<fsVars, dbVars, scanVars, sourceVars, streamVars, restarts>>

SourceStates == {"idle", "statted", "opened", "indexing", "loaded", "failed"}
StreamStates == {"idle", "checked", "indexed", "reading", "panicked"}

TypeOK ==
    /\ data \in [Files -> Nat]
    /\ gone \subseteq Files
    /\ db \in [Keys -> Nat]
    /\ disk \in [Keys -> Nat]
    /\ writer \in [Keys -> Sources \cup {None}]
    /\ phase \in {"scanning", "serving", "stopped"}
    /\ opening \in Datasets \cup {None}
    /\ tried \subseteq Datasets
    /\ published \subseteq Datasets
    /\ st \in [Sources -> SourceStates]
    /\ modified \in [Sources -> Nat]
    /\ meta \in [Sources -> Nat]
    /\ at \in [Streams -> StreamStates]
    /\ src \in [Streams -> Sources \cup {None}]
    /\ checked \in [Streams -> Nat]
    /\ idx \in [Streams -> Nat]
    /\ file \in [Streams -> Nat]
    /\ restarts \in Nat
    /\ \A r \in Streams : at[r] # "idle" => src[r] \in Sources

\* A first start: the files are there, the database is new.
Init ==
    /\ data = [f \in Files |-> 1]
    /\ gone = {}
    /\ db = [k \in Keys |-> 0]
    /\ disk = [k \in Keys |-> 0]
    /\ writer = [k \in Keys |-> None]
    /\ phase = "scanning"
    /\ opening = None
    /\ tried = {}
    /\ published = {}
    /\ st = [s \in Sources |-> "idle"]
    /\ modified = [s \in Sources |-> 0]
    /\ meta = [s \in Sources |-> 0]
    /\ at = [r \in Streams |-> "idle"]
    /\ src = [r \in Streams |-> None]
    /\ checked = [r \in Streams |-> 0]
    /\ idx = [r \in Streams |-> 0]
    /\ file = [r \in Streams |-> 0]
    /\ restarts = 0

-----------------------------------------------------------------------------
(* A definition X_Y that precedes X is a mutation of X: a plausible mistake  *)
(* at that place, kept to show that the properties would notice it.         *)
(*                                                                          *)
(* The scan (dataset.rs:61-124): one dataset after the other; a dataset that *)
(* cannot be opened is logged and left out.                                 *)

MembersOf(d) == {s \in Sources : DatasetOf[s] = d}

InProgress(s) == st[s] \in {"statted", "opened", "indexing"}

BeginDataset(d) ==
    /\ phase = "scanning"
    /\ opening = None
    /\ d \notin tried
    /\ opening' = d
    /\ UNCHANGED <<fsVars, dbVars, phase, tried, published, sourceVars,
                   streamVars, restarts>>

\* Every source of it is loaded: an aggregate collects the results of all
\* members (ncml/mod.rs:91-94) and refuses to be empty (:102).
Complete_AnyMember(d) ==
    /\ \E s \in MembersOf(d) : st[s] = "loaded"
    /\ \A s \in MembersOf(d) : ~InProgress(s)

Complete(d) == MembersOf(d) # {} /\ \A s \in MembersOf(d) : st[s] = "loaded"

\* Ok(d) => Some((key, ..))
Published_ClearedFirst(d) == published \cup {opening'}

Published(d) == published \cup {d}

PublishDataset(d) ==
    /\ opening = d
    /\ Complete(d)
    /\ opening' = None
    /\ tried' = tried \cup {d}
    /\ published' = Published(d)
    /\ UNCHANGED <<fsVars, dbVars, phase, sourceVars, streamVars, restarts>>

\* The parallel iterator may leave members unopened once one has failed, but
\* waits for those that are being opened.  An aggregate can also fail before
\* its members are opened (the NcML document) and after (their DDS, the
\* coordinate variable).
Unusable_WhenAllFailed(d) == \A s \in MembersOf(d) : st[s] = "failed"

Unusable(d) ==
    /\ \A s \in MembersOf(d) : ~InProgress(s)
    /\ d \in Aggregates \/ \E s \in MembersOf(d) : st[s] = "failed"

\* Err(e) => None
DropDataset(d) ==
    /\ opening = d
    /\ Unusable(d)
    /\ opening' = None
    /\ tried' = tried \cup {d}
    /\ UNCHANGED <<fsVars, dbVars, phase, published, sourceVars, streamVars,
                   restarts>>

\* hdf5_dimensions cuts the first letter off the name of each dimension: without
\* one, at a dimension that has no scale, it panics.  Nothing catches that, and the
\* process ends (hdf5/dds.rs:87, ncml/dds.rs:39, main.rs:34).  The DDS of a file is
\* built when it is opened, that of an aggregate when its members all are, from
\* one of them.
DescribePanics(d) ==
    /\ opening = d
    /\ \E s \in MembersOf(d) :
          /\ FileOf[s] \notin gone
          /\ IF d \in Aggregates THEN Complete(d) ELSE st[s] = "statted"
    /\ phase' = "stopped"
    /\ opening' = None
    /\ st' = [s \in Sources |-> IF InProgress(s) THEN "failed" ELSE st[s]]
    /\ UNCHANGED <<fsVars, dbVars, tried, published, modified, meta, streamVars,
                   restarts>>

\* main.rs:33-50: the server listens once the scan is over.
Serve ==
    /\ phase = "scanning"
    /\ opening = None
    /\ tried = Datasets
    /\ phase' = "serving"
    /\ UNCHANGED <<fsVars, dbVars, opening, tried, published, sourceVars,
                   streamVars, restarts>>

-----------------------------------------------------------------------------
(* Opening one source.  The members of an aggregate are opened in parallel  *)
(* (par_iter), so these steps interleave.                                   *)

SetSource(s, state) == st' = [st EXCEPT ![s] = state]

\* let modified = metadata(path)?.modified()?;
Stat(s) ==
    /\ opening = DatasetOf[s]
    /\ st[s] = "idle"
    /\ IF FileOf[s] \in gone
       THEN SetSource(s, "failed") /\ UNCHANGED modified
       ELSE /\ SetSource(s, "statted")
            /\ modified' = [modified EXCEPT ![s] = data[FileOf[s]]]
    /\ UNCHANGED <<fsVars, dbVars, scanVars, meta, streamVars, restarts>>

\* hdf5::File::open(path)?, and what is read through that handle: the DAS and
\* the DDS of a dataset, n and rank of a member.
OpenFile(s) ==
    /\ st[s] = "statted"
    /\ FileOf[s] \notin gone
    /\ SetSource(s, "opened")
    /\ meta' = [meta EXCEPT ![s] = data[FileOf[s]]]
    /\ UNCHANGED <<fsVars, dbVars, scanVars, modified, streamVars, restarts>>

\* db.contains_key(&idxkey)?
Found_Assumed(s) == TRUE

Found(s) == db[KeyOf[s]] # 0

\* if !db.contains_key(&idxkey)? { .. } else { .. }
CheckKey_StatAgain(s) ==
    /\ st[s] = "opened"
    /\ SetSource(s, IF Found(s) THEN "loaded" ELSE "indexing")
    /\ modified' = [modified EXCEPT ![s] = data[FileOf[s]]]
    /\ UNCHANGED <<fsVars, dbVars, scanVars, meta, streamVars, restarts>>

CheckKey(s) ==
    /\ st[s] = "opened"
    /\ SetSource(s, IF Found(s) THEN "loaded" ELSE "indexing")
    /\ UNCHANGED <<fsVars, dbVars, scanVars, modified, meta, streamVars, restarts>>

\* index_file(&hf, ..), which reads through the handle that is open.
Indexes_ByPath(s) == data[FileOf[s]]

Indexes(s) == meta[s]

\* db.insert(&idxkey, bts)?
InsertIndex(s) ==
    /\ st[s] = "indexing"
    /\ SetSource(s, "loaded")
    /\ db' = [db EXCEPT ![KeyOf[s]] = Indexes(s)]
    /\ writer' = [writer EXCEPT ![KeyOf[s]] = s]
    /\ UNCHANGED <<fsVars, disk, scanVars, modified, meta, streamVars, restarts>>

\* Any of the ?: unreadable file, no aggregate dimension, canonicalize, the
\* database, the indexing.
OpenFails(s) ==
    /\ InProgress(s)
    /\ SetSource(s, "failed")
    /\ UNCHANGED <<fsVars, dbVars, scanVars, modified, meta, streamVars, restarts>>

-----------------------------------------------------------------------------
(* Reading a variable of a source of a published dataset.                   *)

\* The file has the modification time it had when the source was opened; a
\* stream of any other file is refused, which changes nothing.
Check(r, s) ==
    /\ phase = "serving"
    /\ at[r] = "idle"
    /\ DatasetOf[s] \in published
    /\ FileOf[s] \notin gone
    /\ data[FileOf[s]] = modified[s]
    /\ at' = [at EXCEPT ![r] = "checked"]
    /\ src' = [src EXCEPT ![r] = s]
    /\ checked' = [checked EXCEPT ![r] = data[FileOf[s]]]
    /\ UNCHANGED <<fsVars, dbVars, scanVars, sourceVars, idx, file, restarts>>

\* db.get(&self.idxkey)?.unwrap()
FetchIndex(r) ==
    /\ at[r] = "checked"
    /\ idx' = [idx EXCEPT ![r] = db[KeyOf[src[r]]]]
    /\ at' = [at EXCEPT ![r] = IF idx'[r] = 0 THEN "panicked" ELSE "indexed"]
    /\ UNCHANGED <<fsVars, dbVars, scanVars, sourceVars, src, checked, file,
                   restarts>>

\* ds.as_streamer(&self.path): the file is opened by its path, again.
OpenStreamer(r) ==
    /\ at[r] = "indexed"
    /\ FileOf[src[r]] \notin gone
    /\ at' = [at EXCEPT ![r] = "reading"]
    /\ file' = [file EXCEPT ![r] = data[FileOf[src[r]]]]
    /\ UNCHANGED <<fsVars, dbVars, scanVars, sourceVars, src, checked, idx,
                   restarts>>

\* The stream is read to its end, fails, or is dropped by the client.
EndStream(r) ==
    /\ at[r] \in {"checked", "indexed", "reading"}
    /\ at' = [at EXCEPT ![r] = "idle"]
    /\ src' = [src EXCEPT ![r] = None]
    /\ checked' = [checked EXCEPT ![r] = 0]
    /\ idx' = [idx EXCEPT ![r] = 0]
    /\ file' = [file EXCEPT ![r] = 0]
    /\ UNCHANGED <<fsVars, dbVars, scanVars, sourceVars, restarts>>

-----------------------------------------------------------------------------
(* The surroundings.                                                        *)

Replace(f) ==
    /\ data[f] < MaxVersion
    /\ data' = [data EXCEPT ![f] = @ + 1]
    /\ gone' = gone \ {f}
    /\ UNCHANGED <<dbVars, scanVars, sourceVars, streamVars, restarts>>

Remove(f) ==
    /\ f \notin gone
    /\ gone' = gone \cup {f}
    /\ UNCHANGED <<data, dbVars, scanVars, sourceVars, streamVars, restarts>>

\* sled writes to disk in the background.
Flush ==
    /\ disk # db
    /\ disk' = db
    /\ UNCHANGED <<fsVars, db, writer, scanVars, sourceVars, streamVars, restarts>>

\* The process is stopped at any moment and started again: what was in memory
\* is lost, the database comes back with at least what had reached the disk.
Restart ==
    /\ restarts < MaxRestarts
    /\ restarts' = restarts + 1
    /\ \E lost \in SUBSET Keys :
          db' = [k \in Keys |-> IF k \in lost THEN disk[k] ELSE db[k]]
    /\ disk' = db'
    /\ writer' = [k \in Keys |-> None]
    /\ phase' = "scanning"
    /\ opening' = None
    /\ tried' = {}
    /\ published' = {}
    /\ st' = [s \in Sources |-> "idle"]
    /\ modified' = [s \in Sources |-> 0]
    /\ meta' = [s \in Sources |-> 0]
    /\ at' = [r \in Streams |-> "idle"]
    /\ src' = [r \in Streams |-> None]
    /\ checked' = [r \in Streams |-> 0]
    /\ idx' = [r \in Streams |-> 0]
    /\ file' = [r \in Streams |-> 0]
    /\ UNCHANGED fsVars

-----------------------------------------------------------------------------
Scan ==
    \/ \E d \in Datasets :
          BeginDataset(d) \/ PublishDataset(d) \/ DropDataset(d) \/ DescribePanics(d)
    \/ Serve
    \/ \E s \in Sources :
          Stat(s) \/ OpenFile(s) \/ CheckKey(s) \/ InsertIndex(s) \/ OpenFails(s)

Read == \E r \in Streams :
    \/ \E s \in Sources : Check(r, s)
    \/ FetchIndex(r)
    \/ OpenStreamer(r)
    \/ EndStream(r)

Environment ==
    \/ \E f \in Files : Replace(f) \/ Remove(f)
    \/ Flush
    \/ Restart

Next == Scan \/ Read \/ Environment

Spec == Init /\ [][Next]_vars

-----------------------------------------------------------------------------
(* Properties.                                                              *)

Streaming(r) == at[r] \in {"checked", "indexed", "reading"}

\* The unwrap() on the index (hdf5/mod.rs:135, member.rs:78) never panics:
\* however the members of an aggregate race for a key, whatever a crash takes
\* from the database and whichever opens fail half way, a dataset that is
\* served has the index of each of its files in the database.
NoPanic == \A r \in Streams : at[r] # "panicked"

\* A dataset is published with all of its sources or not at all
\* (dataset.rs:99-121, ncml/mod.rs:91-102): no stream ever reaches a member
\* that was not opened to the end.
PublishedIsComplete ==
    \A s \in Sources : DatasetOf[s] \in published =>
        st[s] = "loaded" /\ db[KeyOf[s]] # 0

\* A file that passes the modification time check (hdf5/mod.rs:123-127,
\* member.rs:69-73) is the file that the DDS, and for a member n and rank,
\* were read from, even if it was replaced while it was being opened: the
\* time is taken before the file is opened, so a replacement in between makes
\* every later check fail instead of going unnoticed.
CheckedIsDescribed ==
    \A r \in Streams : Streaming(r) => meta[src[r]] = checked[r]

\* A source whose own index is the one in the database reads with an index of
\* exactly the version that passed the check, even if the file was replaced
\* between any two steps of its opening: the time is the first thing that is
\* taken, so an index of a later version belongs to a source whose every check
\* fails (hdf5/mod.rs:41-58, member.rs:26-47).
OwnIndexDescribesFile ==
    \A r \in Streams :
        at[r] \in {"indexed", "reading"} /\ writer[KeyOf[src[r]]] = src[r] =>
            idx[r] = checked[r]

\* The scan ends, however many datasets fail to open, at whatever step of however
\* many of their members, and whatever happens to the files meanwhile
\* (dataset.rs:101-121): then the server listens, unless describing a dataset was a
\* panic and not an error (hdf5/dds.rs:87), which nothing but a start of the
\* process undoes.
ScanEnds == phase = "scanning" ~> phase \in {"serving", "stopped"}

\* What the check announces, "has changed on disk" (hdf5/mod.rs:125,
\* member.rs:71): a file that is not the one that was indexed is not streamed.
\* It compares with the time at which this process opened the file, while the
\* index may be the one an earlier process, or another dataset, left under
\* the same key.
ChangedFileIsRefused ==
    \A r \in Streams :
        at[r] = "reading" /\ file[r] = checked[r] => idx[r] = file[r]

-----------------------------------------------------------------------------
(* The inductive invariant behind them, by parts.                           *)

\* Versions in memory lie between the time of the stat and now.
Versions ==
    /\ \A f \in Files : 1 <= data[f]
    /\ \A s \in Sources :
          /\ st[s] \in {"statted", "opened", "indexing", "loaded"} =>
                1 <= modified[s] /\ modified[s] <= data[FileOf[s]]
          /\ st[s] \in {"opened", "indexing", "loaded"} =>
                modified[s] <= meta[s] /\ meta[s] <= data[FileOf[s]]

\* An opened source has an index under its key, and one it wrote itself is
\* the index of the version it describes.
Indexed ==
    \A s \in Sources :
        /\ st[s] = "loaded" => db[KeyOf[s]] # 0
        /\ writer[KeyOf[s]] = s => st[s] = "loaded" /\ db[KeyOf[s]] = meta[s]

\* Only the dataset that is being opened has sources in between, only datasets
\* that were completed are published, and only while nothing is being opened
\* is anything served.
ScanOrder ==
    /\ \A s \in Sources : InProgress(s) => opening = DatasetOf[s]
    /\ published \subseteq tried
    /\ opening # None => opening \notin tried
    /\ phase # "scanning" => opening = None
    /\ \A s \in Sources : DatasetOf[s] \in published => st[s] = "loaded"

\* A stream belongs to a published dataset and carries the versions that were
\* current at its check.
StreamsChecked ==
    \A r \in Streams :
        /\ at[r] # "idle" =>
              phase = "serving" /\ DatasetOf[src[r]] \in published
        /\ Streaming(r) => checked[r] = modified[src[r]] /\ checked[r] = meta[src[r]]
        /\ at[r] \in {"indexed", "reading"} => idx[r] = db[KeyOf[src[r]]]

IndexInv ==
    /\ Versions
    /\ Indexed
    /\ ScanOrder
    /\ StreamsChecked
    /\ NoPanic
=============================================================================
