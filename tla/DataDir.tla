------------------------------- MODULE DataDir -------------------------------
(***************************************************************************)
(* Which datasets a server has, and under which keys:                      *)
(*                                                                         *)
(*   load_config_with_args (the data directory)   dars/src/config.rs       *)
(*   Datasets::new_with_datadir (the walk)        dars/src/data/dataset.rs *)
(*                                                                         *)
(* A path is a sequence of names, a name the sequence of its parts between *)
(* the dots: data/a.nc is << <<"data">>, <<"a", "nc">> >>.  A trailing     *)
(* slash is an empty last name, and so is a path that is empty as a whole. *)
(***************************************************************************)
EXTENDS Integers, FiniteSets, Sequences, SequencesExt

CONSTANTS
    Parts,         \* what is between the dots of a name: all strings
    Disk,          \* the files: [path, opens], relative to the working directory
    Undecodable    \* names that are not UTF-8

Names == Seq(Parts) \ {<<>>}

Paths == Seq(Names) \ {<<>>}

Empty == <<"">>

ASSUME PartsAssumption == {"", "data", "das", "dds", "dods"} \subseteq Parts

\* There is nothing below a file.  A directory can be among what does not open.
ASSUME DiskAssumption ==
    /\ IsFiniteSet(Disk)
    /\ Disk \subseteq [path : Paths, opens : BOOLEAN]
    /\ \A f \in Disk : Empty \notin ToSet(f.path)
    /\ \A f, g \in Disk : f.opens => ~IsStrictPrefix(f.path, g.path)

-----------------------------------------------------------------------------
(* The command line.  args is [free, config]: the arguments without an      *)
(* option, and the data directories of the configuration files that are     *)
(* there, the one of --config before ./dars.toml.                           *)

DefaultData == << <<"data">>, Empty >>

ConfiguredData(args) ==
    IF args.config = <<>> THEN DefaultData ELSE Head(args.config)

\* Arguments override the configuration; the first one is the directory.
DataOf(args) ==
    IF args.free = <<>> THEN ConfiguredData(args) ELSE Head(args.free)

-----------------------------------------------------------------------------
(* The walk.                                                                *)

\* Path::extension, where "none" stands for no extension: a leading dot does
\* not begin one.
ExtensionOf(name) ==
    IF Len(name) = 1 \/ (Len(name) = 2 /\ name[1] = "") THEN "none" ELSE Last(name)

Supported(name) == ExtensionOf(name) \in {"nc4", "nc", "h5", "ncml"}

Hidden(name) == name[1] = "" /\ Len(name) > 1

WithoutSlash(path) == IF Last(path) = Empty THEN Front(path) ELSE path

\* strip_prefix(datadir): nothing remains of a data directory that is a file.
Relative(data, path) ==
    LET rest == SubSeq(path, Len(WithoutSlash(data)) + 1, Len(path))
    IN  IF rest = <<>> THEN <<Empty>> ELSE rest

\* filter_entry: a hidden or undecodable name ends the walk below it, but the
\* data directory itself may be hidden.
Walked(data, path) ==
    /\ IsPrefix(WithoutSlash(data), path)
    /\ \A i \in Len(WithoutSlash(data))..Len(path) :
          i > 0 => path[i] \notin Undecodable
    /\ \A i \in (Len(WithoutSlash(data)) + 1)..Len(path) : ~Hidden(path[i])

\* What cannot be opened as a dataset is left out, and with it a directory
\* whose name has a supported extension.
Keys(data) ==
    { Relative(data, f.path) :
        f \in { g \in Disk : Walked(data, g.path) /\ Supported(Last(g.path)) /\ g.opens } }
=============================================================================
