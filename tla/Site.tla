-------------------------------- MODULE Site --------------------------------
(***************************************************************************)
(* From a path to an answer: the chain of filters that a request falls     *)
(* through, and a visitor who follows the links of the catalog.            *)
(*                                                                         *)
(*   datasets, das, dds, dods, raw, ends_with, with_dataset                *)
(*                                           dars/src/data/filters.rs      *)
(*   the handlers of the same names          dars/src/data/handlers.rs     *)
(*   catalog, index, index_json, folder      dars-catalog/src/filters.rs   *)
(*   their order                             dars/src/main.rs              *)
(*                                                                         *)
(* A filter answers or rejects.  A rejection leads to the next filter; when *)
(* none is left, warp answers with the preferred one of the rejections.    *)
(* What the handlers of a dataset send is the subject of Dods; here it is   *)
(* the status.  All requests are GETs.                                     *)
(***************************************************************************)
EXTENDS Catalog

CONSTANTS
    Builds,         \* of TRUE and FALSE: with the feature "catalog", without it
    CommandLines,   \* see DataOf
    Typed,          \* the requests that the visitor does not take from a page
    Escaped         \* [names that a browser writes differently -> how it does]

VARIABLES
    catalog,   \* the build of the server
    args,      \* the command line of the server
    keys,      \* the keys of the map of datasets, in its order
    todo,      \* the requests the visitor will make
    request,   \* the request on its way, or None
    at,        \* the filter it has reached
    worst,     \* the rejection preferred so far, a status
    answers    \* history: the requests made and their answers

serverVars == <<catalog, args, keys>>
vars == <<catalog, args, keys, todo, request, at, worst, answers>>

Queries == {"none", "fits", "misfit"}

\* No folder is named like the URL of a dataset next to it, which it would take
\* over.
UrlSuffixes == {"das", "dds", "dods"}

ASSUME UrlsAssumption ==
    \A line \in CommandLines : \A key, other \in Keys(DataOf(line)) : \A suffix \in UrlSuffixes :
        ~IsStrictPrefix(WithSuffix(key, suffix), other)

ASSUME NamesAssumption ==
    \A line \in CommandLines : \A key \in Keys(DataOf(line)) : ToSet(key) \subseteq ToSet(Alphabet)

ASSUME RequestsAssumption ==
    /\ CommandLines \subseteq [free : Seq(Paths), config : Seq(Paths)]
    /\ Typed \in Seq([path : Paths, json : BOOLEAN, query : Queries])
    /\ Builds \subseteq BOOLEAN
    /\ \A name \in DOMAIN Escaped : Escaped[name] \in Names

None == [path |-> <<>>, json |-> FALSE, query |-> "none"]

Browse(path) == [path |-> path, json |-> FALSE, query |-> "none"]

\* What is written in the request line; the server does not translate it back.
Written(path) ==
    [i \in DOMAIN path |->
        IF path[i] \in DOMAIN Escaped THEN Escaped[path[i]] ELSE path[i]]

Routes ==
    (IF catalog THEN <<"index_json", "index", "folder">> ELSE <<"dataset_list">>)
    \o <<"das", "dds", "dods", "raw">>

Init ==
    /\ catalog \in Builds
    /\ args \in CommandLines
    /\ keys \in SetToSeqs(Keys(DataOf(args)))
    /\ todo = <<Browse(<<Empty>>)>> \o Typed
    /\ request = None
    /\ at = 1
    /\ worst = 404
    /\ answers = <<>>

-----------------------------------------------------------------------------
(* The visitor.                                                             *)

Visit ==
    /\ request = None /\ todo # <<>>
    /\ request' = Head(todo)
    /\ todo' = Tail(todo)
    /\ at' = 1 /\ worst' = 404
    /\ UNCHANGED <<serverVars, answers>>

\* Links that were not followed yet.
NewLinks(links) ==
    FlattenSeq([i \in 1..Len(links) |->
        LET r == Browse(Written(links[i]))
        IN  IF r \in DOMAIN answers \cup ToSet(todo) \cup {request} THEN <<>> ELSE <<r>>])

\* Asked again, it gets the same answer.
Recorded(by, key, status, links) ==
    [r \in DOMAIN answers \cup {request} |->
        IF r \in DOMAIN answers THEN answers[r]
        ELSE [by |-> by, key |-> key, status |-> status, links |-> links]]

Answer(by, key, status, links) ==
    /\ answers' = Recorded(by, key, status, links)
    /\ todo' = todo \o NewLinks(links)
    /\ request' = None
    /\ UNCHANGED <<serverVars, at, worst>>

-----------------------------------------------------------------------------
(* The chain of filters.  A definition X_Y that precedes X is a mutation of *)
(* X: a plausible mistake at that place.                                    *)

\* warp prefers anything to 404, and otherwise the greater status.
Preferred(a, b) ==
    IF b = 404 THEN a
    ELSE IF a = 404 THEN b
    ELSE IF a >= b THEN a ELSE b

Fall_PastTheEnd(status) ==
    /\ worst' = Preferred(worst, status)
    /\ at' = at + 1
    /\ UNCHANGED <<serverVars, todo, request, answers>>

Fall(status) ==
    /\ worst' = Preferred(worst, status)
    /\ IF at = Len(Routes)
       THEN /\ answers' = Recorded("none", <<>>, worst', <<>>)
            /\ request' = None
            /\ UNCHANGED <<todo, at>>
       ELSE at' = at + 1 /\ UNCHANGED <<todo, request, answers>>
    /\ UNCHANGED serverVars

Reached(route) == request # None /\ Routes[at] = route

UnderData == request.path[1] = DataPath[1]

TailPath == TailOf(request.path)

AtEnd == TailPath = <<Empty>>

\* warp::path!("data").and(header::exact_ignore_case("accept", ..)): a missing
\* or different header is a bad request.
ListDatasets(route) ==
    /\ Reached(route)
    /\ IF ~(UnderData /\ AtEnd) THEN Fall(404)
       ELSE IF ~request.json THEN Fall(400)
       ELSE Answer(route, <<>>, 200, <<>>)

Index ==
    /\ Reached("index")
    /\ IF request.path = <<Empty>> THEN Answer("index", <<>>, 200, IndexLinks)
       ELSE Fall(404)

\* elements and handlers::folder.  A panic ends the connection without answer.
Folder ==
    /\ Reached("folder")
    /\ IF ~UnderData THEN Fall(404)
       ELSE IF Panics(keys, TailPath) THEN Answer("folder", <<>>, 0, <<>>)
       ELSE IF ~IsFolder(keys, TailPath) THEN Fall(404)
       ELSE Answer("folder", <<>>, 200, PageLinks(keys, TailPath))

\* ends_with: the suffix is compared with the last part of the path as a whole.
EndsWith(suffix) == Len(Last(TailPath)) > 1 /\ Last(Last(TailPath)) = suffix

WithoutSuffix == Append(Front(TailPath), Front(Last(TailPath)))

Found(key) == key \in ToSet(keys)

\* with_dataset, then the handler: dds answers 400 itself, dods rejects.
Das ==
    /\ Reached("das")
    /\ IF UnderData /\ EndsWith("das") /\ Found(WithoutSuffix)
       THEN Answer("das", WithoutSuffix, 200, <<>>)
       ELSE Fall(404)

\* The constraint filter: a query that cannot be parsed counts as none.
Misfit == request.query = "misfit"

DdsText ==
    /\ Reached("dds")
    /\ IF UnderData /\ EndsWith("dds") /\ Found(WithoutSuffix)
       THEN Answer("dds", WithoutSuffix, IF Misfit THEN 400 ELSE 200, <<>>)
       ELSE Fall(404)

DodsBody ==
    /\ Reached("dods")
    /\ IF UnderData /\ EndsWith("dods") /\ Found(WithoutSuffix)
       THEN IF Misfit THEN Fall(500) ELSE Answer("dods", WithoutSuffix, 200, <<>>)
       ELSE Fall(404)

\* Only HDF5 datasets have a raw file.  The key of a data directory that is a
\* file is empty.
RawStatus(key) ==
    LET file == IF key = <<Empty>> THEN DataOf(args) ELSE key
    IN  IF ExtensionOf(Last(file)) = "ncml" THEN 404 ELSE 200

Raw ==
    /\ Reached("raw")
    /\ IF UnderData /\ Found(TailPath)
       THEN Answer("raw", TailPath, RawStatus(TailPath), <<>>)
       ELSE Fall(404)

Next ==
    \/ Visit
    \/ ListDatasets("index_json") \/ ListDatasets("dataset_list")
    \/ Index \/ Folder
    \/ Das \/ DdsText \/ DodsBody \/ Raw

Spec == Init /\ [][Next]_vars

-----------------------------------------------------------------------------
(* Properties.                                                              *)

TypeOK ==
    /\ catalog \in Builds
    /\ args \in CommandLines
    /\ ToSet(keys) = Keys(DataOf(args))
    /\ request # None => at \in DOMAIN Routes
    /\ worst \in {400, 404, 500}
    /\ \A r \in DOMAIN answers :
          /\ r.query \in Queries
          /\ answers[r].status \in {0, 200, 400, 404, 500}
          /\ answers[r].by \in ToSet(Routes) \cup {"none"}

Requested(r, path) == r \in DOMAIN answers /\ r.path = path

\* "catch errors without falling through to raw" is still to be done
\* (filters.rs:17), and the catalog comes before the datasets (main.rs:39).
\* Nevertheless every URL of a dataset is answered for that dataset by the
\* filter of its suffix, and an error is told as an error: nothing later in the
\* chain, or earlier, takes the request over.
DatasetsAnswerForThemselves ==
    \A r \in DOMAIN answers : \A i \in DOMAIN keys :
        LET path == DataPath \o keys[i]
            a == answers[r]
            by == [route |-> a.by, key |-> a.key, status |-> a.status]
        IN  Written(path) = path =>
            /\ r.path = path /\ keys[i] # <<Empty>> =>
                  by = [route |-> "raw", key |-> keys[i], status |-> RawStatus(keys[i])]
            /\ r.path = WithSuffix(path, "das") =>
                  by = [route |-> "das", key |-> keys[i], status |-> 200]
            /\ r.path = WithSuffix(path, "dds") =>
                  by = [route |-> "dds", key |-> keys[i],
                        status |-> IF r.query = "misfit" THEN 400 ELSE 200]
            /\ r.path = WithSuffix(path, "dods") =>
                  IF r.query = "misfit" THEN a.status = 500
                  ELSE by = [route |-> "dods", key |-> keys[i], status |-> 200]

\* A page shows every dataset and every folder directly below it, and shows it
\* once: folders are found by cutting the names of all that lies below, in an
\* arbitrary order, and dedup compares neighbours only (filters.rs:88-94).
PagesListEachOnce ==
    \A r \in DOMAIN answers :
        answers[r].by = "folder" /\ answers[r].status = 200 =>
            LET folder == DataPath \o WithoutSlash(TailOf(r.path))
                below == { DataPath \o keys[i] : i \in { j \in DOMAIN keys :
                              IsStrictPrefix(folder, DataPath \o keys[j]) } }
                files == { p \in below : Len(p) = Len(folder) + 1 }
                folders == { SubSeq(p, 1, Len(folder) + 1) : p \in below \ files }
                links == answers[r].links
            IN  /\ ToSet(links) = { <<Empty>>, Append(DataPath, Empty) } \cup folders
                        \cup UNION { ToSet(DatasetLinks(p)) : p \in files }
                /\ Cardinality(ToSet(links)) = Len(links)

VisitOver == request = None /\ todo = <<>>

\* The pages on the way to a dataset.
OnTheWay(key) == { Append(SubSeq(key, 1, n), Empty) : n \in 0..(Len(key) - 1) }

\* "All datasets are available under the /data root" (config.rs:77-78) and the
\* catalog "can be explored using a browser" (README.md:65): who starts at the
\* front page and follows every link has met every dataset, and each of its
\* pages answered.  Left out is what lies behind a page that panics
\* (dars-catalog/src/filters.rs:91): such a page hides nothing but what is below.
AllAvailable ==
    catalog /\ VisitOver => \A i \in DOMAIN keys :
        keys[i] # <<Empty>> /\ (\A tail \in OnTheWay(keys[i]) : ~Panics(keys, tail)) =>
        \A link \in ToSet(DatasetLinks(DataPath \o keys[i])) :
            \E r \in DOMAIN answers :
                /\ answers[r].key = keys[i]
                /\ answers[r].status = IF link = DataPath \o keys[i]
                                       THEN RawStatus(keys[i]) ELSE 200
                /\ r = Browse(Written(link))

\* A browser writes the names of the datasets as they are, and those of the
\* folders on the way to them; where it does not, the links lead nowhere
\* (SiteEscaped).  The names behind a page that panics do not matter.
NothingEscaped ==
    /\ DataPath[1] \notin DOMAIN Escaped
    /\ \A line \in CommandLines : \A key \in Keys(DataOf(line)) :
          ToSet(Front(key)) \cap Wide = {} =>
            /\ ToSet(key) \cap DOMAIN Escaped = {}
            /\ \A suffix \in UrlSuffixes : Append(Last(key), suffix) \notin DOMAIN Escaped
=============================================================================
