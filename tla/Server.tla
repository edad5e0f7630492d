------------------------------- MODULE Server -------------------------------
(***************************************************************************)
(* Whole responses, read part by part while files are replaced:            *)
(*                                                                         *)
(*   Dods::dods (the order of the parts)      dap2/src/dods/mod.rs         *)
(*   NcmlDataset::variable_xdr (the members)  dars/src/ncml/mod.rs         *)
(*   Hdf5Dataset::raw                         dars/src/hdf5/mod.rs         *)
(*                                                                         *)
(* The server is IndexedSource with clients: a stream of that module is    *)
(* what one client reads at the moment, and every part is checked, looked  *)
(* up and opened by its steps, again and on its own.  A plan is the sources *)
(* that a response opens, one after the other: the file of an HDF5 dataset  *)
(* once per variable and map, the members that each variable of an         *)
(* aggregate touches.  A raw download is the length, then the file.        *)
(***************************************************************************)
EXTENDS IndexedSource, Sequences

CONSTANTS
    Plans,    \* Plans[d]: the plans of the responses of dataset d
    Length    \* Length[f][v]: the bytes of version v of file f

ASSUME PlansAssumption ==
    \A d \in Datasets : \A p \in Plans[d] : p \in Seq(MembersOf(d))

VARIABLES
    request,    \* request[c]: "none", "data", "rawlength", "raw", "done" or "broken"
    plan,       \* plan[c]: what is read for it
    got,        \* history: the parts read, [source, checked, file]
    announced,  \* announced[c]: the Content-Length of a raw download
    sent        \* sent[c]: the bytes that the body of a raw download has

clientVars == <<request, plan, got, announced, sent>>
allVars == <<vars, clientVars>>

Requests == {"none", "data", "rawlength", "raw", "done", "broken"}

ServerInit ==
    /\ Init
    /\ request = [c \in Streams |-> "none"]
    /\ plan = [c \in Streams |-> <<>>]
    /\ got = [c \in Streams |-> <<>>]
    /\ announced = [c \in Streams |-> 0]
    /\ sent = [c \in Streams |-> 0]

-----------------------------------------------------------------------------
(* Data.  A definition X_Y that precedes X is a mutation of X: a plausible   *)
(* mistake at that place.                                                   *)

Asks(c) == phase = "serving" /\ request[c] \in {"none", "done", "broken"}

SetRequest(c, state) == request' = [request EXCEPT ![c] = state]

Ask(c, d) ==
    /\ Asks(c) /\ d \in published
    /\ \E p \in Plans[d] : plan' = [plan EXCEPT ![c] = p]
    /\ SetRequest(c, "data")
    /\ got' = [got EXCEPT ![c] = <<>>]
    /\ UNCHANGED <<vars, announced, sent>>

PartsRemain(c) == request[c] = "data" /\ Len(got[c]) < Len(plan[c])

NextSource(c) == plan[c][Len(got[c]) + 1]

CheckPart_FirstOnly(c) ==
    /\ PartsRemain(c)
    /\ IF got[c] = <<>> THEN Check(c, NextSource(c))
       ELSE /\ at[c] = "idle" /\ FileOf[NextSource(c)] \notin gone
            /\ at' = [at EXCEPT ![c] = "checked"]
            /\ src' = [src EXCEPT ![c] = NextSource(c)]
            /\ checked' = [checked EXCEPT ![c] = modified[NextSource(c)]]
            /\ UNCHANGED <<fsVars, dbVars, scanVars, sourceVars, idx, file, restarts>>
    /\ UNCHANGED clientVars

CheckPart(c) == PartsRemain(c) /\ Check(c, NextSource(c)) /\ UNCHANGED clientVars

FetchPart(c) == request[c] = "data" /\ FetchIndex(c) /\ UNCHANGED clientVars

OpenPart(c) == request[c] = "data" /\ OpenStreamer(c) /\ UNCHANGED clientVars

\* The part was sent whole.
Kept_Latest(c) ==
    <<[source |-> src[c], checked |-> checked[c], file |-> file[c]]>>

Kept(c) ==
    Append(got[c], [source |-> src[c], checked |-> checked[c], file |-> file[c]])

FinishPart(c) ==
    /\ request[c] = "data" /\ at[c] = "reading"
    /\ EndStream(c)
    /\ got' = [got EXCEPT ![c] = Kept(c)]
    /\ UNCHANGED <<request, plan, announced, sent>>

\* The file is gone or has changed on disk, or the document of the aggregate has;
\* any other error; or the client goes away.
BreakPart(c) ==
    /\ request[c] = "data"
    /\ EndStream(c) \/ (at[c] = "idle" /\ UNCHANGED vars)
    /\ SetRequest(c, "broken")
    /\ UNCHANGED <<plan, got, announced, sent>>

FinishResponse(c) ==
    /\ request[c] = "data" /\ at[c] = "idle" /\ ~PartsRemain(c)
    /\ SetRequest(c, "done")
    /\ UNCHANGED <<vars, plan, got, announced, sent>>

DataStep(c) ==
    \/ CheckPart(c) \/ FetchPart(c) \/ OpenPart(c)
    \/ FinishPart(c) \/ BreakPart(c) \/ FinishResponse(c)

-----------------------------------------------------------------------------
(* Raw downloads, of HDF5 datasets only.                                    *)

CurrentLength(f) == Length[f][data[f]]

RawLength_KeepsPlan(c, s) ==
    /\ Asks(c) /\ DatasetOf[s] \in published \ Aggregates
    /\ FileOf[s] \notin gone
    /\ SetRequest(c, "rawlength")
    /\ got' = [got EXCEPT ![c] = <<>>]
    /\ announced' = [announced EXCEPT ![c] = CurrentLength(FileOf[s])]
    /\ UNCHANGED <<vars, plan, sent>>

\* std::fs::metadata(&self.path)?.len()
RawLength(c, s) ==
    /\ Asks(c) /\ DatasetOf[s] \in published \ Aggregates
    /\ FileOf[s] \notin gone
    /\ SetRequest(c, "rawlength")
    /\ plan' = [plan EXCEPT ![c] = <<s>>]
    /\ got' = [got EXCEPT ![c] = <<>>]
    /\ announced' = [announced EXCEPT ![c] = CurrentLength(FileOf[s])]
    /\ UNCHANGED <<vars, sent>>

\* File::open(&self.path), or not found; what is opened is sent to its end.
RawOpen(c) ==
    /\ request[c] = "rawlength"
    /\ IF FileOf[plan[c][1]] \in gone
       THEN SetRequest(c, "broken") /\ UNCHANGED sent
       ELSE /\ SetRequest(c, "raw")
            /\ sent' = [sent EXCEPT ![c] = CurrentLength(FileOf[plan[c][1]])]
    /\ UNCHANGED <<vars, plan, got, announced>>

RawDone(c) ==
    /\ request[c] = "raw"
    /\ SetRequest(c, "done") \/ SetRequest(c, "broken")
    /\ UNCHANGED <<vars, plan, got, announced, sent>>

RawStep(c) == RawOpen(c) \/ RawDone(c)

-----------------------------------------------------------------------------
\* A restart breaks the connections.
Restarted ==
    /\ Restart
    /\ request' = [c \in Streams |-> IF request[c] = "none" THEN "none" ELSE "broken"]
    /\ got' = [c \in Streams |-> <<>>]
    /\ UNCHANGED <<plan, announced, sent>>

Background ==
    /\ Scan \/ Flush \/ \E f \in Files : Replace(f) \/ Remove(f)
    /\ UNCHANGED clientVars

ServerNext ==
    \/ \E c \in Streams :
          \/ \E d \in Datasets : Ask(c, d)
          \/ \E s \in Sources : RawLength(c, s)
          \/ DataStep(c) \/ RawStep(c)
    \/ Restarted
    \/ Background

ServerSpec == ServerInit /\ [][ServerNext]_allVars

\* The scan runs in the main task before anything else and never waits; the body
\* of a response is polled while its client reads it.
FairServerSpec ==
    /\ ServerSpec
    /\ WF_allVars(Scan /\ UNCHANGED clientVars)
    /\ \A c \in Streams : WF_allVars(DataStep(c) \/ RawStep(c))

-----------------------------------------------------------------------------
(* Properties.                                                              *)

ServerTypeOK ==
    /\ TypeOK
    /\ request \in [Streams -> Requests]
    /\ plan \in [Streams -> Seq(Sources)]
    /\ got \in [Streams -> Seq([source : Sources, checked : Nat, file : Nat])]
    /\ \A c \in Streams : request[c] = "rawlength" => plan[c] # <<>>

\* The check and the open of a part are two looks at the path
\* (hdf5/mod.rs:123, :141; member.rs:69, :85), and between them the file can be
\* replaced.  But the parts of one response watch over each other: of all parts
\* that came from the same file, through whatever sources, every one but the
\* last was read from exactly the version that was checked, and they were
\* all checked against the same version.
PartsAgree ==
    \A c \in Streams : \A i, j \in DOMAIN got[c] :
        i < j /\ FileOf[got[c][i].source] = FileOf[got[c][j].source] =>
            /\ got[c][i].file = got[c][i].checked
            /\ got[c][i].checked = got[c][j].checked

\* A response that is read is over some time, whatever is replaced meanwhile:
\* the parts come to an end, and a part whose file is gone fails
\* (dods/mod.rs:76-121).
RequestsEnd ==
    \A c \in Streams : request[c] \in {"data", "rawlength", "raw"} ~> request[c] \in {"done", "broken"}

\* "Stream the raw file (if supported).  Should return a tuple with the
\* content-length and a stream" (dap2/src/lib.rs:51-52): the one is the length
\* of the other.
RawHasAnnouncedLength ==
    \A c \in Streams : request[c] = "raw" => sent[c] = announced[c]

-----------------------------------------------------------------------------
(* The inductive invariant behind PartsAgree, together with IndexInv.       *)

\* A part that passed its check did so at the time of its source, not before
\* any source of that file was opened, and not after what it opened.
PartChecked(source, check) ==
    /\ DatasetOf[source] \in published
    /\ check = modified[source]
    /\ \A s \in Sources : DatasetOf[s] \in published /\ FileOf[s] = FileOf[source] =>
          modified[s] <= check

PartsChecked ==
    \A c \in Streams : \A i \in DOMAIN got[c] :
        /\ PartChecked(got[c][i].source, got[c][i].checked)
        /\ got[c][i].checked <= got[c][i].file
        /\ got[c][i].file <= data[FileOf[got[c][i].source]]

\* What an earlier part opened is not newer than what a later one checked.
PartsInOrder ==
    \A c \in Streams : \A i, j \in DOMAIN got[c] :
        i < j /\ FileOf[got[c][i].source] = FileOf[got[c][j].source] =>
            got[c][i].file <= got[c][j].checked

\* The same for the part that is being read.
CurrentPart ==
    \A c \in Streams :
        /\ Streaming(c) =>
              /\ PartChecked(src[c], checked[c])
              /\ checked[c] <= data[FileOf[src[c]]]
              /\ \A i \in DOMAIN got[c] :
                    FileOf[got[c][i].source] = FileOf[src[c]] =>
                        got[c][i].file <= checked[c]
        /\ at[c] = "reading" =>
              checked[c] <= file[c] /\ file[c] <= data[FileOf[src[c]]]

\* Parts exist only while the server serves.
PartsServed == \A c \in Streams : got[c] # <<>> => phase = "serving"

PartsInv == PartsChecked /\ PartsInOrder /\ CurrentPart /\ PartsServed
=============================================================================
