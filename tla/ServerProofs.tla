----------------------------- MODULE ServerProofs -----------------------------
(***************************************************************************)
(* Proofs about IndexedSource, for any files, keys, datasets, sources and  *)
(* streams, any assignment of keys to sources (shared or not), and any     *)
(* number of replacements and restarts; and about Server, which extends    *)
(* it, for any clients and any plans.                                      *)
(***************************************************************************)
EXTENDS Server, TLAPS

(* IndexedSource.                                                           *)

\* One step keeps the types of the state variables.
LEMMA TypeStep ==
  ASSUME TypeOK, [Next]_vars
  PROVE  TypeOK'
<1> USE SourcesAssumption
<1> USE DEF fsVars, dbVars, scanVars, sourceVars, streamVars
<1>1. ASSUME NEW d \in Datasets, BeginDataset(d) PROVE TypeOK'
  BY <1>1 DEF BeginDataset, TypeOK
<1>2. ASSUME NEW d \in Datasets, PublishDataset(d) PROVE TypeOK'
  BY <1>2 DEF PublishDataset, Complete, Published, TypeOK
<1>3. ASSUME NEW d \in Datasets, DropDataset(d) PROVE TypeOK'
  BY <1>3 DEF DropDataset, Unusable, TypeOK
<1>4. CASE Serve
  BY <1>4 DEF Serve, TypeOK
<1>p. ASSUME NEW d \in Datasets, DescribePanics(d) PROVE TypeOK'
  BY <1>p DEF DescribePanics, TypeOK, SourceStates
<1>5. ASSUME NEW s \in Sources,
             Stat(s) \/ OpenFile(s) \/ CheckKey(s) \/ InsertIndex(s) \/ OpenFails(s)
      PROVE  TypeOK'
  <2>1. CASE Stat(s)
    BY <2>1 DEF Stat, SetSource, TypeOK, SourceStates
  <2>2. CASE OpenFile(s)
    BY <2>2 DEF OpenFile, SetSource, TypeOK, SourceStates
  <2>3. CASE CheckKey(s)
    BY <2>3 DEF CheckKey, Found, SetSource, TypeOK, SourceStates
  <2>4. CASE InsertIndex(s)
    BY <2>4 DEF InsertIndex, Indexes, SetSource, TypeOK, SourceStates
  <2>5. CASE OpenFails(s)
    BY <2>5 DEF OpenFails, SetSource, TypeOK, SourceStates
  <2>6. QED BY <1>5, <2>1, <2>2, <2>3, <2>4, <2>5
<1>6. ASSUME NEW r \in Streams, NEW s \in Sources, Check(r, s) PROVE TypeOK'
  BY <1>6 DEF Check, TypeOK, StreamStates
<1>7. ASSUME NEW r \in Streams, FetchIndex(r) PROVE TypeOK'
  <2>1. src[r] \in Sources /\ db[KeyOf[src[r]]] \in Nat
    BY <1>7 DEF FetchIndex, TypeOK
  <2>2. QED
    BY <1>7, <2>1 DEF FetchIndex, TypeOK, StreamStates
<1>8. ASSUME NEW r \in Streams, OpenStreamer(r) PROVE TypeOK'
  BY <1>8 DEF OpenStreamer, TypeOK, StreamStates
<1>9. ASSUME NEW r \in Streams, EndStream(r) PROVE TypeOK'
  BY <1>9 DEF EndStream, TypeOK, StreamStates
<1>10. ASSUME NEW f \in Files, Replace(f) \/ Remove(f) PROVE TypeOK'
  BY <1>10 DEF Replace, Remove, TypeOK
<1>11. CASE Flush
  BY <1>11 DEF Flush, TypeOK
<1>12. CASE Restart
  BY <1>12 DEF Restart, TypeOK, SourceStates, StreamStates
<1>13. CASE UNCHANGED vars
  BY <1>13 DEF vars, TypeOK
<1>14. QED
  BY <1>1, <1>2, <1>3, <1>4, <1>5, <1>6, <1>7, <1>8, <1>9, <1>10, <1>11,
     <1>12, <1>13, <1>p DEF Next, Scan, Read, Environment

\* The state variables keep their types.
THEOREM TypeCorrect == Spec => []TypeOK
<1>1. Init => TypeOK
  BY SourcesAssumption DEF Init, TypeOK, SourceStates, StreamStates
<1>2. TypeOK /\ [Next]_vars => TypeOK'
  BY TypeStep
<1>3. QED
  BY <1>1, <1>2, PTL DEF Spec

-----------------------------------------------------------------------------
(* The inductive invariant, one part at a time.                             *)

\* Versions: a file's version only grows, and a source takes the modification
\* time before it opens the file.
LEMMA VersionsStep ==
  ASSUME TypeOK, Versions, [Next]_vars
  PROVE  Versions'
<1> USE SourcesAssumption DEF TypeOK, Versions
<1> USE DEF fsVars, dbVars, scanVars, sourceVars, streamVars
<1>1. ASSUME NEW s \in Sources, Stat(s) PROVE Versions'
  BY <1>1 DEF Stat, SetSource
<1>2. ASSUME NEW s \in Sources, OpenFile(s) PROVE Versions'
  BY <1>2 DEF OpenFile, SetSource
<1>3. ASSUME NEW s \in Sources, CheckKey(s) \/ InsertIndex(s) \/ OpenFails(s)
      PROVE  Versions'
  <2>1. CASE CheckKey(s)
    BY <2>1 DEF CheckKey, Found, SetSource
  <2>2. CASE InsertIndex(s)
    BY <2>2 DEF InsertIndex, Indexes, SetSource
  <2>3. CASE OpenFails(s)
    BY <2>3 DEF OpenFails, InProgress, SetSource
  <2>4. QED
    BY <1>3, <2>1, <2>2, <2>3
<1>4. ASSUME NEW f \in Files, Replace(f) PROVE Versions'
  BY <1>4 DEF Replace
<1>5. CASE Restart
  BY <1>5 DEF Restart
<1>6. ASSUME UNCHANGED <<data, st, modified, meta>> PROVE Versions'
  BY <1>6
<1>7. ASSUME NEW d \in Datasets,
             BeginDataset(d) \/ PublishDataset(d) \/ DropDataset(d)
      PROVE  Versions'
  BY <1>6, <1>7 DEF BeginDataset, PublishDataset, Complete, Published, DropDataset, Unusable
<1>8. CASE Serve \/ Flush
  BY <1>6, <1>8 DEF Serve, Flush
<1>p. ASSUME NEW d \in Datasets, DescribePanics(d) PROVE Versions'
  BY <1>p DEF DescribePanics, InProgress
<1>9. CASE Read
  BY <1>6, <1>9 DEF Read, Check, FetchIndex, OpenStreamer, EndStream
<1>10. ASSUME NEW f \in Files, Remove(f) PROVE Versions'
  BY <1>6, <1>10 DEF Remove
<1>11. CASE UNCHANGED vars
  BY <1>6, <1>11 DEF vars
<1>12. QED
  BY <1>1, <1>2, <1>3, <1>4, <1>5, <1>7, <1>8, <1>9, <1>10, <1>11, <1>p
     DEF Next, Scan, Environment

\* Indexed: contains_key and insert are two steps, but an index is never taken
\* away, and an index of version 0 is never written.
LEMMA IndexedStep ==
  ASSUME TypeOK, Versions, Indexed, [Next]_vars
  PROVE  Indexed'
<1> USE SourcesAssumption DEF TypeOK, Indexed
<1> USE DEF fsVars, dbVars, scanVars, sourceVars, streamVars
<1>1. ASSUME NEW s \in Sources, InsertIndex(s) PROVE Indexed'
  <2>1. meta[s] \in Nat /\ meta[s] # 0
    BY <1>1 DEF InsertIndex, Indexes, Versions
  <2>2. QED
    BY <1>1, <2>1 DEF InsertIndex, Indexes, SetSource
<1>2. ASSUME NEW s \in Sources, Stat(s) \/ OpenFile(s) \/ OpenFails(s) PROVE Indexed'
  BY <1>2 DEF Stat, OpenFile, OpenFails, InProgress, SetSource
<1>3. ASSUME NEW s \in Sources, CheckKey(s) PROVE Indexed'
  BY <1>3 DEF CheckKey, Found, SetSource
<1>4. CASE Restart
  BY <1>4 DEF Restart
<1>5. ASSUME UNCHANGED <<db, writer, st, meta>> PROVE Indexed'
  BY <1>5
<1>6. ASSUME NEW d \in Datasets,
             BeginDataset(d) \/ PublishDataset(d) \/ DropDataset(d)
      PROVE  Indexed'
  BY <1>5, <1>6 DEF BeginDataset, PublishDataset, Complete, Published, DropDataset, Unusable
<1>7. CASE Serve \/ Flush
  BY <1>5, <1>7 DEF Serve, Flush
<1>p. ASSUME NEW d \in Datasets, DescribePanics(d) PROVE Indexed'
  BY <1>p DEF DescribePanics, InProgress
<1>8. CASE Read
  BY <1>5, <1>8 DEF Read, Check, FetchIndex, OpenStreamer, EndStream
<1>9. ASSUME NEW f \in Files, Replace(f) \/ Remove(f) PROVE Indexed'
  BY <1>5, <1>9 DEF Replace, Remove
<1>10. CASE UNCHANGED vars
  BY <1>5, <1>10 DEF vars
<1>11. QED
  BY <1>1, <1>2, <1>3, <1>4, <1>6, <1>7, <1>8, <1>9, <1>10, <1>p
     DEF Next, Scan, Environment

\* ScanOrder: datasets are opened one at a time, and the server listens when
\* none is.
LEMMA ScanOrderStep ==
  ASSUME TypeOK, ScanOrder, [Next]_vars
  PROVE  ScanOrder'
<1> USE SourcesAssumption DEF TypeOK, ScanOrder, InProgress
<1> USE DEF fsVars, dbVars, scanVars, sourceVars, streamVars
<1>1. ASSUME NEW d \in Datasets, BeginDataset(d) PROVE ScanOrder'
  BY <1>1 DEF BeginDataset
<1>2. ASSUME NEW d \in Datasets, PublishDataset(d) PROVE ScanOrder'
  BY <1>2 DEF PublishDataset, Complete, Published, MembersOf
<1>3. ASSUME NEW d \in Datasets, DropDataset(d) PROVE ScanOrder'
  BY <1>3 DEF DropDataset, Unusable, MembersOf
<1>4. CASE Serve
  BY <1>4 DEF Serve
<1>p. ASSUME NEW d \in Datasets, DescribePanics(d) PROVE ScanOrder'
  BY <1>p DEF DescribePanics
<1>5. ASSUME NEW s \in Sources,
             \/ Stat(s) \/ OpenFile(s) \/ CheckKey(s) \/ InsertIndex(s)
             \/ OpenFails(s)
      PROVE  ScanOrder'
  <2>1. DatasetOf[s] = opening /\ st[s] # "loaded"
    BY <1>5 DEF Stat, OpenFile, CheckKey, Found, InsertIndex, Indexes, OpenFails
  <2>2. /\ UNCHANGED scanVars
        /\ \A t \in Sources \ {s} : st'[t] = st[t]
    BY <1>5 DEF Stat, OpenFile, CheckKey, Found, InsertIndex, Indexes, OpenFails, SetSource
  <2>3. DatasetOf[s] \notin published
    BY <2>1
  <2>4. QED
    BY <2>1, <2>2, <2>3
<1>6. ASSUME UNCHANGED <<phase, opening, tried, published, st>> PROVE ScanOrder'
  BY <1>6
<1>7. CASE Read
  BY <1>6, <1>7 DEF Read, Check, FetchIndex, OpenStreamer, EndStream
<1>8. ASSUME NEW f \in Files, Replace(f) \/ Remove(f) PROVE ScanOrder'
  BY <1>6, <1>8 DEF Replace, Remove
<1>9. CASE Flush
  BY <1>6, <1>9 DEF Flush
<1>10. CASE Restart
  BY <1>10 DEF Restart
<1>11. CASE UNCHANGED vars
  BY <1>6, <1>11 DEF vars
<1>12. QED
  BY <1>1, <1>2, <1>3, <1>4, <1>5, <1>7, <1>8, <1>9, <1>10, <1>11, <1>p
     DEF Next, Scan, Environment

\* StreamsChecked: while streams run nothing is opened and nothing is written
\* to the database.
LEMMA StreamsStep ==
  ASSUME TypeOK, IndexInv, [Next]_vars
  PROVE  StreamsChecked' /\ NoPanic'
<1> USE SourcesAssumption DEF TypeOK, IndexInv, StreamsChecked, NoPanic, Streaming
<1> USE DEF fsVars, dbVars, scanVars, sourceVars, streamVars
<1>1. CASE Restart
  BY <1>1 DEF Restart
<1>2. ASSUME NEW r \in Streams, NEW s \in Sources, Check(r, s)
      PROVE  StreamsChecked' /\ NoPanic'
  <2>1. data[FileOf[s]] = modified[s] /\ meta[s] = modified[s]
    BY <1>2 DEF Check, ScanOrder, Versions
  <2>2. QED
    BY <1>2, <2>1 DEF Check
<1>3. ASSUME NEW r \in Streams, FetchIndex(r)
      PROVE  StreamsChecked' /\ NoPanic'
  <2>1. src[r] \in Sources /\ db[KeyOf[src[r]]] # 0
    BY <1>3 DEF FetchIndex, ScanOrder, Indexed
  <2>2. QED
    BY <1>3, <2>1 DEF FetchIndex
<1>4. ASSUME NEW r \in Streams, OpenStreamer(r)
      PROVE  StreamsChecked' /\ NoPanic'
  BY <1>4 DEF OpenStreamer
<1>5. ASSUME NEW r \in Streams, EndStream(r)
      PROVE  StreamsChecked' /\ NoPanic'
  BY <1>5 DEF EndStream
<1>6. ASSUME UNCHANGED <<db, modified, meta, streamVars>>,
             \/ UNCHANGED <<phase, published>>
             \/ \A r \in Streams : at[r] = "idle"
      PROVE  StreamsChecked' /\ NoPanic'
  BY <1>6
<1>7. phase = "scanning" => \A r \in Streams : at[r] = "idle"
  OBVIOUS
<1>8. ASSUME NEW d \in Datasets,
             BeginDataset(d) \/ PublishDataset(d) \/ DropDataset(d)
      PROVE  StreamsChecked' /\ NoPanic'
  <2>1. \/ UNCHANGED <<phase, published>>
        \/ phase = "scanning"
    BY <1>8 DEF BeginDataset, PublishDataset, Complete, Published, DropDataset, Unusable, ScanOrder
  <2>2. QED
    BY <1>6, <1>7, <1>8, <2>1 DEF BeginDataset, PublishDataset, Complete, Published, DropDataset, Unusable
<1>9. CASE Serve
  BY <1>6, <1>7, <1>9 DEF Serve
<1>p. ASSUME NEW d \in Datasets, DescribePanics(d) PROVE StreamsChecked' /\ NoPanic'
  <2>1. opening # None /\ phase # "serving"
    BY <1>p DEF DescribePanics, ScanOrder
  <2>2. \A r \in Streams : at[r] = "idle"
    BY <2>1
  <2> QED BY <1>p, <2>2 DEF DescribePanics
<1>10. ASSUME NEW s \in Sources,
             \/ Stat(s) \/ OpenFile(s) \/ CheckKey(s) \/ InsertIndex(s)
             \/ OpenFails(s)
      PROVE  StreamsChecked' /\ NoPanic'
  <2>1. opening # None
    BY <1>10 DEF Stat, OpenFile, CheckKey, Found, InsertIndex, Indexes, OpenFails, ScanOrder,
                 InProgress
  <2>2. \A r \in Streams : at[r] = "idle"
    BY <1>7, <2>1 DEF ScanOrder
  <2>3. UNCHANGED streamVars
    BY <1>10 DEF Stat, OpenFile, CheckKey, Found, InsertIndex, Indexes, OpenFails
  <2>4. QED
    BY <2>2, <2>3
<1>11. ASSUME NEW f \in Files, Replace(f) \/ Remove(f)
       PROVE  StreamsChecked' /\ NoPanic'
  BY <1>6, <1>11 DEF Replace, Remove
<1>12. CASE Flush
  BY <1>6, <1>12 DEF Flush
<1>13. CASE UNCHANGED vars
  BY <1>6, <1>13 DEF vars
<1>14. QED
  BY <1>1, <1>2, <1>3, <1>4, <1>5, <1>8, <1>9, <1>10, <1>11, <1>12, <1>13, <1>p
     DEF Next, Scan, Read, Environment

-----------------------------------------------------------------------------
\* The invariant that ties the file on disk, the index in the database and the
\* metadata in memory together (hdf5/mod.rs:34-71, :123-143; member.rs:19-59,
\* :69-85).
THEOREM IndexInvariant == Spec => []IndexInv
<1>1. Init => IndexInv
  BY SourcesAssumption
     DEF Init, IndexInv, Versions, Indexed, ScanOrder, StreamsChecked, NoPanic,
         InProgress, Streaming
<1>2. TypeOK /\ IndexInv /\ [Next]_vars => IndexInv'
  BY VersionsStep, IndexedStep, ScanOrderStep, StreamsStep DEF IndexInv
<1>3. QED
  BY <1>1, <1>2, TypeCorrect, PTL DEF Spec

\* The unwrap() of the index never panics, whatever races, failed opens,
\* crashes and lost database writes came before.
THEOREM NeverPanics == Spec => []NoPanic
<1>1. IndexInv => NoPanic
  BY DEF IndexInv
<1>2. QED
  BY <1>1, IndexInvariant, PTL

\* Datasets are published whole: each of their sources is opened and indexed.
THEOREM PublishedWhole == Spec => []PublishedIsComplete
<1>1. IndexInv => PublishedIsComplete
  BY DEF IndexInv, ScanOrder, Indexed, PublishedIsComplete
<1>2. QED
  BY <1>1, IndexInvariant, PTL

\* A stream that passed the modification time check reads the file that the
\* DDS it is described by was read from.
THEOREM DescribedByDds == Spec => []CheckedIsDescribed
<1>1. IndexInv => CheckedIsDescribed
  BY DEF IndexInv, StreamsChecked, CheckedIsDescribed
<1>2. QED
  BY <1>1, IndexInvariant, PTL

\* ... and with the index of that file, when the source wrote it itself.
THEOREM OwnIndex == Spec => []OwnIndexDescribesFile
<1>1. TypeOK /\ IndexInv => OwnIndexDescribesFile
  BY DEF TypeOK, IndexInv, StreamsChecked, Indexed, Streaming, OwnIndexDescribesFile
<1>2. QED
  BY <1>1, TypeCorrect, IndexInvariant, PTL

-----------------------------------------------------------------------------
(* Server.                                                                  *)

\* What is appended to a sequence over S leaves it one.
LEMMA AppendTyped ==
  ASSUME NEW S, NEW q \in Seq(S), NEW e \in S
  PROVE  /\ Append(q, e) \in Seq(S)
         /\ Len(Append(q, e)) = Len(q) + 1
         /\ \A i \in DOMAIN q : Append(q, e)[i] = q[i]
         /\ Append(q, e)[Len(q) + 1] = e
         /\ DOMAIN Append(q, e) = DOMAIN q \cup {Len(q) + 1}
OBVIOUS

\* A sequence over a set is one over every larger set.
LEMMA SeqMonotone ==
  ASSUME NEW S, NEW T, S \subseteq T, NEW q \in Seq(S)
  PROVE  q \in Seq(T)
<1>1. Len(q) \in Nat /\ q \in [1..Len(q) -> S]
  OBVIOUS
<1>2. q \in [1..Len(q) -> T]
  BY <1>1
<1>3. QED
  BY <1>1, <1>2

LEMMA ElementTyped ==
  ASSUME NEW S, NEW q \in Seq(S), NEW i \in DOMAIN q
  PROVE  q[i] \in S
OBVIOUS

-----------------------------------------------------------------------------
(* The server is an IndexedSource with clients.                             *)

\* The plans name sources.
LEMMA NextSourceIsSource ==
  ASSUME ServerTypeOK, NEW c \in Streams, PartsRemain(c)
  PROVE  NextSource(c) \in Sources
<1>1. plan[c] \in Seq(Sources) /\ Len(got[c]) \in Nat
  BY DEF ServerTypeOK
<1>2. Len(got[c]) + 1 \in 1..Len(plan[c])
  BY <1>1 DEF PartsRemain
<1>3. QED
  BY <1>1, <1>2 DEF NextSource

\* What a client does is a step of the streams, or nothing to them.
LEMMA ClientStep ==
  ASSUME ServerTypeOK, NEW c \in Streams, DataStep(c)
  PROVE  Read \/ UNCHANGED vars
<1>1. CASE CheckPart(c)
  BY <1>1, NextSourceIsSource DEF CheckPart, Read
<1>2. CASE FinishResponse(c)
  BY <1>2 DEF FinishResponse
<1>3. CASE FetchPart(c) \/ OpenPart(c) \/ FinishPart(c) \/ BreakPart(c)
  BY <1>3 DEF FetchPart, OpenPart, FinishPart, BreakPart, Read
<1>4. QED
  BY <1>1, <1>2, <1>3 DEF DataStep

LEMMA SourceStep ==
  ASSUME ServerTypeOK, [ServerNext]_allVars
  PROVE  [Next]_vars
<1>1. ASSUME NEW c \in Streams, DataStep(c) PROVE [Next]_vars
  BY <1>1, ClientStep DEF Next
<1>2. ASSUME NEW c \in Streams, RawStep(c) PROVE [Next]_vars
  BY <1>2 DEF RawStep, RawOpen, RawDone
<1>3. ASSUME NEW c \in Streams, NEW d \in Datasets, Ask(c, d) PROVE [Next]_vars
  BY <1>3 DEF Ask
<1>4. ASSUME NEW c \in Streams, NEW s \in Sources, RawLength(c, s) PROVE [Next]_vars
  BY <1>4 DEF RawLength
<1>5. CASE Restarted
  BY <1>5 DEF Restarted, Next, Environment
<1>6. CASE Background
  BY <1>6 DEF Background, Next, Environment
<1>7. CASE UNCHANGED allVars
  BY <1>7 DEF allVars
<1>8. QED
  BY <1>1, <1>2, <1>3, <1>4, <1>5, <1>6, <1>7 DEF ServerNext

LEMMA ServerTypeStep ==
  ASSUME ServerTypeOK, [ServerNext]_allVars
  PROVE  ServerTypeOK'
<1> DEFINE Part == [source : Sources, checked : Nat, file : Nat]
<1>1. TypeOK'
  BY SourceStep, TypeStep DEF ServerTypeOK
<1>2. TypeOK /\ request \in [Streams -> Requests] /\ plan \in [Streams -> Seq(Sources)]
      /\ got \in [Streams -> Seq(Part)]
      /\ \A c \in Streams : request[c] = "rawlength" => plan[c] # <<>>
  BY DEF ServerTypeOK
<1> USE DEF ServerTypeOK, Requests, SetRequest
<1>3. ASSUME UNCHANGED clientVars PROVE ServerTypeOK'
  BY <1>1, <1>3 DEF clientVars
<1>11. <<>> \in Seq(Part) /\ \A s \in Sources : <<s>> \in Seq(Sources) /\ <<s>> # <<>>
  OBVIOUS
<1>4. ASSUME NEW c \in Streams, DataStep(c) PROVE ServerTypeOK'
  <2>1. CASE CheckPart(c) \/ FetchPart(c) \/ OpenPart(c)
    BY <1>3, <2>1 DEF CheckPart, FetchPart, OpenPart
  <2>2. CASE BreakPart(c) \/ FinishResponse(c)
    BY <1>1, <2>2 DEF BreakPart, FinishResponse
  <2>3. CASE FinishPart(c)
    <3>1. [source |-> src[c], checked |-> checked[c], file |-> file[c]] \in Part
      BY <1>2, <2>3 DEF FinishPart, TypeOK
    <3>2. Kept(c) \in Seq(Part)
      <4>1. got[c] \in Seq(Part)
        BY <1>2
      <4> HIDE DEF Part
      <4>2. QED
        BY <3>1, <4>1, AppendTyped DEF Kept
    <3>3. got' \in [Streams -> Seq(Part)]
      <4> HIDE DEF Part, ServerTypeOK, Kept
      <4> QED BY <1>2, <2>3, <3>2 DEF FinishPart
    <3>4. QED
      BY <1>1, <1>2, <2>3, <3>3 DEF FinishPart
  <2>4. QED
    BY <1>4, <2>1, <2>2, <2>3 DEF DataStep
<1>5. ASSUME NEW c \in Streams, RawStep(c) PROVE ServerTypeOK'
  BY <1>1, <1>5 DEF RawStep, RawOpen, RawDone
<1>6. ASSUME NEW c \in Streams, NEW d \in Datasets, Ask(c, d) PROVE ServerTypeOK'
  <2>1. PICK p \in Plans[d] : plan' = [plan EXCEPT ![c] = p]
    BY <1>6 DEF Ask
  <2>2. p \in Seq(Sources)
    <3>1. p \in Seq(MembersOf(d)) /\ MembersOf(d) \subseteq Sources
      BY PlansAssumption DEF MembersOf
    <3>2. QED
      BY <3>1, SeqMonotone
  <2>3. plan' \in [Streams -> Seq(Sources)]
    BY <1>2, <2>1, <2>2
  <2>4. got' \in [Streams -> Seq(Part)]
    <3> HIDE DEF Part, ServerTypeOK
    <3> QED BY <1>2, <1>6, <1>11 DEF Ask
  <2>5. QED
    BY <1>1, <1>2, <1>6, <2>3, <2>4 DEF Ask
<1>7. ASSUME NEW c \in Streams, NEW s \in Sources, RawLength(c, s) PROVE ServerTypeOK'
  BY <1>1, <1>2, <1>7, <1>11 DEF RawLength
<1>8. CASE Restarted
  BY <1>1, <1>2, <1>8, <1>11 DEF Restarted
<1>9. CASE Background \/ UNCHANGED allVars
  BY <1>3, <1>9 DEF Background, allVars
<1>10. QED
  BY <1>4, <1>5, <1>6, <1>7, <1>8, <1>9 DEF ServerNext

\* The state variables keep their types.
THEOREM ServerTypeCorrect == ServerSpec => []ServerTypeOK
<1>1. ServerInit => ServerTypeOK
  <2>1. Init => TypeOK
    BY SourcesAssumption DEF Init, TypeOK, SourceStates, StreamStates
  <2>2. QED
    BY <2>1 DEF ServerInit, ServerTypeOK, Requests
<1>2. ServerTypeOK /\ [ServerNext]_allVars => ServerTypeOK'
  BY ServerTypeStep
<1>3. QED
  BY <1>1, <1>2, PTL DEF ServerSpec

\* The server implements IndexedSource: every step of a client, of a raw
\* download or of the surroundings is one of its steps, or leaves its state
\* alone.  All that is proved of IndexedSource holds of the server.
THEOREM ServerImplementsSource == ServerSpec => Spec
<1>1. ServerInit => Init
  BY DEF ServerInit
<1>2. ServerTypeOK /\ [ServerNext]_allVars => [Next]_vars
  BY SourceStep
<1>3. QED
  BY <1>1, <1>2, ServerTypeCorrect, PTL DEF ServerSpec, Spec

-----------------------------------------------------------------------------
(* The parts of a response.                                                 *)

\* While the server serves, the map of datasets, the times kept in memory and
\* the streams stay as they are in the background, and versions only grow.
LEMMA ServingStep ==
  ASSUME TypeOK, IndexInv, phase = "serving", Background
  PROVE  /\ UNCHANGED <<phase, published, modified, streamVars>>
         /\ \A f \in Files : data[f] <= data'[f]
<1> USE SourcesAssumption
<1>1. opening = None /\ data \in [Files -> Nat]
  BY DEF IndexInv, ScanOrder, TypeOK
<1>2. \A s \in Sources : ~InProgress(s)
  BY <1>1 DEF IndexInv, ScanOrder
<1>3. CASE Scan
  <2>1. \E d \in Datasets : BeginDataset(d)
    BY <1>1, <1>2, <1>3 DEF Scan, BeginDataset, PublishDataset, DropDataset, DescribePanics,
       Serve, Stat, OpenFile, CheckKey, InsertIndex, OpenFails, InProgress
  <2>2. QED
    BY <1>1, <2>1 DEF BeginDataset, fsVars, sourceVars, scanVars
<1>4. ASSUME NEW f \in Files, Replace(f) \/ Remove(f) PROVE
         /\ UNCHANGED <<phase, published, modified, streamVars>>
         /\ \A g \in Files : data[g] <= data'[g]
  BY <1>1, <1>4 DEF Replace, Remove, scanVars, sourceVars
<1>5. CASE Flush
  BY <1>1, <1>5 DEF Flush, fsVars, sourceVars, scanVars
<1>6. QED
  BY <1>3, <1>4, <1>5 DEF Background

\* A step that reads no part further keeps the invariant.
LEMMA PartsKept ==
  ASSUME ServerTypeOK, PartsInv,
         phase = "serving",
         UNCHANGED <<phase, published, modified>>,
         \A f \in Files : data[f] <= data'[f] /\ data'[f] \in Nat,
         \A c \in Streams : got'[c] = got[c] \/ got'[c] = <<>>,
         \A c \in Streams :
            \/ at'[c] \in {"idle", "panicked"}
            \/ /\ Streaming(c) /\ src'[c] = src[c] /\ checked'[c] = checked[c]
               /\ at'[c] = "reading" => at[c] = "reading" /\ file'[c] = file[c]
  PROVE  PartsInv'
<1> USE SourcesAssumption
<1>1. \A c \in Streams : Streaming(c) => src[c] \in Sources /\ checked[c] \in Nat
  BY DEF ServerTypeOK, TypeOK, Streaming
<1>2. ASSUME NEW c \in Streams, NEW i \in DOMAIN got[c]
      PROVE  /\ got[c][i].source \in Sources
             /\ got[c][i].checked \in Nat /\ got[c][i].file \in Nat
  <2>1. got[c] \in Seq([source : Sources, checked : Nat, file : Nat])
    BY DEF ServerTypeOK
  <2>2. got[c][i] \in [source : Sources, checked : Nat, file : Nat]
    <3> DEFINE Part == [source : Sources, checked : Nat, file : Nat]
    <3>1. got[c] \in Seq(Part)
      BY <2>1
    <3> HIDE DEF Part
    <3>2. got[c][i] \in Part
      BY <3>1, ElementTyped
    <3> QED BY <3>2 DEF Part
  <2>3. QED
    BY <2>2
<1>3. data \in [Files -> Nat] /\ file \in [Streams -> Nat]
  BY DEF ServerTypeOK, TypeOK
<1>4. ASSUME NEW s, NEW v, PartChecked(s, v) PROVE PartChecked(s, v)'
  BY <1>4 DEF PartChecked
<1>5. PartsChecked'
  <2> SUFFICES ASSUME NEW c \in Streams, NEW i \in DOMAIN got'[c]
               PROVE  /\ PartChecked(got[c][i].source, got[c][i].checked)'
                      /\ got'[c][i].checked <= got'[c][i].file
                      /\ got'[c][i].file <= data'[FileOf[got'[c][i].source]]
    BY DEF PartsChecked, PartChecked
  <2>1. got'[c] = got[c] /\ i \in DOMAIN got[c]
    OBVIOUS
  <2>2. /\ PartChecked(got[c][i].source, got[c][i].checked)
        /\ got[c][i].checked <= got[c][i].file
        /\ got[c][i].file <= data[FileOf[got[c][i].source]]
    BY <2>1 DEF PartsInv, PartsChecked
  <2>3. PartChecked(got[c][i].source, got[c][i].checked)'
    BY <2>2, <2>1, <1>4 DEF PartChecked
  <2>4. FileOf[got[c][i].source] \in Files
    BY <1>2, <2>1
  <2>5. got[c][i].file <= data'[FileOf[got[c][i].source]]
    BY <1>2, <1>3, <2>1, <2>2, <2>4
  <2>6. QED
    BY <2>1, <2>2, <2>3, <2>5
<1>6. PartsInOrder'
  BY DEF PartsInv, PartsInOrder
<1>7. CurrentPart'
  <2> SUFFICES ASSUME NEW c \in Streams PROVE
        /\ Streaming(c)' =>
              /\ PartChecked(src[c], checked[c])'
              /\ checked'[c] <= data'[FileOf[src'[c]]]
              /\ \A i \in DOMAIN got'[c] :
                    FileOf[got'[c][i].source] = FileOf[src'[c]] =>
                        got'[c][i].file <= checked'[c]
        /\ at'[c] = "reading" =>
              checked'[c] <= file'[c] /\ file'[c] <= data'[FileOf[src'[c]]]
    BY DEF CurrentPart, PartChecked
  <2>1. CASE at'[c] \in {"idle", "panicked"}
    BY <2>1 DEF Streaming
  <2>2. CASE /\ Streaming(c) /\ src'[c] = src[c] /\ checked'[c] = checked[c]
             /\ at'[c] = "reading" => at[c] = "reading" /\ file'[c] = file[c]
    <3>1. /\ PartChecked(src[c], checked[c])
          /\ checked[c] <= data[FileOf[src[c]]]
          /\ \A i \in DOMAIN got[c] :
                FileOf[got[c][i].source] = FileOf[src[c]] => got[c][i].file <= checked[c]
          /\ at[c] = "reading" => checked[c] <= file[c] /\ file[c] <= data[FileOf[src[c]]]
      BY <2>2 DEF PartsInv, CurrentPart
    <3>2. PartChecked(src[c], checked[c])'
      BY <3>1, <2>2 DEF PartChecked
    <3>3. FileOf[src[c]] \in Files /\ checked[c] \in Nat /\ file[c] \in Nat
      BY <1>1, <1>3, <2>2
    <3>4. checked'[c] <= data'[FileOf[src'[c]]]
      BY <1>3, <2>2, <3>1, <3>3
    <3>5. ASSUME NEW i \in DOMAIN got'[c], FileOf[got'[c][i].source] = FileOf[src'[c]]
          PROVE  got'[c][i].file <= checked'[c]
      <4>1. got'[c] = got[c] /\ i \in DOMAIN got[c]
        OBVIOUS
      <4>2. QED
        BY <2>2, <3>1, <3>5, <4>1
    <3>6. at'[c] = "reading" => checked'[c] <= file'[c] /\ file'[c] <= data'[FileOf[src'[c]]]
      BY <1>3, <2>2, <3>1, <3>3
    <3>7. QED
      BY <3>2, <3>4, <3>5, <3>6
  <2>3. QED
    BY <2>1, <2>2
<1>8. PartsServed'
  BY DEF PartsInv, PartsServed
<1>9. QED
  BY <1>5, <1>6, <1>7, <1>8 DEF PartsInv

\* Nor does one after which no part is left.
LEMMA NoPartsLeft ==
  ASSUME \A c \in Streams : got'[c] = <<>> /\ at'[c] \in {"idle", "panicked"}
  PROVE  PartsInv'
BY DEF PartsInv, PartsChecked, PartsInOrder, CurrentPart, PartsServed, Streaming

\* A check compares with the time of the source, which is the present version of
\* the file: nothing that was opened before is newer.
LEMMA CheckPartStep ==
  ASSUME ServerTypeOK, IndexInv, PartsInv, NEW c \in Streams, CheckPart(c)
  PROVE  PartsInv'
<1> USE SourcesAssumption
<1> DEFINE s == NextSource(c)
<1>1. /\ s \in Sources /\ FileOf[s] \in Files /\ data[FileOf[s]] \in Nat
      /\ Check(c, s) /\ UNCHANGED clientVars
  BY NextSourceIsSource DEF CheckPart, ServerTypeOK, TypeOK
<1>2. UNCHANGED <<data, phase, published, modified, file, got>>
  BY <1>1 DEF Check, fsVars, scanVars, sourceVars, clientVars
<1>3. /\ DatasetOf[s] \in published /\ data[FileOf[s]] = modified[s]
      /\ at'[c] = "checked" /\ src'[c] = s /\ checked'[c] = data[FileOf[s]]
      /\ \A d \in Streams : d # c =>
            at'[d] = at[d] /\ src'[d] = src[d] /\ checked'[d] = checked[d]
  BY <1>1 DEF Check, ServerTypeOK, TypeOK
<1> HIDE DEF s
<1>4. PartsChecked' /\ PartsInOrder' /\ PartsServed'
  BY <1>2 DEF PartsInv, PartsChecked, PartsInOrder, PartsServed, PartChecked
<1>5. \A t \in Sources : DatasetOf[t] \in published /\ FileOf[t] = FileOf[s] =>
         modified[t] <= data[FileOf[s]]
  BY DEF IndexInv, ScanOrder, Versions
<1>6. \A i \in DOMAIN got[c] :
         FileOf[got[c][i].source] = FileOf[s] => got[c][i].file <= data[FileOf[s]]
  BY DEF PartsInv, PartsChecked
<1>7. CurrentPart'
  <2> SUFFICES ASSUME NEW d \in Streams PROVE
        /\ Streaming(d)' =>
              /\ PartChecked(src[d], checked[d])'
              /\ checked'[d] <= data'[FileOf[src'[d]]]
              /\ \A i \in DOMAIN got'[d] :
                    FileOf[got'[d][i].source] = FileOf[src'[d]] =>
                        got'[d][i].file <= checked'[d]
        /\ at'[d] = "reading" =>
              checked'[d] <= file'[d] /\ file'[d] <= data'[FileOf[src'[d]]]
    BY DEF CurrentPart, PartChecked
  <2>1. CASE d = c
    BY <1>1, <1>2, <1>3, <1>5, <1>6, <2>1 DEF PartChecked
  <2>2. CASE d # c
    BY <1>2, <1>3, <2>2 DEF PartsInv, CurrentPart, Streaming, PartChecked
  <2>3. QED
    BY <2>1, <2>2
<1>8. QED
  BY <1>4, <1>7 DEF PartsInv

\* What is opened is the present version.
LEMMA OpenPartStep ==
  ASSUME ServerTypeOK, PartsInv, NEW c \in Streams, OpenPart(c)
  PROVE  PartsInv'
<1> USE SourcesAssumption
<1>1. UNCHANGED <<data, phase, published, modified, src, checked, got>>
  BY DEF OpenPart, OpenStreamer, fsVars, scanVars, sourceVars, clientVars
<1>2. /\ at[c] = "indexed" /\ at'[c] = "reading" /\ file'[c] = data[FileOf[src[c]]]
      /\ \A d \in Streams : d # c => at'[d] = at[d] /\ file'[d] = file[d]
  BY DEF OpenPart, OpenStreamer, ServerTypeOK, TypeOK
<1>3. src[c] \in Sources /\ data[FileOf[src[c]]] \in Nat
  BY <1>2 DEF ServerTypeOK, TypeOK
<1>4. PartsChecked' /\ PartsInOrder' /\ PartsServed'
  BY <1>1 DEF PartsInv, PartsChecked, PartsInOrder, PartsServed, PartChecked
<1>5. CurrentPart'
  BY <1>1, <1>2, <1>3 DEF PartsInv, CurrentPart, Streaming, PartChecked
<1>6. QED
  BY <1>4, <1>5 DEF PartsInv

\* A part that is finished joins the others.
LEMMA FinishPartStep ==
  ASSUME ServerTypeOK, IndexInv, PartsInv, NEW c \in Streams, FinishPart(c)
  PROVE  PartsInv'
<1> DEFINE e == [source |-> src[c], checked |-> checked[c], file |-> file[c]]
<1> DEFINE Part == [source : Sources, checked : Nat, file : Nat]
<1> DEFINE n == Len(got[c]) + 1
<1>1. /\ UNCHANGED <<data, phase, published, modified>>
      /\ at[c] = "reading" /\ phase = "serving"
  BY DEF FinishPart, EndStream, fsVars, scanVars, sourceVars, IndexInv, StreamsChecked
<1>2. /\ got \in [Streams -> Seq(Part)] /\ got[c] \in Seq(Part) /\ e \in Part
      /\ Len(got[c]) \in Nat
  <2>1. src[c] \in Sources /\ checked[c] \in Nat /\ file[c] \in Nat
    BY <1>1 DEF ServerTypeOK, TypeOK
  <2>2. e \in Part
    BY <2>1
  <2>3. got \in [Streams -> Seq(Part)]
    BY DEF ServerTypeOK
  <2> HIDE DEF Part, e
  <2>4. got[c] \in Seq(Part)
    BY <2>3
  <2>5. QED
    BY <2>2, <2>3, <2>4
<1>3. got'[c] = Append(got[c], e) /\ \A d \in Streams : d # c => got'[d] = got[d]
  <2> HIDE DEF Part
  <2> QED BY <1>2 DEF FinishPart, Kept
<1>4. /\ at'[c] = "idle"
      /\ \A d \in Streams : d # c =>
            at'[d] = at[d] /\ src'[d] = src[d] /\ checked'[d] = checked[d] /\ file'[d] = file[d]
  BY DEF FinishPart, EndStream, ServerTypeOK, TypeOK
<1>5. /\ \A i \in DOMAIN got[c] : got'[c][i] = got[c][i] /\ i \in Nat /\ i < n
      /\ got'[c][n] = e
      /\ DOMAIN got'[c] = DOMAIN got[c] \cup {n}
  <2>1. /\ \A i \in DOMAIN got[c] : Append(got[c], e)[i] = got[c][i]
        /\ Append(got[c], e)[n] = e
        /\ DOMAIN Append(got[c], e) = DOMAIN got[c] \cup {n}
    <3> HIDE DEF Part, e
    <3> QED BY <1>2, AppendTyped
  <2>2. \A i \in DOMAIN got[c] : i \in Nat /\ i < n
    <3> HIDE DEF Part
    <3> QED BY <1>2
  <2>3. QED
    BY <1>3, <2>1, <2>2
<1>6. /\ PartChecked(e.source, e.checked)
      /\ e.checked <= e.file /\ e.file <= data[FileOf[e.source]]
      /\ \A i \in DOMAIN got[c] :
            FileOf[got[c][i].source] = FileOf[e.source] => got[c][i].file <= e.checked
  BY <1>1 DEF PartsInv, CurrentPart, Streaming
<1> HIDE DEF e, n
<1>7. PartsChecked'
  <2> SUFFICES ASSUME NEW d \in Streams, NEW i \in DOMAIN got'[d]
               PROVE  /\ PartChecked(got[d][i].source, got[d][i].checked)'
                      /\ got'[d][i].checked <= got'[d][i].file
                      /\ got'[d][i].file <= data'[FileOf[got'[d][i].source]]
    BY DEF PartsChecked, PartChecked
  <2>1. CASE d = c /\ i = n
    BY <1>1, <1>5, <1>6, <2>1 DEF PartChecked
  <2>2. CASE d # c \/ i # n
    <3>1. i \in DOMAIN got[d] /\ got'[d][i] = got[d][i]
      BY <1>3, <1>5, <2>2
    <3>2. /\ PartChecked(got[d][i].source, got[d][i].checked)
          /\ got[d][i].checked <= got[d][i].file
          /\ got[d][i].file <= data[FileOf[got[d][i].source]]
      BY <3>1 DEF PartsInv, PartsChecked
    <3>3. QED
      BY <1>1, <3>1, <3>2 DEF PartChecked
  <2>3. QED
    BY <2>1, <2>2
<1>8. PartsInOrder'
  <2> SUFFICES ASSUME NEW d \in Streams, NEW i \in DOMAIN got'[d], NEW j \in DOMAIN got'[d],
                      i < j, FileOf[got'[d][i].source] = FileOf[got'[d][j].source]
               PROVE  got'[d][i].file <= got'[d][j].checked
    BY DEF PartsInOrder
  <2>1. CASE d # c \/ (d = c /\ i # n /\ j # n)
    <3>1. /\ i \in DOMAIN got[d] /\ got'[d][i] = got[d][i]
          /\ j \in DOMAIN got[d] /\ got'[d][j] = got[d][j]
      BY <1>3, <1>5, <2>1
    <3>2. QED
      BY <3>1 DEF PartsInv, PartsInOrder
  <2>2. CASE d = c /\ i # n /\ j = n
    BY <1>5, <1>6, <2>2
  <2>3. CASE d = c /\ i = n
    <3>1. n \in Nat
      BY <1>2 DEF n
    <3>2. j \in Nat /\ j <= n
      BY <1>5, <2>3, <3>1
    <3>3. QED
      BY <2>3, <3>1, <3>2
  <2>4. QED
    BY <2>1, <2>2, <2>3
<1>9. CurrentPart'
  BY <1>1, <1>3, <1>4 DEF PartsInv, CurrentPart, Streaming, PartChecked
<1>10. PartsServed'
  BY <1>1 DEF PartsServed
<1>11. QED
  BY <1>7, <1>8, <1>9, <1>10 DEF PartsInv

LEMMA PartsStep ==
  ASSUME ServerTypeOK, ServerTypeOK', IndexInv, PartsInv, [ServerNext]_allVars
  PROVE  PartsInv'
<1>1. TypeOK /\ data \in [Files -> Nat] /\ data' \in [Files -> Nat]
  BY DEF ServerTypeOK, TypeOK
<1>2. \A c \in Streams : at[c] \in {"idle", "panicked"} \/ Streaming(c)
  BY <1>1 DEF TypeOK, StreamStates, Streaming
<1>3. CASE Restarted
  BY <1>3, NoPartsLeft DEF Restarted, Restart
<1>4. CASE phase # "serving" /\ ~Restarted
  <2>1. \A c \in Streams : got[c] = <<>> /\ at[c] = "idle"
    BY <1>1, <1>4 DEF PartsInv, PartsServed, IndexInv, StreamsChecked
  <2>2. UNCHANGED at
    <3>1. ASSUME NEW c \in Streams, DataStep(c) PROVE UNCHANGED at
      BY <1>4, <2>1, <3>1 DEF DataStep, CheckPart, Check, FetchPart,
         FetchIndex, OpenPart, OpenStreamer, FinishPart, BreakPart, EndStream,
         FinishResponse, vars, streamVars
    <3>2. ASSUME Background PROVE UNCHANGED at
      BY <3>2 DEF Background, Scan, BeginDataset, PublishDataset, DropDataset,
         DescribePanics, Serve, Stat, OpenFile, CheckKey, InsertIndex, OpenFails, Flush, Replace, Remove,
         streamVars
    <3>3. QED
      BY <1>4, <3>1, <3>2 DEF ServerNext, Ask, RawLength, RawStep, RawOpen, RawDone,
         vars, streamVars, allVars
  <2>3. \A c \in Streams : got'[c] = <<>>
    <3>1. ASSUME NEW c \in Streams, DataStep(c) PROVE UNCHANGED got
      BY <1>4, <2>1, <3>1 DEF DataStep, CheckPart, Check, FetchPart,
         FetchIndex, OpenPart, OpenStreamer, FinishPart, BreakPart, EndStream,
         FinishResponse, clientVars
    <3>2. ASSUME NEW c \in Streams, RawStep(c) PROVE UNCHANGED got
      BY <3>2 DEF RawStep, RawOpen, RawDone
    <3>3. ASSUME NEW c \in Streams, (\E d \in Datasets : Ask(c, d)) \/ (\E s \in Sources : RawLength(c, s))
          PROVE  FALSE
      BY <1>4, <3>3 DEF Ask, RawLength, Asks
    <3>4. CASE Background \/ UNCHANGED allVars
      BY <2>1, <3>4 DEF Background, allVars, clientVars
    <3>5. QED
      BY <1>4, <2>1, <3>1, <3>2, <3>3, <3>4 DEF ServerNext
  <2>4. QED
    BY <2>1, <2>2, <2>3, NoPartsLeft
<1>5. CASE phase = "serving" /\ ~Restarted
  <2>1. ASSUME UNCHANGED <<data, phase, published, modified, streamVars>>,
               \A c \in Streams : got'[c] = got[c] \/ got'[c] = <<>>
        PROVE  PartsInv'
    BY <1>1, <1>2, <1>5, <2>1, PartsKept DEF streamVars
  <2>2. ASSUME NEW c \in Streams, DataStep(c) PROVE PartsInv'
    <3>1. CASE CheckPart(c)
      BY <3>1, CheckPartStep
    <3>2. CASE OpenPart(c)
      BY <3>2, OpenPartStep
    <3>3. CASE FinishPart(c)
      BY <3>3, FinishPartStep
    <3>4. CASE FinishResponse(c)
      BY <2>1, <3>4 DEF FinishResponse, vars, fsVars, scanVars, sourceVars
    <3>5. CASE FetchPart(c) \/ BreakPart(c)
      <4>1. UNCHANGED <<data, phase, published, modified, got>>
        BY <3>5 DEF FetchPart, FetchIndex, BreakPart, EndStream, vars, fsVars,
           scanVars, sourceVars, clientVars
      <4>2. \A d \in Streams :
               \/ at'[d] \in {"idle", "panicked"}
               \/ /\ Streaming(d) /\ src'[d] = src[d] /\ checked'[d] = checked[d]
                  /\ at'[d] = "reading" => at[d] = "reading" /\ file'[d] = file[d]
        BY <1>1, <1>2, <3>5 DEF FetchPart, FetchIndex, BreakPart, EndStream, Streaming,
           TypeOK, vars, streamVars
      <4>3. QED
        BY <1>1, <1>5, <4>1, <4>2, PartsKept
    <3>6. QED
      BY <2>2, <3>1, <3>2, <3>3, <3>4, <3>5 DEF DataStep
  <2>3. ASSUME NEW c \in Streams, RawStep(c) PROVE PartsInv'
    BY <2>1, <2>3 DEF RawStep, RawOpen, RawDone, vars, fsVars, scanVars, sourceVars
  <2>4. ASSUME NEW c \in Streams, (\E d \in Datasets : Ask(c, d)) \/ (\E s \in Sources : RawLength(c, s))
        PROVE  PartsInv'
    <3>1. UNCHANGED vars /\ got' = [got EXCEPT ![c] = <<>>]
      BY <2>4 DEF Ask, RawLength
    <3>2. \A d \in Streams : got'[d] = got[d] \/ got'[d] = <<>>
      BY <3>1 DEF ServerTypeOK
    <3>3. QED
      BY <2>1, <3>1, <3>2 DEF vars, fsVars, scanVars, sourceVars
  <2>5. CASE Background
    <3>1. UNCHANGED got
      BY <2>5 DEF Background, clientVars
    <3>2. QED
      BY <1>1, <1>2, <1>5, <2>5, <3>1, ServingStep, PartsKept DEF streamVars
  <2>6. CASE UNCHANGED allVars
    BY <2>1, <2>6 DEF allVars, vars, fsVars, scanVars, sourceVars, clientVars
  <2>7. QED
    BY <1>5, <2>2, <2>3, <2>4, <2>5, <2>6 DEF ServerNext
<1>6. QED
  BY <1>3, <1>4, <1>5

\* The parts that were read, and the one that is being read, bear the versions
\* of one file in the order of the checks and opens.
THEOREM PartsInvariant == ServerSpec => []PartsInv
<1>1. ServerInit => PartsInv
  BY DEF ServerInit, Init, PartsInv, PartsChecked, PartsInOrder, CurrentPart,
     PartsServed, Streaming
<1>2. ServerTypeOK /\ ServerTypeOK' /\ IndexInv /\ PartsInv /\ [ServerNext]_allVars
        => PartsInv'
  BY PartsStep
<1>3. ServerSpec => []IndexInv
  BY ServerImplementsSource, IndexInvariant, PTL
<1>4. QED
  BY <1>1, <1>2, <1>3, ServerTypeCorrect, PTL DEF ServerSpec

\* In a response, all parts of one file but the last were read from exactly the
\* version that was checked, the same for all, however the file is replaced
\* between the checks and the opens: the later check vouches for the earlier
\* parts.
THEOREM ResponseParts == ServerSpec => []PartsAgree
<1>1. ASSUME ServerTypeOK, PartsInv PROVE PartsAgree
  <2> SUFFICES ASSUME NEW c \in Streams, NEW i \in DOMAIN got[c], NEW j \in DOMAIN got[c],
                      i < j, FileOf[got[c][i].source] = FileOf[got[c][j].source]
               PROVE  /\ got[c][i].file = got[c][i].checked
                      /\ got[c][i].checked = got[c][j].checked
    BY DEF PartsAgree
  <2> DEFINE p == got[c][i]
  <2> DEFINE q == got[c][j]
  <2>1. /\ p.source \in Sources /\ p.checked \in Nat /\ p.file \in Nat
        /\ q.source \in Sources /\ q.checked \in Nat /\ q.file \in Nat
    <3> DEFINE Part == [source : Sources, checked : Nat, file : Nat]
    <3>1. got[c] \in Seq(Part)
      BY <1>1 DEF ServerTypeOK
    <3> HIDE DEF Part
    <3>2. got[c][i] \in Part /\ got[c][j] \in Part
      BY <3>1, ElementTyped
    <3>3. QED
      BY <3>2 DEF Part
  <2>2. PartChecked(p.source, p.checked) /\ PartChecked(q.source, q.checked)
        /\ p.checked <= p.file
    BY <1>1 DEF PartsInv, PartsChecked
  <2>3. p.file <= q.checked
    BY <1>1 DEF PartsInv, PartsInOrder
  <2>4. q.checked <= p.checked
    <3>1. q.checked = modified[q.source] /\ DatasetOf[q.source] \in published
      BY <2>2 DEF PartChecked
    <3>2. QED
      BY <2>1, <2>2, <3>1 DEF PartChecked
  <2> HIDE DEF p, q
  <2>5. p.file = p.checked /\ p.checked = q.checked
    BY <2>1, <2>2, <2>3, <2>4
  <2>6. QED
    BY <2>5 DEF p, q
<1>2. QED
  BY <1>1, ServerTypeCorrect, PartsInvariant, PTL
=============================================================================
