------------------------- MODULE NcmlDatasetProofs -------------------------
(***************************************************************************)
(* Proofs about NcmlDataset, for any files, documents and contents, and    *)
(* whatever indexes were there before.  The first part is about the        *)
(* opening, and the moments at which it looks at the disk (OpenInv), the   *)
(* second about where in the cache and in the aggregate the rows of each   *)
(* member lie, and what the checks of a request vouch for (ServeInv).      *)
(* Offsets are sums over the members; what is to know of them is in        *)
(* SumsProofs.                                                             *)
(***************************************************************************)
EXTENDS NcmlDataset, SumsProofs, FiniteSetTheorems

USE DocumentsAssumption

\* What a step of each kind leaves alone.
LEMMA Untouched ==
  /\ Serving => UNCHANGED <<diskVars, openVars>>
  /\ Opening => UNCHANGED <<diskVars, requestVars>> /\ stage # "open"
  /\ ReplaceDocument => UNCHANGED <<ver, openVars, requestVars>>
<1> USE DEF diskVars, openVars, requestVars
<1>1. Serving => UNCHANGED <<diskVars, openVars>>
  BY DEF Serving, Request, CheckMember, OpenStreamer, SendRow, SendCoordinates, AskOther,
         SendOther, Break
<1>2. Opening => UNCHANGED <<diskVars, requestVars>> /\ stage # "open"
  BY DEF Opening, StatDocument, ReadDocument, StatMember, OpenMember, CheckKey, InsertIndex,
         OpenFails, SortMembers, BuildDas, BuildDds, ReadCoordinates, Open, Stages
<1>3. ReplaceDocument => UNCHANGED <<ver, openVars, requestVars>>
  BY DEF ReplaceDocument
<1> QED BY <1>1, <1>2, <1>3

\* What StateTypes says of a member.
LEMMA MemberTyped ==
  ASSUME StateTypes, NEW k \in 1..Len(listing)
  PROVE  /\ listing[k] \in Files /\ ver[listing[k]] \in Nat /\ IndexOf(k) \in Nat
         /\ members[k] \in Members
         /\ members[k].modified \in Nat /\ members[k].opened \in Nat
<1>1. listing \in Seq(Files) /\ members \in [1..Len(listing) -> Members]
  BY DEF StateTypes
<1>2. listing[k] \in Files /\ members[k] \in Members
  BY <1>1
<1>3. ver[listing[k]] \in Nat /\ IndexOf(k) \in Nat
  BY <1>2 DEF StateTypes, IndexOf
<1>4. members[k].modified \in Nat /\ members[k].opened \in Nat
  BY <1>2 DEF Members
<1> QED BY <1>2, <1>3, <1>4

\* No version of a file comes back.
LEMMA FilesAdvance ==
  StateTypes /\ [Next]_vars => \A f \in Files : ver'[f] \in Nat /\ ver[f] <= ver'[f]
<1> SUFFICES ASSUME StateTypes, [Next]_vars
             PROVE  \A f \in Files : ver'[f] \in Nat /\ ver[f] <= ver'[f]
  OBVIOUS
<1>0. ver \in [Files -> Nat]
  BY DEF StateTypes
<1>1. CASE ver' = ver
  BY <1>0, <1>1
<1>2. ASSUME NEW f \in Files, ReplaceFile(f)
      PROVE  \A g \in Files : ver'[g] \in Nat /\ ver[g] <= ver'[g]
  BY <1>0, <1>2 DEF ReplaceFile
<1> QED BY <1>1, <1>2, Untouched DEF Next, vars, diskVars

LEMMA TypesStep == StateTypes /\ [Next]_vars => StateTypes'
<1> SUFFICES ASSUME StateTypes, [Next]_vars PROVE StateTypes'
  OBVIOUS
<1> USE DEF StateTypes, diskVars, openVars, describedVars, cacheVars
<1>1. CASE StatDocument
  BY <1>1 DEF StatDocument, Stages
<1>2. CASE ReadDocument
  <2>1. CASE DocumentAccepted(Documents[docver])
    <3>1. listing' \in Seq(Files)
      BY <1>2, <2>1 DEF ReadDocument
    <3>2. members' \in [1..Len(listing') -> Members]
      BY <1>2, <2>1 DEF ReadDocument, Members
    <3> QED BY <1>2, <2>1, <3>1, <3>2 DEF ReadDocument, Stages
  <2>2. CASE ~DocumentAccepted(Documents[docver])
    BY <1>2, <2>2 DEF ReadDocument, Stages
  <2> QED BY <2>1, <2>2
<1>3. ASSUME NEW k \in 1..Len(listing),
             StatMember(k) \/ OpenMember(k) \/ CheckKey(k) \/ InsertIndex(k)
      PROVE  StateTypes'
  <2>1. /\ listing[k] \in Files /\ ver[listing[k]] \in Nat
        /\ members[k] \in Members /\ members[k].opened \in Nat
    BY MemberTyped
  <2>2. CASE StatMember(k)
    BY <2>1, <2>2 DEF StatMember, Members
  <2>3. CASE OpenMember(k)
    BY <2>1, <2>3 DEF OpenMember, Members
  <2>4. CASE CheckKey(k)
    BY <2>1, <2>4 DEF CheckKey, Members
  <2>5. CASE InsertIndex(k)
    BY <2>1, <2>5 DEF InsertIndex, Members
  <2> QED BY <1>3, <2>2, <2>3, <2>4, <2>5
<1>4. CASE OpenFails
  BY <1>4 DEF OpenFails, Stages
<1>5. CASE SortMembers \/ BuildDas \/ BuildDds \/ ReadCoordinates \/ Open
  BY <1>5 DEF SortMembers, BuildDas, BuildDds, ReadCoordinates, Open, Stages
<1>6. CASE Serving
  BY <1>6, Untouched
<1>7. CASE ReplaceDocument
  BY <1>7 DEF ReplaceDocument
<1>8. ASSUME NEW f \in Files, ReplaceFile(f) PROVE StateTypes'
  BY <1>8 DEF ReplaceFile
<1>9. CASE UNCHANGED vars
  BY <1>9 DEF vars
<1> QED BY <1>1, <1>2, <1>3, <1>4, <1>5, <1>6, <1>7, <1>8, <1>9 DEF Next, Opening

LEMMA DocumentStep == StateTypes /\ DocumentKept /\ [Next]_vars => DocumentKept'
<1> SUFFICES ASSUME StateTypes, DocumentKept, [Next]_vars PROVE DocumentKept'
  OBVIOUS
<1> USE DEF StateTypes, DocumentKept, DocumentInForce, Sorted, diskVars, openVars, requestVars
<1>1. CASE StatDocument
  BY <1>1 DEF StatDocument
<1>2. CASE ReadDocument
  BY <1>2 DEF ReadDocument
<1>3. ASSUME NEW k \in 1..Len(listing),
             StatMember(k) \/ OpenMember(k) \/ CheckKey(k) \/ InsertIndex(k)
      PROVE  DocumentKept'
  BY <1>3 DEF StatMember, OpenMember, CheckKey, InsertIndex
<1>4. CASE OpenFails
  BY <1>4 DEF OpenFails
<1>5. CASE SortMembers
  BY <1>5 DEF SortMembers
<1>6. CASE BuildDas \/ BuildDds \/ ReadCoordinates \/ Open
  BY <1>6 DEF BuildDas, BuildDds, ReadCoordinates, Open
\* A check succeeds only while the document on disk is the one that was read.
<1>7. CASE Serving
  <2>1. ASSUME NEW f, NEW n, Request(f, n) PROVE DocumentKept'
    BY <2>1 DEF Request, DocumentUnchanged
  <2>2. CASE CheckMember \/ OpenStreamer \/ SendRow \/ SendOther \/ Break
    BY <2>2 DEF CheckMember, OpenStreamer, SendRow, SendOther, Break, RowsRemain
  <2>3. CASE SendCoordinates
    BY <2>3 DEF SendCoordinates, DocumentUnchanged
  <2>4. CASE AskOther
    BY <2>4 DEF AskOther, DocumentUnchanged
  <2> QED BY <1>7, <2>1, <2>2, <2>3, <2>4 DEF Serving
\* A new document is later than the time that was taken.
<1>8. CASE ReplaceDocument
  BY <1>8 DEF ReplaceDocument
<1>9. ASSUME NEW f \in Files, ReplaceFile(f) PROVE DocumentKept'
  BY <1>9 DEF ReplaceFile
<1>10. CASE UNCHANGED vars
  BY <1>10 DEF vars
<1> QED
  BY <1>1, <1>2, <1>3, <1>4, <1>5, <1>6, <1>7, <1>8, <1>9, <1>10 DEF Next, Opening

LEMMA VersionsStep == OpenInv /\ [Next]_vars => VersionsKept'
<1> SUFFICES ASSUME OpenInv, [Next]_vars PROVE VersionsKept'
  OBVIOUS
<1>0. /\ StateTypes /\ VersionsKept
      /\ \A k \in 1..Len(listing) :
            members[k].st # "idle" => members[k].modified <= ver[listing[k]]
  BY DEF OpenInv, MembersInOrder, Since
<1>t. /\ listing \in Seq(Files) /\ members \in [1..Len(listing) -> Members]
      /\ ver \in [Files -> Nat] /\ index \in [Files -> Nat]
  BY <1>0 DEF StateTypes
<1> USE DEF diskVars, openVars
\* Versions grow, and a step that changes nothing else keeps all this.
<1>u. ASSUME UNCHANGED <<index, listing, members>>,
             \A f \in Files : ver'[f] \in 1..Len(Content[f])
      PROVE  VersionsKept'
  <2>1. \A f \in Files : ver'[f] \in Nat /\ ver[f] <= ver'[f]
    BY <1>0, FilesAdvance
  <2>2. \A f \in Files : ver'[f] \in 1..Len(Content[f]) /\ index'[f] <= ver'[f]
    <3>1. \A f \in Files : index[f] <= ver[f]
      BY <1>0 DEF VersionsKept
    <3> QED BY <1>t, <1>u, <2>1, <3>1
  <2>3. ASSUME NEW k \in 1..Len(listing), members[k].st \in {"opened", "indexing", "loaded"}
        PROVE  /\ members[k].opened \in 1..ver'[listing[k]]
               /\ members[k].modified <= members[k].opened
               /\ Opened(k) # <<>>
    <3>1. /\ members[k].opened \in 1..ver[listing[k]]
          /\ members[k].modified <= members[k].opened
          /\ Opened(k) # <<>>
      BY <1>0, <2>3 DEF VersionsKept
    <3>2. ver[listing[k]] \in Nat /\ ver'[listing[k]] \in Nat /\ ver[listing[k]] <= ver'[listing[k]]
      BY <1>0, <2>1, MemberTyped
    <3> QED BY <3>1, <3>2
  <2>4. ASSUME NEW k \in 1..Len(listing), members[k].st = "loaded" PROVE IndexOf(k) # 0
    BY <1>0, <2>4 DEF VersionsKept
  <2> QED BY <1>u, <2>2, <2>3, <2>4 DEF VersionsKept, Opened, IndexOf
<1>v. ASSUME UNCHANGED <<ver, index, listing, members>> PROVE VersionsKept'
  BY <1>0, <1>v DEF VersionsKept, Opened, IndexOf
<1>1. CASE \/ StatDocument \/ OpenFails \/ SortMembers
           \/ BuildDas \/ BuildDds \/ ReadCoordinates \/ Open
  BY <1>1, <1>v DEF StatDocument, OpenFails, SortMembers, BuildDas, BuildDds, ReadCoordinates, Open
<1>2. CASE ReadDocument
  <2>1. CASE DocumentAccepted(Documents[docver])
    BY <1>0, <1>2, <2>1 DEF ReadDocument, VersionsKept
  <2>2. CASE ~DocumentAccepted(Documents[docver])
    BY <1>2, <2>2, <1>v DEF ReadDocument
  <2> QED BY <2>1, <2>2
<1>3. ASSUME NEW k \in 1..Len(listing), StatMember(k) PROVE VersionsKept'
  <2>1. /\ UNCHANGED <<ver, index, listing>>
        /\ members'[k].st = "statted"
        /\ \A j \in 1..Len(listing) : j # k => members'[j] = members[j]
    BY <1>t, <1>3 DEF StatMember, Members
  <2> QED BY <1>0, <2>1 DEF VersionsKept, Opened, IndexOf
<1>4. ASSUME NEW k \in 1..Len(listing), OpenMember(k) PROVE VersionsKept'
  <2>1. /\ UNCHANGED <<ver, index, listing>>
        /\ members'[k].st = "opened"
        /\ members'[k].opened = ver[listing[k]] /\ members'[k].modified = members[k].modified
        /\ \A j \in 1..Len(listing) : j # k => members'[j] = members[j]
    BY <1>t, <1>4 DEF OpenMember, Members
  <2>2. /\ members'[k].opened \in 1..ver[listing[k]]
        /\ members'[k].modified <= members'[k].opened
        /\ Content[listing[k]][members'[k].opened] # <<>>
    <3>1. listing[k] \in Files /\ ver[listing[k]] \in Nat
      BY <1>0, MemberTyped
    <3>2. ver[listing[k]] \in 1..Len(Content[listing[k]])
      BY <1>0, <3>1 DEF VersionsKept
    <3>3. members[k].st = "statted" /\ Content[listing[k]][ver[listing[k]]] # <<>>
      BY <1>4 DEF OpenMember
    <3>4. members[k].modified <= ver[listing[k]]
      BY <1>0, <3>3
    <3> QED BY <2>1, <3>1, <3>2, <3>3, <3>4
  <2> QED BY <1>0, <2>1, <2>2 DEF VersionsKept, Opened, IndexOf
<1>5. ASSUME NEW k \in 1..Len(listing), CheckKey(k) PROVE VersionsKept'
  <2>1. /\ UNCHANGED <<ver, index, listing>> /\ members[k].st = "opened"
        /\ members'[k].opened = members[k].opened /\ members'[k].modified = members[k].modified
        /\ members'[k].st \in {"indexing", "loaded"}
        /\ members'[k].st = "loaded" => index[listing[k]] # 0
        /\ \A j \in 1..Len(listing) : j # k => members'[j] = members[j]
    BY <1>t, <1>5 DEF CheckKey, Members
  <2> QED BY <1>0, <2>1 DEF VersionsKept, Opened, IndexOf
\* What is inserted is a version that the file has had.
<1>6. ASSUME NEW k \in 1..Len(listing), InsertIndex(k) PROVE VersionsKept'
  <2>1. /\ UNCHANGED <<ver, listing>> /\ members[k].st = "indexing"
        /\ members'[k].opened = members[k].opened /\ members'[k].modified = members[k].modified
        /\ \A j \in 1..Len(listing) : j # k => members'[j] = members[j]
        /\ \A f \in Files : index'[f] = IF f = listing[k] THEN members[k].opened ELSE index[f]
    BY <1>t, <1>6 DEF InsertIndex, Members
  <2>2. listing[k] \in Files /\ members[k].opened \in 1..ver[listing[k]] /\ ver[listing[k]] \in Nat
    BY <1>0, <2>1, MemberTyped DEF VersionsKept
  <2>3. \A f \in Files : index'[f] <= ver'[f] /\ (index[f] # 0 => index'[f] # 0)
    <3>1. \A f \in Files : index[f] <= ver[f]
      BY <1>0 DEF VersionsKept
    <3> QED BY <2>1, <2>2, <3>1
  <2>4. index'[listing[k]] # 0
    BY <2>1, <2>2
  <2>5. \A j \in 1..Len(listing) : listing[j] \in Files
    BY <1>t
  <2>6. \A j \in 1..Len(listing) : members'[j].st = "loaded" => index'[listing[j]] # 0
    <3>1. ASSUME NEW j \in 1..Len(listing), j # k, members'[j].st = "loaded"
          PROVE  index'[listing[j]] # 0
      <4>1. IndexOf(j) # 0
        BY <1>0, <2>1, <3>1 DEF VersionsKept
      <4> QED BY <2>3, <2>5, <4>1 DEF IndexOf
    <3> QED BY <2>4, <3>1
  <2>7. ASSUME NEW j \in 1..Len(listing), members'[j].st \in {"opened", "indexing", "loaded"}
        PROVE  /\ members'[j].opened \in 1..ver[listing[j]]
               /\ members'[j].modified <= members'[j].opened
               /\ Content[listing[j]][members'[j].opened] # <<>>
    <3>1. /\ members[j].st \in {"opened", "indexing", "loaded"}
          /\ members'[j].opened = members[j].opened /\ members'[j].modified = members[j].modified
      BY <2>1, <2>7
    <3> QED BY <1>0, <3>1 DEF VersionsKept, Opened
  <2>8. \A f \in Files : ver'[f] \in 1..Len(Content[f])
    BY <1>0, <2>1 DEF VersionsKept
  <2> QED BY <2>1, <2>3, <2>6, <2>7, <2>8 DEF VersionsKept, Opened, IndexOf
<1>7. CASE Serving \/ ReplaceDocument \/ UNCHANGED vars
  BY <1>7, <1>v, Untouched DEF vars
<1>8. ASSUME NEW f \in Files, ReplaceFile(f) PROVE VersionsKept'
  <2>1. /\ ver[f] < Len(Content[f]) /\ ver' = [ver EXCEPT ![f] = @ + 1]
        /\ UNCHANGED <<index, listing, members>>
    BY <1>8 DEF ReplaceFile
  <2>2. \A g \in Files : ver[g] \in 1..Len(Content[g])
    BY <1>0 DEF VersionsKept
  <2>3. \A g \in Files : ver'[g] \in 1..Len(Content[g])
    BY <1>t, <2>1, <2>2
  <2> QED BY <1>u, <2>1, <2>3
<1> QED BY <1>1, <1>2, <1>3, <1>4, <1>5, <1>6, <1>7, <1>8 DEF Next, Opening

LEMMA OrderStep == OpenInv /\ [Next]_vars => OrderKept'
<1> SUFFICES ASSUME OpenInv, [Next]_vars PROVE OrderKept'
  OBVIOUS
<1>0. /\ listing \in Seq(Files) /\ members \in [1..Len(listing) -> Members]
      /\ stage \in Stages /\ OrderKept
  BY DEF OpenInv, StateTypes
<1> USE DEF OrderKept, Sorted, diskVars, openVars
<1>u. ASSUME UNCHANGED <<listing, members, order>>,
             stage' = stage \/ stage' = "failed" \/ (stage \in Sorted /\ stage' \in Sorted)
      PROVE  OrderKept'
  BY <1>0, <1>u
<1>1. CASE StatDocument
  BY <1>0, <1>1 DEF StatDocument
<1>2. CASE ReadDocument
  <2>1. CASE DocumentAccepted(Documents[docver])
    <3>1. order = <<>> /\ order' = order /\ stage' = "members"
      BY <1>0, <1>2, <2>1 DEF ReadDocument
    <3> QED BY <3>1
  <2>2. CASE ~DocumentAccepted(Documents[docver])
    BY <1>0, <1>2, <2>2, <1>u DEF ReadDocument
  <2> QED BY <2>1, <2>2
<1>3. ASSUME NEW k \in 1..Len(listing),
             StatMember(k) \/ OpenMember(k) \/ CheckKey(k) \/ InsertIndex(k)
      PROVE  OrderKept'
  BY <1>0, <1>3 DEF StatMember, OpenMember, CheckKey, InsertIndex
<1>4. CASE OpenFails
  BY <1>4, <1>u DEF OpenFails
<1>5. CASE SortMembers
  <2>1. /\ order' \in [1..Len(listing) -> 1..Len(listing)]
        /\ \A i, j \in 1..Len(listing) : order'[i] = order'[j] => i = j
    BY <1>5 DEF SortMembers
  <2>2. order' \in Seq(1..Len(listing)) /\ Len(order') = Len(listing)
    <3>1. Len(listing) \in Nat
      BY <1>0
    <3> HIDE DEF OrderKept
    <3> QED BY <2>1, <3>1
  <2>3. /\ listing # <<>> /\ stage' = "sorted" /\ UNCHANGED <<listing, members>>
        /\ \A k \in 1..Len(listing) : members[k].st = "loaded"
    BY <1>5 DEF SortMembers, HasFirst
  <2> QED BY <2>1, <2>2, <2>3
<1>6. CASE BuildDas \/ BuildDds \/ ReadCoordinates \/ Open
  BY <1>6, <1>u DEF BuildDas, BuildDds, ReadCoordinates, Open
<1>7. CASE Serving \/ ReplaceDocument \/ UNCHANGED vars
  BY <1>7, <1>u, Untouched DEF vars
<1>8. ASSUME NEW f \in Files, ReplaceFile(f) PROVE OrderKept'
  BY <1>8, <1>u DEF ReplaceFile
<1> QED BY <1>1, <1>2, <1>3, <1>4, <1>5, <1>6, <1>7, <1>8 DEF Next, Opening

\* The first member is one of those that are open.
LEMMA FirstIsOpen ==
  ASSUME StateTypes, OrderKept, stage \in Sorted
  PROVE  order[1] \in 1..Len(listing) /\ members[order[1]].st = "loaded"
<1>1. listing \in Seq(Files) /\ listing # <<>>
  BY DEF StateTypes, OrderKept
<1>2. order \in Seq(1..Len(listing)) /\ Len(order) \in Nat \ {0}
  BY <1>1 DEF OrderKept
<1>3. order[1] \in 1..Len(listing)
  BY <1>2
<1> QED BY <1>3 DEF OrderKept

\* What was read of a member since its time was taken stays so.
LEMMA SinceKept ==
  ASSUME StateTypes, [Next]_vars, UNCHANGED <<listing, members>>
  PROVE  \A k \in 1..Len(listing), v \in Nat :
            members[k].modified <= v /\ v <= ver[listing[k]] =>
               members'[k].modified <= v /\ v <= ver'[listing'[k]]
<1> SUFFICES ASSUME NEW k \in 1..Len(listing), NEW v \in Nat,
                    members[k].modified <= v, v <= ver[listing[k]]
             PROVE  members'[k].modified <= v /\ v <= ver'[listing'[k]]
  OBVIOUS
<1>1. listing[k] \in Files /\ ver[listing[k]] \in Nat
  BY MemberTyped
<1>2. ver'[listing[k]] \in Nat /\ ver[listing[k]] <= ver'[listing[k]]
  BY <1>1, FilesAdvance
<1> QED BY <1>1, <1>2

LEMMA MembersStep == OpenInv /\ [Next]_vars => MembersInOrder'
<1> SUFFICES ASSUME OpenInv, [Next]_vars PROVE MembersInOrder'
  OBVIOUS
<1>0. /\ StateTypes /\ OrderKept /\ MembersInOrder /\ stage \in Stages
      /\ listing \in Seq(Files) /\ members \in [1..Len(listing) -> Members]
  BY DEF OpenInv, StateTypes
<1> USE DEF diskVars, openVars, describedVars
<1>u. ASSUME UNCHANGED <<listing, members>>,
             \/ UNCHANGED <<stage, order, attributes, described>>
             \/ UNCHANGED <<attributes, described>> /\ stage' \notin Sorted \ {"sorted"}
             \/ /\ UNCHANGED <<order, attributes, described>>
                /\ stage = "described" /\ stage' = "open"
      PROVE  MembersInOrder'
  <2>1. /\ \A k \in 1..Len(listing) : members[k].st # "idle" => Since(k, ver[listing[k]])
        /\ attributes \in Nat /\ described \in Nat
        /\ stage \in Sorted \ {"sorted"} => Since(order[1], attributes)
        /\ stage \in {"described", "open"} =>
              Since(order[1], described) /\ attributes <= described
    BY <1>0 DEF MembersInOrder
  <2>2. \A k \in 1..Len(listing) : members[k].st # "idle" => Since(k, ver[listing[k]])'
    <3>1. ASSUME NEW k \in 1..Len(listing), members[k].st # "idle"
          PROVE  Since(k, ver[listing[k]])'
      <4>1. /\ listing[k] \in Files /\ members[k].modified \in Nat /\ ver[listing[k]] \in Nat
        BY <1>0, MemberTyped
      <4>2. ver'[listing[k]] \in Nat /\ ver[listing[k]] <= ver'[listing[k]]
        BY <1>0, <4>1, FilesAdvance
      <4>3. members[k].modified <= ver[listing[k]]
        BY <2>1, <3>1 DEF Since
      <4>4. members'[k].modified = members[k].modified /\ listing'[k] = listing[k]
        BY <1>u
      <4>5. members[k].modified <= ver'[listing[k]] /\ ver'[listing[k]] <= ver'[listing[k]]
        BY <4>1, <4>2, <4>3
      <4> QED BY <4>4, <4>5 DEF Since
    <3> QED BY <3>1
  <2>3. stage' \in Sorted \ {"sorted"} =>
          /\ stage \in Sorted \ {"sorted"} /\ UNCHANGED order
          /\ stage' \in {"described", "open"} => stage \in {"described", "open"}
    BY <1>u DEF Sorted
  <2>4. stage \in Sorted => order[1] \in 1..Len(listing)
    BY <1>0, FirstIsOpen
  <2>5. UNCHANGED <<attributes, described>>
    BY <1>u
  <2>6. stage' \in Sorted \ {"sorted"} => Since(order[1], attributes)'
    BY <1>0, <1>u, <2>1, <2>3, <2>4, <2>5, SinceKept DEF Since
  <2>7. stage' \in {"described", "open"} => Since(order[1], described)' /\ attributes' <= described'
    <3>1. stage' \in {"described", "open"} => stage' \in Sorted \ {"sorted"}
      BY DEF Sorted
    <3> QED BY <1>0, <1>u, <2>1, <2>3, <2>4, <2>5, <3>1, SinceKept DEF Since
  <2> QED BY <1>u, <2>1, <2>2, <2>5, <2>6, <2>7 DEF MembersInOrder
<1>1. CASE StatDocument
  BY <1>1, <1>u DEF StatDocument, Sorted
<1>2. CASE ReadDocument
  <2>1. CASE DocumentAccepted(Documents[docver])
    BY <1>0, <1>2, <2>1 DEF ReadDocument, MembersInOrder, Sorted
  <2>2. CASE ~DocumentAccepted(Documents[docver])
    BY <1>2, <2>2, <1>u DEF ReadDocument, Sorted
  <2> QED BY <2>1, <2>2
<1>3. ASSUME NEW k \in 1..Len(listing),
             StatMember(k) \/ OpenMember(k) \/ CheckKey(k) \/ InsertIndex(k)
      PROVE  MembersInOrder'
  <2>1. /\ UNCHANGED <<ver, listing, attributes, described>>
        /\ stage = "members" /\ stage' = "members"
        /\ \A j \in 1..Len(listing) : j # k => members'[j] = members[j]
        /\ \/ members'[k].modified = ver[listing[k]]
           \/ members'[k].modified = members[k].modified /\ members[k].st # "idle"
    BY <1>0, <1>3 DEF StatMember, OpenMember, CheckKey, InsertIndex, Members
  <2>2. ASSUME NEW j \in 1..Len(listing), members'[j].st # "idle"
        PROVE  Since(j, ver[listing[j]])'
    <3>1. ver[listing[j]] \in Nat
      BY <1>0, MemberTyped
    <3>2. members[j].st # "idle" => Since(j, ver[listing[j]])
      BY <1>0 DEF MembersInOrder
    <3> QED BY <2>1, <2>2, <3>1, <3>2 DEF Since
  <2> QED BY <1>0, <2>1, <2>2 DEF MembersInOrder, Sorted
<1>4. CASE OpenFails
  BY <1>4, <1>u DEF OpenFails, Sorted
<1>5. CASE SortMembers
  BY <1>5, <1>u DEF SortMembers, Sorted
<1>6. CASE BuildDas \/ BuildDds
  <2>1. order[1] \in 1..Len(listing) /\ members[order[1]].st # "idle"
    <3>1. stage \in Sorted
      BY <1>6 DEF BuildDas, BuildDds, Sorted
    <3> QED BY <1>0, <3>1, FirstIsOpen
  <2>2. ver[listing[order[1]]] \in Nat /\ Since(order[1], ver[listing[order[1]]])
    BY <1>0, <2>1, MemberTyped DEF MembersInOrder
  <2>3. CASE BuildDas
    BY <1>0, <2>2, <2>3 DEF BuildDas, MembersInOrder, Since, Sorted
  <2>4. CASE BuildDds
    <3>1. Since(order[1], attributes) /\ attributes \in Nat
      BY <1>0, <2>4 DEF BuildDds, MembersInOrder, Sorted
    <3> QED BY <1>0, <2>2, <2>4, <3>1 DEF BuildDds, MembersInOrder, Since, Sorted
  <2> QED BY <1>6, <2>3, <2>4
<1>7. CASE ReadCoordinates \/ Open
  BY <1>7, <1>u DEF ReadCoordinates, Open
<1>8. CASE Serving \/ ReplaceDocument \/ UNCHANGED vars
  BY <1>8, <1>u, Untouched DEF vars
<1>9. ASSUME NEW f \in Files, ReplaceFile(f) PROVE MembersInOrder'
  BY <1>9, <1>u DEF ReplaceFile
<1> QED BY <1>1, <1>2, <1>3, <1>4, <1>5, <1>6, <1>7, <1>8, <1>9 DEF Next, Opening

LEMMA InitOpenInv == Init => OpenInv
<1> SUFFICES ASSUME Init PROVE OpenInv
  OBVIOUS
<1>1. StateTypes
  BY DEF Init, StateTypes, Stages
<1>2. DocumentKept
  BY DEF Init, DocumentKept, DocumentInForce, Sorted
<1>3. VersionsKept
  <2>1. \A f \in Files : Len(Content[f]) \in Nat \ {0}
    BY ContentAssumption
  <2> QED BY <2>1 DEF Init, VersionsKept
<1>4. OrderKept
  BY DEF Init, OrderKept, Sorted
<1>5. MembersInOrder
  BY DEF Init, MembersInOrder, Sorted
<1> QED BY <1>1, <1>2, <1>3, <1>4, <1>5 DEF OpenInv

LEMMA OpenStep == OpenInv /\ [Next]_vars => OpenInv'
<1>1. OpenInv => StateTypes /\ DocumentKept
  BY DEF OpenInv
<1>2. OpenInv /\ [Next]_vars =>
        StateTypes' /\ DocumentKept' /\ VersionsKept' /\ OrderKept' /\ MembersInOrder'
  BY <1>1, TypesStep, DocumentStep, VersionsStep, OrderStep, MembersStep
<1> QED BY <1>2 DEF OpenInv

\* The inductive invariant of the opening: the times of the document and of the
\* members are taken before anything is read of them (NcmlDataset::open,
\* ncml/mod.rs:58-116), an open member has an index, of a version its file has had
\* (member.rs:40-50), and past the sort every member has its place.
THEOREM OpenInvariant == Spec => []OpenInv
<1> QED BY InitOpenInv, OpenStep, PTL DEF Spec

\* The document that a request finds unchanged (ncml/mod.rs:241) is the one the
\* members were taken from, whatever documents follow each other.
THEOREM DocumentHolds == Spec => []DocumentInForce
<1>1. OpenInv => DocumentInForce
  BY DEF OpenInv, DocumentKept
<1> QED BY <1>1, OpenInvariant, PTL

-----------------------------------------------------------------------------
(* Rows and coordinates.                                                    *)

\* Where the members of a sorted aggregate begin.
LEMMA Offsets ==
  OpenInv /\ stage \in Sorted =>
    /\ Len(order) \in Nat \ {0}
    /\ Lengths(order) \in Seq(Nat) /\ Len(Lengths(order)) = Len(order)
    /\ \A n \in 1..Len(order) :
          /\ order[n] \in 1..Len(listing)
          /\ Opened(order[n]) \in Seq(Nat \cup {NaN})
          /\ Offset(order, n) = Offset(order, n - 1) + Len(Opened(order[n]))
    /\ Offset(order, 0) = 0
    /\ \A n \in 0..Len(order) : Offset(order, n) \in Nat
<1> SUFFICES ASSUME OpenInv, stage \in Sorted
             PROVE  /\ Len(order) \in Nat \ {0}
                    /\ Lengths(order) \in Seq(Nat) /\ Len(Lengths(order)) = Len(order)
                    /\ \A n \in 1..Len(order) :
                          /\ order[n] \in 1..Len(listing)
                          /\ Opened(order[n]) \in Seq(Nat \cup {NaN})
                          /\ Offset(order, n) = Offset(order, n - 1) + Len(Opened(order[n]))
                    /\ Offset(order, 0) = 0
                    /\ \A n \in 0..Len(order) : Offset(order, n) \in Nat
  OBVIOUS
<1>0. VersionsKept /\ OrderKept
  BY DEF OpenInv
<1>1. /\ listing \in Seq(Files) /\ listing # <<>> /\ order \in Seq(1..Len(listing))
      /\ Len(order) = Len(listing)
  BY DEF OpenInv, StateTypes, OrderKept
<1>2. Len(order) \in Nat \ {0}
  BY <1>1
<1>3. ASSUME NEW k \in 1..Len(listing) PROVE Opened(k) \in Seq(Nat \cup {NaN})
  <2>1. listing[k] \in Files
    BY <1>1
  <2>2. members[k].opened \in 1..ver[listing[k]] /\ ver[listing[k]] \in 1..Len(Content[listing[k]])
    BY <1>0, <2>1 DEF VersionsKept, OrderKept
  <2>3. Content[listing[k]] \in Seq(Seq(Nat \cup {NaN}))
    BY <2>1, ContentAssumption
  <2>4. members[k].opened \in 1..Len(Content[listing[k]])
    BY <2>2, <2>3
  <2> QED BY <2>3, <2>4 DEF Opened
<1>4. \A n \in 1..Len(order) : order[n] \in 1..Len(listing)
  BY <1>1
<1>5. \A n \in 1..Len(order) :
        Opened(order[n]) \in Seq(Nat \cup {NaN}) /\ Len(Opened(order[n])) \in Nat
  BY <1>3, <1>4
<1>6. Lengths(order) \in Seq(Nat) /\ Len(Lengths(order)) = Len(order)
  BY <1>2, <1>5 DEF Lengths
<1>7. \A n \in 1..Len(order) : Lengths(order)[n] = Len(Opened(order[n]))
  BY DEF Lengths
<1>8. /\ Offset(order, 0) = 0
      /\ \A n \in 1..Len(order) : Offset(order, n) = Offset(order, n - 1) + Lengths(order)[n]
      /\ \A n \in 0..Len(order) : Offset(order, n) \in Nat
  BY <1>6, SumEquation DEF Offset
<1> QED BY <1>2, <1>4, <1>5, <1>6, <1>7, <1>8

\* The index of an open member is of a version of its file.
LEMMA IndexTyped ==
  ASSUME OpenInv, NEW k \in 1..Len(listing), members[k].st = "loaded"
  PROVE  /\ Indexed(k) \in Seq(Nat \cup {NaN})
         /\ IndexOf(k) \in Nat /\ IndexOf(k) <= ver[listing[k]]
         /\ members[k].opened \in Nat /\ members[k].opened <= ver[listing[k]]
         /\ members[k].modified \in Nat /\ members[k].modified <= members[k].opened
         /\ ver[listing[k]] \in Nat
<1>0. StateTypes /\ VersionsKept
  BY DEF OpenInv
<1>1. /\ listing[k] \in Files /\ ver[listing[k]] \in Nat /\ IndexOf(k) \in Nat
      /\ members[k].opened \in Nat /\ members[k].modified \in Nat
  BY <1>0, MemberTyped
<1>2. /\ IndexOf(k) # 0 /\ IndexOf(k) <= ver[listing[k]]
      /\ ver[listing[k]] \in 1..Len(Content[listing[k]])
      /\ members[k].opened \in 1..ver[listing[k]]
      /\ members[k].modified <= members[k].opened
  BY <1>0, <1>1 DEF VersionsKept, IndexOf
<1>3. Content[listing[k]] \in Seq(Seq(Nat \cup {NaN}))
  BY <1>1, ContentAssumption
<1>4. IndexOf(k) \in 1..Len(Content[listing[k]])
  BY <1>1, <1>2, <1>3
<1>5. Indexed(k) \in Seq(Nat \cup {NaN})
  BY <1>3, <1>4 DEF Indexed
<1> QED BY <1>1, <1>2, <1>5

\* What is defined from the members and their indexes changes with them only.
LEMMA Frozen ==
  UNCHANGED <<index, listing, members, order>> =>
    /\ \A k : Opened(k)' = Opened(k) /\ IndexOf(k)' = IndexOf(k)
    /\ \A n : Offset(order, n)' = Offset(order, n)
    /\ Total' = Total
    /\ IndexesFit' <=> IndexesFit
<1> SUFFICES ASSUME UNCHANGED <<index, listing, members, order>>
             PROVE  /\ \A k : Opened(k)' = Opened(k) /\ IndexOf(k)' = IndexOf(k)
                    /\ \A n : Offset(order, n)' = Offset(order, n)
                    /\ Total' = Total
                    /\ IndexesFit' <=> IndexesFit
  OBVIOUS
<1>1. \A k : Opened(k)' = Opened(k) /\ IndexOf(k)' = IndexOf(k) /\ Indexed(k)' = Indexed(k)
  BY DEF Opened, IndexOf, Indexed
<1>2. Lengths(order)' = Lengths(order)
  BY <1>1 DEF Lengths
<1>3. \A n : Offset(order, n)' = Offset(order, n)
  BY <1>2 DEF Offset
<1>4. Total' = Total
  BY <1>3 DEF Total
<1>5. IndexesFit' <=> IndexesFit
  BY <1>1 DEF IndexesFit
<1> QED BY <1>1, <1>3, <1>4, <1>5

\* What is read of the next member, if its index fits.
LEMMA PieceRead ==
  ASSUME OpenInv, stage \in Sorted, NEW n \in 1..Len(order)
  PROVE  /\ CoordinatesOf(order[n]) \in Seq(Nat \cup {NaN, Garbage})
         /\ IndexesFit =>
               /\ Len(CoordinatesOf(order[n])) = Len(Opened(order[n]))
               /\ CoordinatesOf(order[n]) = Opened(order[n]) \/ Spoilt(n)
<1> DEFINE k == order[n]
           V == Nat \cup {NaN}
           W == Nat \cup {NaN, Garbage}
<1>1. k \in 1..Len(listing) /\ members[k].st = "loaded" /\ Opened(k) \in Seq(V)
  BY Offsets DEF OpenInv, OrderKept
<1> HIDE DEF k
<1>2. /\ Indexed(k) \in Seq(V) /\ IndexOf(k) \in Nat /\ IndexOf(k) <= ver[listing[k]]
      /\ members[k].opened \in Nat /\ members[k].opened <= ver[listing[k]]
      /\ ver[listing[k]] \in Nat
  BY <1>1, IndexTyped
<1>3. Len(Indexed(k)) \in Nat
  BY <1>2
<1>4. CASE ver[listing[k]] = IndexOf(k)
  <2>1. CoordinatesOf(k) = Indexed(k)
    BY <1>4 DEF CoordinatesOf
  <2>2. CoordinatesOf(k) \in Seq(W)
    <3>1. \A i \in 1..Len(Indexed(k)) : Indexed(k)[i] \in W
      BY <1>2
    <3> HIDE DEF W, V
    <3> QED BY <1>2, <1>3, <2>1, <3>1
  <2>3. IndexesFit => Len(Indexed(k)) = Len(Opened(k))
    BY <1>1 DEF IndexesFit
  <2>4. Indexed(k) = Opened(k) \/ IndexOf(k) # members[k].opened
    BY DEF Indexed, Opened
  <2> QED BY <2>1, <2>2, <2>3, <2>4 DEF k, Spoilt
<1>5. CASE ver[listing[k]] # IndexOf(k)
  <2>1. CoordinatesOf(k) = [i \in 1..Len(Indexed(k)) |-> Garbage]
    BY <1>5 DEF CoordinatesOf
  <2>2. CoordinatesOf(k) \in Seq(W) /\ Len(CoordinatesOf(k)) = Len(Indexed(k))
    BY <1>3, <2>1
  <2>3. IndexesFit => Len(Indexed(k)) = Len(Opened(k))
    BY <1>1 DEF IndexesFit
  <2>4. Spoilt(n)
    BY <1>2, <1>5 DEF k, Spoilt
  <2> QED BY <2>2, <2>3, <2>4 DEF k
<1> QED BY <1>4, <1>5

LEMMA CacheStep == OpenInv /\ CacheKept /\ [Next]_vars => CacheKept'
<1> SUFFICES ASSUME OpenInv, CacheKept, [Next]_vars PROVE CacheKept'
  OBVIOUS
<1>0. /\ stage \in Stages /\ Len(order) \in Nat /\ StateTypes
      /\ cache \in Seq(Nat \cup {NaN, Garbage}) /\ read \in 0..Len(order)
  <2>1. order \in Seq(1..Len(listing))
    BY DEF OpenInv, OrderKept
  <2>2. Len(order) \in Nat
    BY <2>1
  <2>3. cache \in Seq(Nat \cup {NaN, Garbage}) /\ read \in 0..Len(order)
    BY DEF CacheKept
  <2>4. stage \in Stages /\ StateTypes
    BY DEF OpenInv, StateTypes
  <2> QED BY <2>2, <2>3, <2>4
<1> USE DEF diskVars, openVars, cacheVars
\* A file that is replaced does not go back.
<1>u. ASSUME UNCHANGED <<index, listing, members, order, cache, read>>,
             \/ UNCHANGED stage
             \/ stage = "described" /\ stage' = "open" /\ read = Len(order)
      PROVE  CacheKept'
  <2>1. CASE stage \in {"described", "open"}
    <3>1. /\ \A k : Opened(k)' = Opened(k) /\ IndexOf(k)' = IndexOf(k)
          /\ \A n : Offset(order, n)' = Offset(order, n)
          /\ IndexesFit' <=> IndexesFit
      BY <1>u, Frozen
    <3>2. ASSUME NEW n \in 1..read, Faithful(n) PROVE Faithful(n)'
      BY <1>u, <3>1, <3>2 DEF Faithful
    <3>3. ASSUME NEW n \in 1..read, Spoilt(n) PROVE Spoilt(n)'
      <4>1. order[n] \in 1..Len(listing)
        BY <1>0, <2>1, Offsets DEF Sorted
      <4>2. /\ listing[order[n]] \in Files /\ ver[listing[order[n]]] \in Nat
            /\ members[order[n]].opened \in Nat
        BY <1>0, <4>1, MemberTyped
      <4>3. ver'[listing[order[n]]] \in Nat /\ ver[listing[order[n]]] <= ver'[listing[order[n]]]
        BY <1>0, <4>2, FilesAdvance
      <4>4. CASE IndexOf(order[n]) # members[order[n]].opened
        BY <1>u, <3>1, <4>4 DEF Spoilt
      <4>5. CASE ver[listing[order[n]]] > members[order[n]].opened
        BY <1>u, <4>2, <4>3, <4>5 DEF Spoilt
      <4> QED BY <3>3, <4>4, <4>5 DEF Spoilt
    <3>4. IndexesFit => \A n \in 1..read : Faithful(n)' \/ Spoilt(n)'
      BY <2>1, <3>2, <3>3 DEF CacheKept
    <3>5. IndexesFit => Len(cache) = Offset(order, read)
      BY <2>1 DEF CacheKept
    <3>6. stage' = "open" => read = Len(order)
      BY <1>u DEF CacheKept
    <3>7. stage' \in {"described", "open"}
      BY <1>u, <2>1
    <3> QED BY <1>0, <1>u, <3>1, <3>4, <3>5, <3>6, <3>7 DEF CacheKept
  <2>2. CASE stage \notin {"described", "open"}
    BY <1>u, <2>2 DEF CacheKept
  <2> QED BY <2>1, <2>2
\* Until the members are sorted nothing is in the cache.
<1>v. ASSUME UNCHANGED <<cache, read>>, cache = <<>>, read = 0,
             stage' \notin {"described", "open"}, Len(order') \in Nat
      PROVE  CacheKept'
  BY <1>0, <1>v DEF CacheKept
<1>1. CASE StatDocument
  BY <1>0, <1>1, <1>v DEF StatDocument, CacheKept, Stages
<1>2. CASE OpenFails
  BY <1>0, <1>2 DEF OpenFails, CacheKept
<1>3. CASE ReadDocument
  BY <1>0, <1>3, <1>v DEF ReadDocument, CacheKept, Stages
<1>4. ASSUME NEW k \in 1..Len(listing),
             StatMember(k) \/ OpenMember(k) \/ CheckKey(k) \/ InsertIndex(k)
      PROVE  CacheKept'
  BY <1>0, <1>4, <1>v DEF StatMember, OpenMember, CheckKey, InsertIndex, CacheKept, Stages
<1>5. CASE SortMembers
  <2>1. order' \in [1..Len(listing) -> 1..Len(listing)] /\ Len(listing) \in Nat
    BY <1>5 DEF SortMembers, OpenInv, StateTypes
  <2>2. Len(order') \in Nat
    BY <2>1
  <2> QED BY <1>5, <1>v, <2>2 DEF SortMembers, CacheKept, Stages
<1>6. CASE BuildDas
  BY <1>0, <1>6, <1>v DEF BuildDas, CacheKept, Stages
<1>7. CASE BuildDds
  <2>1. /\ stage = "attributes" /\ stage' = "described"
        /\ UNCHANGED <<index, listing, members, order, cache, read>>
        /\ cache = <<>> /\ read = 0
    BY <1>7 DEF BuildDds, CacheKept, Stages
  <2>2. Offset(order, 0)' = 0
    BY <2>1, Frozen, Offsets DEF Sorted
  <2> QED BY <1>0, <2>1, <2>2 DEF CacheKept
<1>8. CASE ReadCoordinates
  <2> DEFINE next == read + 1
             piece == CoordinatesOf(order[next])
             values == Nat \cup {NaN, Garbage}
  <2>0. /\ stage = "described" /\ stage' = "described" /\ stage \in Sorted
        /\ read < Len(order) /\ read' = next /\ cache' = cache \o piece
        /\ UNCHANGED <<ver, index, listing, members, order>>
    BY <1>8 DEF ReadCoordinates, NextToRead, Sorted
  <2>1. read \in Nat /\ next \in 1..Len(order) /\ next - 1 = read
    BY <1>0, <2>0
  <2>2. piece \in Seq(values)
    BY <2>0, <2>1, PieceRead
  <2> HIDE DEF piece
  <2>3. cache \in Seq(values)
    BY <1>0
  <2> HIDE DEF values
  <2>4. /\ cache' \in Seq(values) /\ Len(cache) \in Nat /\ Len(piece) \in Nat
        /\ Len(cache') = Len(cache) + Len(piece)
    BY <2>0, <2>2, <2>3
  <2>5. \A i \in 1..Len(cache) : cache'[i] = cache[i]
    BY <2>0, <2>2, <2>3, <2>4
  <2>6. \A i \in 1..Len(piece) : cache'[Len(cache) + i] = piece[i]
    BY <2>0, <2>2, <2>3, <2>4
  <2>7. /\ \A k : Opened(k)' = Opened(k) /\ IndexOf(k)' = IndexOf(k)
        /\ \A n : Offset(order, n)' = Offset(order, n)
        /\ IndexesFit' <=> IndexesFit
    BY <2>0, Frozen
  <2>8. ASSUME IndexesFit
        PROVE  /\ Len(cache') = Offset(order, next)
               /\ \A n \in 1..next : Faithful(n)' \/ Spoilt(n)'
    <3>1. /\ Len(cache) = Offset(order, read)
          /\ \A n \in 1..read : Faithful(n) \/ Spoilt(n)
      BY <2>0, <2>8 DEF CacheKept
    <3>2. Len(piece) = Len(Opened(order[next])) /\ (piece = Opened(order[next]) \/ Spoilt(next))
      BY <2>0, <2>1, <2>8, PieceRead DEF piece
    <3>3. Offset(order, next) = Offset(order, read) + Len(Opened(order[next]))
      BY <2>0, <2>1, Offsets
    <3> HIDE DEF next
    <3>4. \A n : Spoilt(n) => Spoilt(n)'
      BY <2>0, <2>7 DEF Spoilt
    <3>5. ASSUME NEW n \in 1..next PROVE Faithful(n)' \/ Spoilt(n)'
      <4> DEFINE len == Len(Opened(order[n]))
      <4>0. n \in 1..Len(order) /\ n - 1 \in 0..Len(order)
        BY <1>0, <2>1
      <4>1. /\ len \in Nat /\ Offset(order, n - 1) \in Nat
            /\ Offset(order, n) = Offset(order, n - 1) + len
        BY <2>0, <4>0, Offsets
      <4>2. CASE n = next
        <5>1. CASE piece = Opened(order[next])
          <6>1. \A i \in 1..len : cache'[Offset(order, n - 1) + i] = Opened(order[n])[i]
            BY <2>1, <2>6, <3>1, <3>2, <4>2, <5>1
          <6> QED BY <2>0, <2>7, <6>1 DEF Faithful
        <5> QED BY <3>2, <3>4, <4>2, <5>1
      <4>3. CASE n # next
        <5>1. n \in 1..read /\ n \in 0..Len(order) /\ read \in n..Len(order)
          BY <1>0, <2>0, <2>1, <4>3
        <5>2. Offset(order, n) <= Offset(order, read)
          BY <2>0, <5>1, Offsets, SumsAscend DEF Offset
        <5>3. \A i \in 1..len : Offset(order, n - 1) + i \in 1..Len(cache)
          <6>1. Offset(order, read) \in Nat
            BY <2>0, <5>1, Offsets
          <6> HIDE DEF len
          <6> QED BY <3>1, <4>1, <5>2, <6>1
        <5>4. \A i \in 1..len :
                cache'[Offset(order, n - 1) + i] = cache[Offset(order, n - 1) + i]
          BY <2>5, <5>3
        <5>5. Faithful(n) => Faithful(n)'
          BY <2>0, <2>7, <5>4 DEF Faithful
        <5> QED BY <3>1, <3>4, <5>1, <5>5
      <4> QED BY <4>2, <4>3
    <3>6. Len(cache') = Offset(order, next)
      BY <2>4, <3>1, <3>2, <3>3
    <3> QED BY <3>5, <3>6
  <2>9. next \in 0..Len(order')
    BY <1>0, <2>0, <2>1
  <2> HIDE DEF next
  <2> QED BY <2>0, <2>4, <2>7, <2>8, <2>9 DEF CacheKept, values
<1>9. CASE Open
  BY <1>9, <1>u DEF Open
<1>10. CASE Serving \/ ReplaceDocument \/ UNCHANGED vars
  BY <1>10, <1>u, Untouched DEF vars
<1>11. ASSUME NEW f \in Files, ReplaceFile(f) PROVE CacheKept'
  BY <1>11, <1>u DEF ReplaceFile
<1> QED
  BY <1>1, <1>2, <1>3, <1>4, <1>5, <1>6, <1>7, <1>8, <1>9, <1>10, <1>11 DEF Next, Opening

\* A check that succeeds vouches for the coordinates in the cache: the file was of
\* one version all the time since it was stat-ed.
LEMMA CheckVouches ==
  ASSUME OpenInv, CacheKept, stage = "open", NEW n \in 1..Len(order), MemberUnchanged(order[n])
  PROVE  Vouched(n)
<1> DEFINE k == order[n]
<1>1. k \in 1..Len(listing) /\ members[k].st = "loaded"
  BY Offsets DEF Sorted, OpenInv, OrderKept
<1>2. /\ members[k].opened \in Nat /\ members[k].opened <= ver[listing[k]]
      /\ members[k].modified \in Nat /\ members[k].modified <= members[k].opened
      /\ IndexOf(k) \in Nat /\ IndexOf(k) <= ver[listing[k]] /\ ver[listing[k]] \in Nat
  BY <1>1, IndexTyped
<1>3. ver[listing[k]] = members[k].modified
  BY DEF MemberUnchanged
<1> HIDE DEF k
<1>4. members[k].modified = members[k].opened /\ ver[listing[k]] = members[k].opened
  BY <1>2, <1>3
<1>5. IndexOf(k) <= members[k].opened
  BY <1>2, <1>4
<1>6. ASSUME IndexOf(k) = members[k].opened, IndexesFit PROVE Faithful(n)
  <2>1. ~Spoilt(n)
    BY <1>2, <1>4, <1>6 DEF Spoilt, k
  <2>2. read = Len(order)
    BY DEF CacheKept
  <2> QED BY <1>6, <2>1, <2>2 DEF CacheKept
<1> QED BY <1>4, <1>5, <1>6 DEF Vouched, k

\* The member that holds the next row, by the sums of the rows before it.
LEMMA NextMember ==
  ASSUME OpenInv, ResponseKept, stage = "open", RowsRemain
  PROVE  /\ NextRow \in Nat /\ NextRow = first + Len(rows)
         /\ MemberAt(NextRow) \in 1..Len(order)
         /\ Offset(order, MemberAt(NextRow) - 1) <= NextRow
         /\ NextRow < Offset(order, MemberAt(NextRow))
<1>1. /\ rows \in Seq([place : Nat, version : Nat, row : Nat])
      /\ first \in Nat /\ count \in Nat /\ first + count <= Total /\ Len(rows) < count
  BY DEF RowsRemain, ResponseKept
<1>2. NextRow \in Nat /\ NextRow = first + Len(rows) /\ NextRow < first + count
  BY <1>1 DEF NextRow
<1>3. /\ Len(order) \in Nat \ {0} /\ Lengths(order) \in Seq(Nat)
      /\ Len(Lengths(order)) = Len(order)
      /\ \A m \in 0..Len(order) : Offset(order, m) \in Nat
  BY Offsets DEF Sorted
<1>4. NextRow < Offset(order, Len(order))
  <2>1. Total \in Nat /\ Total = Offset(order, Len(order))
    BY <1>3 DEF Total
  <2> QED BY <1>1, <1>2, <2>1
<1>5. \E m \in 1..Len(order) : Offset(order, m - 1) <= NextRow /\ NextRow < Offset(order, m)
  BY <1>2, <1>3, <1>4, SumsCover DEF Offset
<1> QED BY <1>2, <1>5 DEF MemberAt

\* The member that is to be read next has its place in the order.
LEMMA WantedInOrder ==
  ASSUME OpenInv, ResponseKept, stage = "open", RowsRemain \/ status = "other"
  PROVE  \E n \in 1..Len(order) : order[n] = Wanted
<1>1. CASE status = "data"
  <2>1. MemberAt(NextRow) \in 1..Len(order)
    BY <1>1, NextMember
  <2> QED BY <1>1, <2>1 DEF Wanted
<1>2. CASE status # "data"
  <2>1. 1 \in 1..Len(order)
    BY Offsets DEF Sorted
  <2> QED BY <1>2, <2>1 DEF Wanted
<1> QED BY <1>1, <1>2

LEMMA RowsFrozen ==
  UNCHANGED <<openVars, first>> =>
    /\ \A n : Vouched(n) => Vouched(n)'
    /\ \A j : rows'[j] = rows[j] /\ RowKept(j) => RowKept(j)'
<1> SUFFICES ASSUME UNCHANGED <<openVars, first>>
             PROVE  /\ \A n : Vouched(n) => Vouched(n)'
                    /\ \A j : rows'[j] = rows[j] /\ RowKept(j) => RowKept(j)'
  OBVIOUS
<1>0. UNCHANGED <<index, listing, members, order, cache>>
  BY DEF openVars, cacheVars
<1>1. /\ \A k : Opened(k)' = Opened(k) /\ IndexOf(k)' = IndexOf(k)
      /\ \A n : Offset(order, n)' = Offset(order, n)
      /\ IndexesFit' <=> IndexesFit
  BY <1>0, Frozen
<1>2. \A n : Faithful(n) => Faithful(n)'
  BY <1>0, <1>1 DEF Faithful
<1>3. \A n : Vouched(n) => Vouched(n)'
  BY <1>0, <1>1, <1>2 DEF Vouched
<1>4. \A j : rows'[j] = rows[j] /\ RowKept(j) => RowKept(j)'
  BY <1>0, <1>1, <1>3 DEF RowKept
<1> QED BY <1>3, <1>4

LEMMA ResponseStep == ServeInv /\ [Next]_vars => ResponseKept'
<1> SUFFICES ASSUME ServeInv, [Next]_vars PROVE ResponseKept'
  OBVIOUS
<1>0. OpenInv /\ CacheKept /\ ResponseKept /\ (status # "none" => stage = "open")
  BY DEF ServeInv, OpenInv, DocumentKept
<1> DEFINE Row == [place : Nat, version : Nat, row : Nat]
<1>t. /\ rows \in Seq(Row) /\ Len(rows) \in Nat /\ Len(rows) <= count
      /\ first \in Nat /\ count \in Nat
  <2>1. rows \in Seq(Row) /\ Len(rows) <= count /\ first \in Nat /\ count \in Nat
    BY <1>0 DEF ResponseKept
  <2> HIDE DEF Row
  <2> QED BY <2>1
<1> USE DEF diskVars, openVars, requestVars, cacheVars
\* Before the aggregate is open there is no request.
<1>n. ASSUME status = "none", UNCHANGED requestVars PROVE ResponseKept'
  <2>1. rows = <<>> /\ reader.place = 0
    BY <1>n DEF ServeInv, ReadInOrder, NoReader
  <2> QED BY <1>0, <1>n, <2>1 DEF ResponseKept
\* While the cache and the members are as they were, so is what was delivered.
<1>u. ASSUME UNCHANGED <<openVars, first, count, rows>>
      PROVE  /\ Total' = Total /\ (IndexesFit' <=> IndexesFit)
             /\ \A j \in 1..Len(rows') : RowKept(j)'
             /\ \A n : Vouched(n) => Vouched(n)'
             /\ rows' \in Seq(Row) /\ Len(rows') <= count'
  <2>1. \A j \in 1..Len(rows) : RowKept(j)
    BY <1>0 DEF ResponseKept
  <2>2. Total' = Total /\ (IndexesFit' <=> IndexesFit)
    BY <1>u, Frozen
  <2>3. /\ \A n : Vouched(n) => Vouched(n)'
        /\ \A j \in 1..Len(rows') : RowKept(j)'
    BY <1>u, <2>1, RowsFrozen
  <2> QED BY <1>t, <1>u, <2>2, <2>3
<1>v. ASSUME UNCHANGED <<openVars, status, first, count, rows, coords>>,
             \/ reader'.place \in {0, reader.place}
             \/ \E n \in 1..Len(order) : order[n] = reader'.place /\ Vouched(n)
      PROVE  ResponseKept'
  <2>1. /\ Total' = Total /\ (IndexesFit' <=> IndexesFit)
        /\ \A j \in 1..Len(rows') : RowKept(j)'
        /\ \A n : Vouched(n) => Vouched(n)'
        /\ rows' \in Seq(Row) /\ Len(rows') <= count'
    BY <1>u, <1>v
  <2>2. reader'.place # 0 => \E n \in 1..Len(order') : order'[n] = reader'.place /\ Vouched(n)'
    BY <1>0, <1>v, <2>1 DEF ResponseKept
  <2> QED BY <1>0, <1>v, <2>1, <2>2 DEF ResponseKept
<1>1. CASE Opening
  <2>1. UNCHANGED requestVars /\ status = "none"
    BY <1>0, <1>1, Untouched
  <2> QED BY <1>n, <2>1
<1>2. ASSUME NEW f \in 0..Total, NEW n \in 0..Total, Request(f, n) PROVE ResponseKept'
  <2>1. /\ status = "none" /\ f + n <= Total /\ first' = f /\ count' = n
        /\ status' = "data" /\ UNCHANGED <<openVars, rows, reader>>
    BY <1>2 DEF Request
  <2>2. rows = <<>> /\ reader.place = 0 /\ Total' = Total
    BY <2>1, Frozen DEF ServeInv, ReadInOrder, NoReader
  <2>3. rows' \in Seq(Row) /\ Len(rows') = 0
    BY <2>1, <2>2
  <2> QED BY <2>1, <2>2, <2>3 DEF ResponseKept
\* The reader is checked and opened.
<1>3. CASE CheckMember
  <2>1. /\ RowsRemain \/ status = "other"
        /\ MemberUnchanged(Wanted) /\ reader'.place = Wanted
        /\ UNCHANGED <<openVars, status, first, count, rows, coords>>
    BY <1>3 DEF CheckMember
  <2>2. stage = "open"
    BY <1>0, <2>1 DEF RowsRemain
  <2>3. PICK n \in 1..Len(order) : order[n] = Wanted
    BY <1>0, <2>1, <2>2, WantedInOrder
  <2>4. Vouched(n)
    BY <1>0, <2>1, <2>2, <2>3, CheckVouches
  <2> QED BY <1>v, <2>1, <2>3, <2>4
<1>4. CASE OpenStreamer
  <2>1. reader \in [place : 0..Len(listing), version : Nat]
    BY DEF ServeInv, ReadInOrder
  <2>2. reader'.place = reader.place /\ UNCHANGED <<openVars, status, first, count, rows, coords>>
    BY <1>4, <2>1 DEF OpenStreamer
  <2> QED BY <1>v, <2>2
<1>5. CASE SendRow
  <2>1. RowsRemain /\ status = "data" /\ stage = "open" /\ Len(rows) < count
    BY <1>0, <1>5 DEF SendRow, RowsRemain
  <2>2. PICK n \in 1..Len(order) :
          /\ n = MemberAt(NextRow)
          /\ NextRow \in Nat /\ NextRow = first + Len(rows)
          /\ Offset(order, n - 1) <= NextRow /\ NextRow < Offset(order, n)
    BY <1>0, <2>1, NextMember
  <2> DEFINE row == [place |-> order[n], version |-> reader.version,
                     row |-> NextRow - Offset(order, n - 1) + 1]
  <2>3. /\ reader.place = order[n] /\ reader.version # 0
        /\ rows' = Append(rows, row)
        /\ UNCHANGED <<openVars, status, first, count, reader, coords>>
    BY <1>5, <2>2 DEF SendRow
  <2>4. n - 1 \in 0..Len(order) /\ n \in 0..Len(order)
    <3>1. Len(order) \in Nat
      BY <1>0, <2>1, Offsets DEF Sorted
    <3> QED BY <2>2, <3>1
  <2>5. /\ Offset(order, n - 1) \in Nat /\ Offset(order, n) \in Nat
        /\ order[n] \in 1..Len(listing)
    BY <1>0, <2>1, <2>2, <2>4, Offsets DEF Sorted
  <2>6. /\ reader.version \in Nat /\ reader.version >= members[order[n]].modified
    BY <2>3 DEF ServeInv, ReadInOrder, Since
  <2>7. Vouched(n)
    <3>1. reader.place # 0
      BY <2>3, <2>5
    <3>2. PICK m \in 1..Len(order) : order[m] = reader.place /\ Vouched(m)
      BY <1>0, <3>1 DEF ResponseKept
    <3>3. m = n
      BY <1>0, <2>3, <2>1, <2>2, <3>2 DEF OpenInv, OrderKept, Sorted
    <3> QED BY <3>2, <3>3
  <2>8. row \in Row
    <3>1. NextRow - Offset(order, n - 1) + 1 \in Nat
      BY <2>2, <2>5
    <3> QED BY <2>5, <2>6, <3>1
  <2>9. /\ row.place = order[n] /\ row.version = reader.version
        /\ row.row = (NextRow + 1) - Offset(order, n - 1)
    <3>1. NextRow - Offset(order, n - 1) + 1 = (NextRow + 1) - Offset(order, n - 1)
      BY <2>2, <2>5
    <3> QED BY <3>1
  <2> HIDE DEF row
  <2>10. /\ rows' \in Seq(Row) /\ Len(rows') = Len(rows) + 1 /\ Len(rows') <= count
         /\ rows'[Len(rows) + 1] = row
         /\ \A j \in 1..Len(rows) : rows'[j] = rows[j]
    <3> HIDE DEF Row
    <3>1. /\ rows' \in Seq(Row) /\ Len(rows') = Len(rows) + 1
          /\ rows'[Len(rows) + 1] = row
          /\ \A j \in 1..Len(rows) : rows'[j] = rows[j]
      BY <1>t, <2>3, <2>8
    <3>2. Len(rows) + 1 <= count
      BY <1>t, <2>1
    <3> QED BY <3>1, <3>2
  <2>11. /\ \A m : Offset(order, m)' = Offset(order, m)
         /\ \A m : Vouched(m) => Vouched(m)'
         /\ Total' = Total
    BY <2>3, Frozen, RowsFrozen
  <2>12. ASSUME NEW j \in 1..Len(rows') PROVE RowKept(j)'
    <3>1. CASE j \in 1..Len(rows)
      <4>1. RowKept(j) /\ rows'[j] = rows[j]
        BY <1>0, <2>10, <3>1 DEF ResponseKept
      <4> QED BY <2>3, <4>1, RowsFrozen
    <3>2. CASE j = Len(rows) + 1
      <4>1. first + j = NextRow + 1 /\ rows'[j] = row /\ first + j \in Nat
        <5>1. j \in Nat /\ rows'[j] = row
          BY <1>t, <2>10, <3>2
        <5> HIDE DEF Row
        <5>2. first + j = NextRow + 1
          BY <1>t, <2>2, <3>2
        <5> QED BY <2>2, <5>1, <5>2
      <4>2. Offset(order, n - 1) < first + j /\ first + j <= Offset(order, n)
        <5>1. Offset(order, n - 1) < NextRow + 1 /\ NextRow + 1 <= Offset(order, n)
          BY <2>2, <2>5
        <5> QED BY <4>1, <5>1
      <4>3. row.version >= members[order[n]].opened
        BY <2>6, <2>7, <2>9 DEF Vouched
      <4>4. /\ rows'[j].place = order[n] /\ rows'[j].version >= members[order[n]].opened
            /\ rows'[j].row = (first + j) - Offset(order, n - 1)
        BY <2>9, <4>1, <4>3
      <4>5. /\ n \in 1..Len(order') /\ Vouched(n)'
            /\ order' = order /\ first' = first /\ members' = members
        BY <2>3, <2>2, <2>7, <2>11
      <4> QED BY <2>11, <4>2, <4>4, <4>5 DEF RowKept
    <3> QED BY <1>t, <2>10, <3>1, <3>2
  <2>13. reader'.place # 0 => \E m \in 1..Len(order') : order'[m] = reader'.place /\ Vouched(m)'
    BY <1>0, <2>3, <2>11 DEF ResponseKept
  <2>14. status' = "data" /\ first' = first /\ count' = count
    BY <2>3, <2>1
  <2> QED BY <1>0, <1>t, <2>1, <2>10, <2>11, <2>12, <2>13, <2>14 DEF ResponseKept
<1>6. CASE SendCoordinates
  <2>1. /\ status = "data" /\ stage = "open" /\ Len(rows) = count
        /\ reader' = NoReader
        /\ UNCHANGED <<openVars, first, count, rows>>
    BY <1>0, <1>6 DEF SendCoordinates
  <2>2. /\ Total' = Total /\ (IndexesFit' <=> IndexesFit)
        /\ \A j \in 1..Len(rows') : RowKept(j)'
        /\ rows' \in Seq(Row) /\ Len(rows') <= count'
    BY <1>u, <2>1
  <2>3. first + count <= Total
    BY <1>0, <2>1 DEF ResponseKept
  <2>4. CASE first + count <= Len(cache)
    <3>1. status' = "map" /\ coords' = SubSeq(cache, first + 1, first + count)
      BY <1>6, <2>4 DEF SendCoordinates
    <3> QED BY <1>t, <2>1, <2>2, <2>3, <2>4, <3>1 DEF ResponseKept, NoReader
  <2>5. CASE ~(first + count <= Len(cache))
    <3>1. status' = "out of range"
      BY <1>6, <2>5 DEF SendCoordinates
    <3>2. ~IndexesFit
      BY <1>0, <2>1, <2>3, <2>5 DEF CacheKept, Total
    <3> QED BY <1>t, <2>1, <2>2, <2>3, <3>1, <3>2 DEF ResponseKept, NoReader
  <2> QED BY <2>4, <2>5
<1>7. CASE AskOther \/ SendOther \/ Break
  <2>1. /\ status # "none" /\ status' \in {"other", "served", "broken"}
        /\ status' # "broken" => status \in {"map", "other"}
        /\ UNCHANGED <<openVars, first, count, rows, coords, reader>>
    BY <1>7 DEF AskOther, SendOther, Break
  <2>2. /\ Total' = Total
        /\ \A j \in 1..Len(rows') : RowKept(j)'
        /\ \A n : Vouched(n) => Vouched(n)'
        /\ rows' \in Seq(Row) /\ Len(rows') <= count'
    BY <1>u, <2>1
  <2>3. reader'.place # 0 => \E n \in 1..Len(order') : order'[n] = reader'.place /\ Vouched(n)'
    BY <1>0, <2>1, <2>2 DEF ResponseKept
  <2> QED BY <1>0, <2>1, <2>2, <2>3 DEF ResponseKept
<1>8. CASE ReplaceDocument \/ (\E f \in Files : ReplaceFile(f)) \/ UNCHANGED vars
  BY <1>8, <1>v DEF ReplaceDocument, ReplaceFile, vars
<1> QED BY <1>1, <1>2, <1>3, <1>4, <1>5, <1>6, <1>7, <1>8 DEF Next, Serving

LEMMA AppendedTo ==
  ASSUME NEW S, NEW s \in Seq(S), NEW e
  PROVE  /\ Len(Append(s, e)) = Len(s) + 1 /\ Append(s, e)[Len(s) + 1] = e
         /\ \A j \in 1..Len(s) : Append(s, e)[j] = s[j]
OBVIOUS

LEMMA ReadStep == ServeInv /\ [Next]_vars => ReadInOrder'
<1> SUFFICES ASSUME ServeInv, [Next]_vars PROVE ReadInOrder'
  OBVIOUS
<1>0. /\ OpenInv /\ ResponseKept /\ ReadInOrder /\ StateTypes /\ MembersInOrder
      /\ status # "none" => stage = "open"
  BY DEF ServeInv, OpenInv, DocumentKept
<1> DEFINE Row == [place : Nat, version : Nat, row : Nat]
           Rows == Seq(Row)
           Seen(j) == rows[j].place \in 1..Len(listing) /\ Since(rows[j].place, rows[j].version)
<1>t. /\ reader \in [place : 0..Len(listing), version : Nat]
      /\ rows \in Rows /\ \A j \in 1..Len(rows) : rows[j].version \in Nat /\ Seen(j)
      /\ listing \in Seq(Files)
  <2>1. reader \in [place : 0..Len(listing), version : Nat] /\ \A j \in 1..Len(rows) : Seen(j)
    BY <1>0 DEF ReadInOrder
  <2>2. rows \in Rows
    BY <1>0 DEF ResponseKept
  <2>4. listing \in Seq(Files)
    BY <1>0 DEF StateTypes
  <2>3. ASSUME NEW j \in 1..Len(rows) PROVE rows[j].version \in Nat
    <3>1. rows[j] \in Row
      <4> HIDE DEF Row
      <4> QED BY <2>2
    <3> QED BY <3>1
  <2> QED BY <2>1, <2>2, <2>3, <2>4
<1> HIDE DEF Row, Rows, Seen
<1> USE DEF diskVars, openVars, requestVars, describedVars
<1>k. ASSUME UNCHANGED <<listing, members>>
      PROVE  \A k \in 1..Len(listing), v \in Nat : Since(k, v) =>
                members'[k].modified <= v /\ v <= ver'[listing'[k]]
  BY <1>0, <1>k, SinceKept DEF Since
\* What was read stays as it was.
<1>r. ASSUME UNCHANGED <<listing, members, rows>>
      PROVE  \A j \in 1..Len(rows') :
                rows'[j].place \in 1..Len(listing') /\ Since(rows[j].place, rows[j].version)'
  <2>1. ASSUME NEW j \in 1..Len(rows)
        PROVE  rows'[j].place \in 1..Len(listing') /\ Since(rows[j].place, rows[j].version)'
    <3>1. /\ rows[j].place \in 1..Len(listing) /\ rows[j].version \in Nat
          /\ Since(rows[j].place, rows[j].version)
      BY <1>t DEF Seen
    <3>2. /\ members'[rows[j].place].modified <= rows[j].version
          /\ rows[j].version <= ver'[listing'[rows[j].place]]
      BY <1>k, <1>r, <3>1
    <3> QED BY <1>r, <3>1, <3>2 DEF Since
  <2> QED BY <1>r, <2>1
\* .. and so does what a reader has open.
<1>o. ASSUME UNCHANGED <<listing, members, reader>>
      PROVE  /\ reader' \in [place : 0..Len(listing'), version : Nat]
             /\ reader'.version # 0 =>
                  reader'.place # 0 /\ Since(reader.place, reader.version)'
  <2>1. ASSUME reader.version # 0
        PROVE  reader.place # 0 /\ Since(reader.place, reader.version)'
    <3>1. /\ reader.place \in 1..Len(listing) /\ reader.version \in Nat
          /\ Since(reader.place, reader.version)
      BY <1>0, <1>t, <2>1 DEF ReadInOrder
    <3>2. /\ members'[reader.place].modified <= reader.version
          /\ reader.version <= ver'[listing'[reader.place]]
      BY <1>k, <1>o, <3>1
    <3> QED BY <1>o, <3>1, <3>2 DEF Since
  <2> QED BY <1>o, <1>t, <2>1
<1>u. ASSUME UNCHANGED <<listing, members, order, describedVars, requestVars>> PROVE ReadInOrder'
  <2>1. OtherIsDescribed'
    BY <1>0, <1>u DEF ReadInOrder, OtherIsDescribed
  <2>2. /\ status' = "none" => reader' = NoReader /\ rows' = <<>>
        /\ status' = "map" => reader' = NoReader
        /\ status' = "other" /\ reader'.place # 0 =>
            /\ reader'.place = order'[1]
            /\ members'[order'[1]].modified = described' /\ attributes' = described'
            /\ \A j \in 1..Len(rows') :
                  rows'[j].place = order'[1] => rows'[j].version = described'
    BY <1>0, <1>u DEF ReadInOrder
  <2> QED BY <1>r, <1>o, <1>u, <2>1, <2>2 DEF ReadInOrder
\* Before the aggregate is open there is nothing.
<1>n. ASSUME reader' = NoReader, rows' = <<>>, status' = "none" PROVE ReadInOrder'
  BY <1>n DEF ReadInOrder, NoReader, OtherIsDescribed
<1>1. CASE Opening
  <2>1. UNCHANGED requestVars /\ status = "none"
    BY <1>0, <1>1, Untouched
  <2> QED BY <1>0, <1>n, <2>1 DEF ReadInOrder
<1>2. ASSUME NEW f \in 0..Total, NEW n \in 0..Total, Request(f, n) PROVE ReadInOrder'
  <2>1. status' = "data" /\ UNCHANGED <<openVars, reader, rows>>
    BY <1>2 DEF Request
  <2> QED BY <1>r, <1>o, <2>1 DEF ReadInOrder, OtherIsDescribed
\* A check of the first member that succeeds finds one version of it since its
\* time was taken: everything read of it is of that one.
<1>3. CASE CheckMember
  <2>1. /\ RowsRemain \/ status = "other"
        /\ MemberUnchanged(Wanted) /\ reader' = [place |-> Wanted, version |-> 0]
        /\ UNCHANGED <<ver, openVars, status, rows>>
    BY <1>3 DEF CheckMember
  <2>2. stage = "open" /\ status \in {"data", "other"}
    BY <1>0, <2>1 DEF RowsRemain
  <2>3. Wanted \in 1..Len(listing)
    BY <1>0, <2>1, <2>2, WantedInOrder, Offsets DEF Sorted
  <2>4. reader' \in [place : 0..Len(listing'), version : Nat] /\ reader'.version = 0
    BY <2>1, <2>3
  <2>5. ASSUME status = "other"
        PROVE  /\ reader'.place = order'[1]
               /\ members'[order'[1]].modified = described' /\ attributes' = described'
               /\ \A j \in 1..Len(rows') :
                     rows'[j].place = order'[1] => rows'[j].version = described'
    <3>1. Wanted = order[1] /\ reader'.place = order[1] /\ order[1] \in 1..Len(listing)
      BY <2>1, <2>3, <2>5 DEF Wanted
    <3>2. /\ ver[listing[order[1]]] = members[order[1]].modified
          /\ members[order[1]].modified \in Nat
      BY <1>0, <2>1, <3>1, MemberTyped DEF MemberUnchanged
    <3>3. /\ Since(order[1], attributes) /\ Since(order[1], described)
          /\ attributes \in Nat /\ described \in Nat
      BY <1>0, <2>2 DEF MembersInOrder, Sorted
    <3>4. attributes = members[order[1]].modified /\ described = members[order[1]].modified
      BY <3>2, <3>3 DEF Since
    <3>5. ASSUME NEW j \in 1..Len(rows), rows[j].place = order[1]
          PROVE  rows[j].version = described
      <4>1. Since(order[1], rows[j].version) /\ rows[j].version \in Nat
        BY <1>t, <3>5 DEF Seen
      <4> QED BY <3>2, <3>4, <4>1 DEF Since
    <3> QED BY <2>1, <3>1, <3>4, <3>5
  <2> QED BY <1>r, <2>1, <2>2, <2>4, <2>5 DEF ReadInOrder, OtherIsDescribed
\* What is opened now is no older than what was checked.
<1>4. CASE OpenStreamer
  <2>1. /\ RowsRemain \/ status = "other"
        /\ reader.place # 0 /\ reader' = [reader EXCEPT !.version = ver[listing[reader.place]]]
        /\ UNCHANGED <<ver, openVars, status, rows>>
    BY <1>4 DEF OpenStreamer
  <2>2. stage = "open" /\ status \in {"data", "other"} /\ reader.place \in 1..Len(listing)
    BY <1>0, <1>t, <2>1 DEF RowsRemain
  <2>3. ver[listing[reader.place]] \in Nat
    BY <1>0, <2>2, MemberTyped
  <2>4. /\ reader' \in [place : 0..Len(listing'), version : Nat]
        /\ reader'.place = reader.place /\ reader'.version = ver[listing[reader.place]]
    BY <1>t, <2>1, <2>3
  <2>5. Since(reader.place, ver[listing[reader.place]])
    <3>1. members[reader.place].st = "loaded"
      BY <1>0, <2>2 DEF OpenInv, OrderKept, Sorted
    <3> QED BY <1>0, <2>2, <3>1 DEF MembersInOrder
  <2>6. reader'.place # 0 /\ Since(reader.place, reader.version)'
    BY <2>1, <2>4, <2>5 DEF Since
  <2> QED BY <1>0, <1>r, <2>1, <2>2, <2>4, <2>6 DEF ReadInOrder, OtherIsDescribed
<1>5. CASE SendRow
  <2>1. PICK row : /\ rows' = Append(rows, row)
                   /\ row.place = reader.place /\ row.version = reader.version
    <3> DEFINE row == [place |-> order[MemberAt(NextRow)], version |-> reader.version,
                       row |-> NextRow - Offset(order, MemberAt(NextRow) - 1) + 1]
    <3>1. rows' = Append(rows, row) /\ row.place = reader.place /\ row.version = reader.version
      BY <1>5 DEF SendRow
    <3> QED BY <3>1
  <2>2. /\ status = "data" /\ reader.version # 0
        /\ UNCHANGED <<ver, openVars, status, reader>>
    BY <1>5 DEF SendRow, RowsRemain
  <2>3. reader.place \in 1..Len(listing) /\ Since(reader.place, reader.version)
    BY <1>0, <1>t, <2>2 DEF ReadInOrder
  <2>4. /\ Len(rows') = Len(rows) + 1 /\ rows'[Len(rows) + 1] = row
        /\ \A j \in 1..Len(rows) : rows'[j] = rows[j]
    BY <1>t, <2>1, AppendedTo DEF Rows
  <2>5. ASSUME NEW j \in 1..Len(rows')
        PROVE  rows'[j].place \in 1..Len(listing') /\ Since(rows[j].place, rows[j].version)'
    <3>1. CASE j \in 1..Len(rows)
      <4>1. Seen(j) /\ rows'[j] = rows[j]
        BY <1>t, <2>4, <3>1
      <4> QED BY <2>2, <4>1 DEF Seen, Since
    <3>2. CASE j = Len(rows) + 1
      BY <2>1, <2>2, <2>3, <2>4, <3>2 DEF Since
    <3>3. Len(rows) \in Nat
      BY <1>t DEF Rows
    <3> QED BY <2>4, <3>1, <3>2, <3>3
  <2> QED BY <1>o, <2>2, <2>5 DEF ReadInOrder, OtherIsDescribed
<1>6. CASE SendCoordinates
  <2>1. /\ status' \in {"map", "out of range"} /\ reader' = NoReader
        /\ UNCHANGED <<openVars, rows>>
    BY <1>6 DEF SendCoordinates
  <2>2. reader' \in [place : 0..Len(listing'), version : Nat] /\ reader'.version = 0
    <3>0. listing \in Seq(Files) /\ listing' = listing
      BY <1>t, <2>1
    <3>1. Len(listing') \in Nat
      BY <3>0
    <3>2. NoReader \in [place : 0..Len(listing'), version : Nat] /\ NoReader.version = 0
      BY <3>1 DEF NoReader
    <3> QED BY <2>1, <3>2
  <2> QED BY <1>r, <2>1, <2>2 DEF ReadInOrder, OtherIsDescribed
<1>7. CASE AskOther
  <2>1. status = "map" /\ status' = "other" /\ UNCHANGED <<openVars, reader, rows>>
    BY <1>7 DEF AskOther
  <2>2. reader' = NoReader
    BY <1>0, <2>1 DEF ReadInOrder
  <2> QED BY <1>r, <2>1, <2>2 DEF ReadInOrder, OtherIsDescribed, NoReader
<1>8. CASE SendOther
  <2>1. /\ status = "other" /\ reader.version # 0 /\ other' = reader.version
        /\ status' = "served" /\ UNCHANGED <<openVars, reader, rows>>
    BY <1>8 DEF SendOther
  <2>2. /\ reader.place = order[1] /\ Since(reader.place, reader.version)
        /\ members[order[1]].modified = described /\ attributes = described
        /\ \A j \in 1..Len(rows) : rows[j].place = order[1] => rows[j].version = described
    BY <1>0, <2>1 DEF ReadInOrder
  <2>3. OtherIsDescribed'
    <3>1. other' >= described'
      BY <1>0, <1>t, <2>1, <2>2 DEF Since, MembersInOrder
    <3> QED BY <2>1, <2>2, <3>1 DEF OtherIsDescribed
  <2> QED BY <1>r, <1>o, <2>1, <2>3 DEF ReadInOrder
<1>9. CASE Break
  <2>1. status' = "broken" /\ UNCHANGED <<openVars, reader, rows>>
    BY <1>9 DEF Break
  <2> QED BY <1>r, <1>o, <2>1 DEF ReadInOrder, OtherIsDescribed
<1>10. CASE ReplaceDocument \/ (\E f \in Files : ReplaceFile(f)) \/ UNCHANGED vars
  BY <1>10, <1>u DEF ReplaceDocument, ReplaceFile, vars
<1> QED
  BY <1>1, <1>2, <1>3, <1>4, <1>5, <1>6, <1>7, <1>8, <1>9, <1>10 DEF Next, Serving

\* The inductive invariant of what is served, for any files, contents, documents
\* and indexes: if the indexes fit, a member's coordinates lie in the cache where
\* its rows are in the aggregate, unless the index was of another version or the
\* file has been replaced, so that no check of it will succeed; and what is read of
\* a member after its check is no older than what was checked (ncml/mod.rs:91-122,
\* :241-321, :329-371, member.rs:69-85).
THEOREM ServeInvariant == Spec => []ServeInv
<1>1. Init => ServeInv
  <2> SUFFICES ASSUME Init PROVE ServeInv
    OBVIOUS
  <2>1. OpenInv
    BY InitOpenInv
  <2>2. CacheKept
    BY DEF Init, CacheKept
  <2>3. ResponseKept
    BY DEF Init, ResponseKept, NoReader
  <2>4. ReadInOrder
    BY DEF Init, ReadInOrder, NoReader, OtherIsDescribed
  <2> QED BY <2>1, <2>2, <2>3, <2>4 DEF ServeInv
<1>2. ServeInv /\ [Next]_vars => ServeInv'
  <2>1. ServeInv => OpenInv /\ CacheKept
    BY DEF ServeInv
  <2>2. ServeInv /\ [Next]_vars => OpenInv' /\ CacheKept' /\ ResponseKept' /\ ReadInOrder'
    BY <2>1, OpenStep, CacheStep, ResponseStep, ReadStep
  <2> QED BY <2>2 DEF ServeInv
<1> QED BY <1>1, <1>2, PTL DEF Spec

\* Once the check of the first member has succeeded, the DAS, the DDS and the rows
\* of it that were delivered before are of one version, and what is served then is
\* of that version or of one that replaced it after the check (ncml/mod.rs:91-116,
\* :268, member.rs:69, :85), whatever is replaced and when.
THEOREM FirstMemberIsDescribed == Spec => []OtherIsDescribed
<1>1. ServeInv => OtherIsDescribed
  BY DEF ServeInv, ReadInOrder
<1> QED BY <1>1, ServeInvariant, PTL

\* The cache holds as many coordinates as the DDS announces rows, whatever is
\* replaced while they are read, and "slab out of range" (ncml/mod.rs:399) is never
\* the answer to a slab that the DDS accepted, provided that every index in the
\* database is of a version as long as the one its member was opened with.
THEOREM CacheIsWhole == Spec => []CacheCoversDds
<1>1. ServeInv => CacheCoversDds
  <2> SUFFICES ASSUME ServeInv, stage = "open", IndexesFit
               PROVE  Len(cache) = Total /\ status # "out of range"
    BY DEF CacheCoversDds
  <2>1. Len(cache) = Total
    BY DEF ServeInv, CacheKept, Total
  <2>2. status # "out of range"
    BY DEF ServeInv, ResponseKept
  <2> QED BY <2>1, <2>2
<1> QED BY <1>1, ServeInvariant, PTL

LEMMA SliceOf ==
  ASSUME NEW S, NEW s \in Seq(S), NEW a \in Nat, NEW n \in Nat, a + n <= Len(s)
  PROVE  /\ Len(SubSeq(s, a + 1, a + n)) = n
         /\ \A j \in 1..n : SubSeq(s, a + 1, a + n)[j] = s[a + j]
<1>1. a + 1 \in Int /\ a + n \in Int /\ (a + n) - (a + 1) + 1 = n
  OBVIOUS
<1> QED BY <1>1

\* Next to every row that is delivered, by way of the offsets and the checks, its
\* coordinate is delivered from the cache, which is never checked again
\* (ncml/mod.rs:256-322): of that row, and of the version that the row is of, if
\* the row was read by an index of that version and the indexes fit.
THEOREM RowsMeetTheirCoordinates == Spec => []RowHasItsCoordinate
<1>1. ServeInv => RowHasItsCoordinate
  <2> SUFFICES ASSUME ServeInv, status \in {"map", "other", "served"}, IndexesFit
               PROVE  /\ Len(coords) = Len(rows)
                      /\ \A j \in 1..Len(rows) :
                            rows[j].version = IndexOf(rows[j].place) =>
                              coords[j] = Content[listing[rows[j].place]][rows[j].version][rows[j].row]
    BY DEF RowHasItsCoordinate
  <2>0. OpenInv /\ CacheKept /\ ResponseKept /\ stage = "open"
    BY DEF ServeInv, OpenInv, DocumentKept
  <2>1. /\ Len(rows) = count /\ coords = SubSeq(cache, first + 1, first + count)
        /\ first \in Nat /\ count \in Nat /\ first + count <= Len(cache)
    BY <2>0 DEF ResponseKept
  <2>2. cache \in Seq(Nat \cup {NaN, Garbage})
    BY <2>0 DEF CacheKept
  <2>3. Len(coords) = count /\ \A j \in 1..count : coords[j] = cache[first + j]
    <3> DEFINE V == Nat \cup {NaN, Garbage}
               slice == SubSeq(cache, first + 1, first + count)
    <3>1. cache \in Seq(V) /\ first \in Nat /\ count \in Nat /\ first + count <= Len(cache)
      BY <2>1, <2>2
    <3> HIDE DEF V
    <3>2. Len(slice) = count /\ \A j \in 1..count : slice[j] = cache[first + j]
      BY <3>1, SliceOf
    <3> QED BY <2>1, <3>2
  <2>4. ASSUME NEW j \in 1..Len(rows), rows[j].version = IndexOf(rows[j].place)
        PROVE  coords[j] = Content[listing[rows[j].place]][rows[j].version][rows[j].row]
    <3>1. PICK n \in 1..Len(order) :
            /\ Vouched(n)
            /\ Offset(order, n - 1) < first + j /\ first + j <= Offset(order, n)
            /\ rows[j].place = order[n]
            /\ rows[j].version >= members[order[n]].opened
            /\ rows[j].row = (first + j) - Offset(order, n - 1)
      <4>1. RowKept(j)
        BY <2>0 DEF ResponseKept
      <4> QED BY <4>1 DEF RowKept
    \* The index is no later than the opened version, the row no earlier.
    <3>2. rows[j].version = members[order[n]].opened /\ Faithful(n)
      <4>1. order[n] \in 1..Len(listing) /\ members[order[n]].st = "loaded"
        BY <2>0, Offsets DEF Sorted, OpenInv, OrderKept
      <4>2. members[order[n]].opened \in Nat /\ IndexOf(order[n]) \in Nat
        BY <2>0, <4>1, IndexTyped
      <4>3. IndexOf(order[n]) <= members[order[n]].opened
        BY <3>1 DEF Vouched
      <4>4. IndexOf(order[n]) = members[order[n]].opened
        BY <2>4, <3>1, <4>2, <4>3
      <4> QED BY <2>4, <3>1, <4>4 DEF Vouched
    <3> DEFINE row == (first + j) - Offset(order, n - 1)
    <3>3. row \in 1..Len(Opened(order[n])) /\ Offset(order, n - 1) + row = first + j
      <4>1. /\ Offset(order, n) = Offset(order, n - 1) + Len(Opened(order[n]))
            /\ Offset(order, n - 1) \in Nat /\ Opened(order[n]) \in Seq(Nat \cup {NaN})
        <5>1. n - 1 \in 0..Len(order)
          BY <2>0, Offsets DEF Sorted
        <5> QED BY <2>0, <5>1, Offsets DEF Sorted
      <4> QED BY <2>1, <3>1, <4>1
    <3>4. cache[first + j] = Opened(order[n])[row]
      <4> HIDE DEF row
      <4> QED BY <3>2, <3>3 DEF Faithful
    <3>5. coords[j] = cache[first + j]
      BY <2>1, <2>3
    <3> QED BY <3>1, <3>2, <3>4, <3>5 DEF Opened
  <2> QED BY <2>1, <2>3, <2>4
<1> QED BY <1>1, ServeInvariant, PTL

\* Past the sort every member has its place in the order, once.
LEMMA OrderIsWhole ==
  StateTypes /\ OrderKept /\ stage \in Sorted =>
    order # <<>> /\ ToSet(order) = 1..Len(listing)
<1> SUFFICES ASSUME StateTypes, OrderKept, stage \in Sorted
             PROVE  order # <<>> /\ ToSet(order) = 1..Len(listing)
  OBVIOUS
<1> DEFINE places == 1..Len(listing)
<1>1. /\ listing # <<>> /\ Len(order) = Len(listing) /\ Len(listing) \in Nat \ {0}
      /\ order \in Seq(places)
      /\ \A i, j \in 1..Len(order) : order[i] = order[j] => i = j
  BY DEF StateTypes, OrderKept
<1>2. order \in [places -> places] /\ DOMAIN order = places
  BY <1>1
<1>3. order \in Injection(places, places)
  BY <1>1, <1>2 DEF Injection, IsInjective
<1>4. IsFiniteSet(places)
  BY <1>1, FS_Interval
<1>5. order \in Surjection(places, places)
  BY <1>3, <1>4, FS_Injection
<1>6. \A k \in places : \E i \in places : order[i] = k
  BY <1>5 DEF Surjection
<1>7. ToSet(order) = places
  <2> HIDE DEF places
  <2> QED BY <1>2, <1>6 DEF ToSet
<1> QED BY <1>1, <1>7

\* The state of an aggregate is of the right types; past the sort every member
\* has its place in the order, once (ncml/mod.rs:91-103).
THEOREM TypeCorrect == Spec => []TypeOK
<1>1. ServeInv => TypeOK
  <2> SUFFICES ASSUME ServeInv PROVE TypeOK
    OBVIOUS
  <2>1. /\ ver \in [Files -> Nat] /\ docver \in 1..Len(Documents) /\ stage \in Stages
        /\ index \in [Files -> Nat]
        /\ modified \in Nat /\ modified <= docver /\ listing \in Seq(Files)
        /\ members \in [1..Len(listing) -> Members]
        /\ \A f \in Files : ver[f] \in 1..Len(Content[f])
    BY DEF ServeInv, OpenInv, StateTypes, DocumentKept, VersionsKept
  <2>2. ver \in [Files -> Nat \ {0}]
    BY <2>1
  <2>3. Len(Documents) \in Nat /\ modified \in 0..Len(Documents)
    BY <2>1
  <2>4. Len(members) = Len(listing) /\ \A k \in 1..Len(members) : members[k] \in Members
    <3>1. Len(listing) \in Nat /\ members \in [1..Len(listing) -> Members]
      BY <2>1
    <3>2. Len(members) = Len(listing)
      BY <3>1
    <3> QED BY <3>1, <3>2
  <2>5. ASSUME stage \in Sorted PROVE order # <<>> /\ ToSet(order) = 1..Len(listing)
    BY <2>5, OrderIsWhole DEF ServeInv, OpenInv
  <2>6. /\ read \in 0..Len(order)
        /\ status \in {"none", "data", "map", "other", "served", "broken", "out of range"}
        /\ first \in Nat /\ count \in Nat
        /\ reader \in [place : 0..Len(listing), version : Nat]
    BY DEF ServeInv, CacheKept, ResponseKept, ReadInOrder
  <2> QED BY <2>1, <2>2, <2>3, <2>4, <2>5, <2>6 DEF TypeOK
<1> QED BY <1>1, ServeInvariant, PTL
=============================================================================
