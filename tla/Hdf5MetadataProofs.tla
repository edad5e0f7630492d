------------------------- MODULE Hdf5MetadataProofs -------------------------
(***************************************************************************)
(* Proofs about Hdf5Metadata, for any files: the two walks over a file, one *)
(* for the DAS and one for the DDS, list the same members, and grids agree  *)
(* with their maps.                                                         *)
(***************************************************************************)
EXTENDS Hdf5Metadata, SumsProofs

LEMMA InitWalk == Init => WalkInv
<1> SUFFICES ASSUME Init PROVE WalkInv
  OBVIOUS
<1>1. WalkTypes
  BY FilesAssumption DEF Init, WalkTypes
<1>2. WalksAgree
  <2> DEFINE p == [i \in 1..0 |-> 1]
  <2>1. 0 \in 0..Len(file.members) /\ p \in [1..0 -> Positions]
    BY FilesAssumption DEF Init
  <2>2. Listing(0, p) /\ DasFollows(0, p) /\ DdsFollows(0, p)
    BY DEF Init, Listing, DasFollows, DdsFollows, DasWalked
  <2> QED BY <2>1, <2>2 DEF WalksAgree
<1> QED BY <1>1, <1>2 DEF WalkInv

LEMMA WalkTypesStep == WalkTypes /\ [Next]_vars => WalkTypes'
<1> SUFFICES ASSUME WalkTypes, [Next]_vars PROVE WalkTypes'
  OBVIOUS
<1>0. Len(file.members) \in Nat
  BY FilesAssumption DEF WalkTypes
<1>1. UNCHANGED <<file, builder>>
  BY DEF Next, vars, GlobalAttributes, DasVariable, DasDone, DdsVariable, DdsPanics, DdsDone
<1>2. Containers' = Containers /\ Variables' = Variables
  BY <1>1 DEF Containers, HasGlobal, GlobalContainer, Variables, Positions, VariableOf, Shape,
     Aggregated
<1>3. CASE GlobalAttributes
  <2>1. das' \in Seq(Containers)
    <3>1. CASE HasGlobal
      <4>1. GlobalContainer \in Containers
        BY <3>1 DEF Containers
      <4> QED BY <1>3, <3>1, <4>1 DEF GlobalAttributes
    <3>2. CASE ~HasGlobal
      BY <1>3, <3>2 DEF GlobalAttributes
    <3> QED BY <3>1, <3>2
  <2> QED BY <1>0, <1>1, <1>2, <1>3, <2>1 DEF WalkTypes, GlobalAttributes
<1>4. CASE DasVariable
  <2>1. ContainerOf(Member) \in Containers
    BY <1>0, <1>4 DEF WalkTypes, DasVariable, More, Member, Containers, Positions
  <2>2. das' \in Seq(Containers)
    BY <1>4, <2>1 DEF WalkTypes, DasVariable
  <2> QED BY <1>0, <1>1, <1>2, <1>4, <2>2 DEF WalkTypes, DasVariable, More
<1>5. CASE DasDone
  BY <1>0, <1>1, <1>2, <1>5 DEF WalkTypes, DasDone
<1>6. CASE DdsVariable
  <2>1. VariableOf(Member) \in Variables
    BY <1>0, <1>6 DEF WalkTypes, DdsVariable, More, Member, Variables, Positions
  <2>2. dds' \in Seq(Variables)
    BY <1>6, <2>1 DEF WalkTypes, DdsVariable
  <2> QED BY <1>0, <1>1, <1>2, <1>6, <2>2 DEF WalkTypes, DdsVariable, More
<1>7. CASE DdsPanics
  BY <1>0, <1>1, <1>2, <1>7 DEF WalkTypes, DdsPanics
<1>8. CASE DdsDone
  BY <1>0, <1>1, <1>2, <1>8 DEF WalkTypes, DdsDone, More
<1>9. CASE UNCHANGED vars
  BY <1>1, <1>2, <1>9 DEF WalkTypes, vars
<1> QED BY <1>3, <1>4, <1>5, <1>6, <1>7, <1>8, <1>9 DEF Next

LEMMA WalksStep == WalkInv /\ [Next]_vars => WalksAgree'
<1> SUFFICES ASSUME WalkInv, [Next]_vars PROVE WalksAgree'
  OBVIOUS
<1>0. Len(file.members) \in Nat /\ next \in Nat \ {0}
  BY FilesAssumption DEF WalkInv, WalkTypes
<1>1. UNCHANGED <<file, builder>>
  BY DEF Next, vars, GlobalAttributes, DasVariable, DasDone, DdsVariable, DdsPanics, DdsDone
<1>b. Before \in 0..1 /\ Before' = Before
  BY <1>1 DEF Before, HasGlobal
<1>2. Positions' = Positions /\ \A m : VariableOf(m)' = VariableOf(m)
  BY <1>1 DEF Positions, VariableOf, Shape, Aggregated
<1>3. PICK n \in 0..Len(file.members) : \E p \in [1..n -> Positions] :
          Listing(n, p) /\ DasFollows(n, p) /\ DdsFollows(n, p)
  BY DEF WalkInv, WalksAgree
<1>4. PICK p \in [1..n -> Positions] :
          Listing(n, p) /\ DasFollows(n, p) /\ DdsFollows(n, p)
  BY <1>3
<1>5. ASSUME Listing(n, p)', DasFollows(n, p)', DdsFollows(n, p)'
      PROVE WalksAgree'
  BY <1>1, <1>2, <1>5 DEF WalksAgree
<1>6. n \in Nat /\ \A i \in 1..n : p[i] \in 1..Len(file.members)
  BY <1>0 DEF Positions
<1>7. CASE GlobalAttributes
  <2>1. n = 0
    <3>1. \A i \in 1..n : FALSE
      BY <1>4, <1>7 DEF GlobalAttributes, Listing, DasWalked
    <3> QED BY <1>6, <3>1
  <2>2. Listing(n, p)'
    BY <1>0, <1>1, <1>7, <2>1 DEF WalkInv, WalkTypes, GlobalAttributes, Listing, DasWalked, Positions
  <2>3. DasFollows(n, p)' /\ DdsFollows(n, p)'
    BY <1>1, <1>7, <1>b, <2>1 DEF GlobalAttributes, DasFollows, DdsFollows, Before
  <2> QED BY <1>5, <2>2, <2>3
<1>8. CASE DasVariable
  <2>1. next \in Positions /\ Member = file.members[next] /\ n < next
    BY <1>0, <1>4, <1>8 DEF DasVariable, More, Member, Positions, Listing
  <2>2. CASE ~Listed(Member)
    <3>1. Listing(n, p)'
      BY <1>0, <1>1, <1>2, <1>4, <1>6, <1>8, <2>1, <2>2
      DEF DasVariable, Listing, DasWalked, Positions
    <3>2. DasFollows(n, p)' /\ DdsFollows(n, p)'
      BY <1>1, <1>4, <1>8, <1>b, <2>2 DEF DasVariable, DasFollows, DdsFollows
    <3> QED BY <1>5, <3>1, <3>2
  \* The member is added to the list.
  <2>3. CASE Listed(Member)
    <3> DEFINE m == n + 1
    <3>1. m \in 0..Len(file.members)
      BY <1>0, <1>6, <2>1 DEF Positions
    <3>0. PICK q \in [1..m -> Positions] :
              q = [i \in 1..m |-> IF i <= n THEN p[i] ELSE next]
      <4>1. \A i \in 1..m : (IF i <= n THEN p[i] ELSE next) \in Positions
        <5>1. \A i \in 1..m : i <= n => i \in 1..n
          BY <1>6
        <5>2. \A i \in 1..n : p[i] \in Positions
          OBVIOUS
        <5> QED BY <2>1, <5>1, <5>2
      <4>2. [i \in 1..m |-> IF i <= n THEN p[i] ELSE next] \in [1..m -> Positions]
        BY <4>1
      <4> QED BY <4>2
    <3>2. \A i \in 1..n : i \in 1..m /\ q[i] = p[i] /\ p[i] < next /\ p[i] \in Nat
      BY <1>4, <1>6, <1>8, <3>0 DEF DasVariable, Listing, DasWalked
    <3>3. m \in 1..m /\ q[m] = next /\ \A i \in 1..m : i = m \/ i \in 1..n
      BY <1>6, <3>0
    <3>4. Listing(m, q)'
      <4>1. ASSUME NEW i \in 1..m, NEW j \in 1..m, i < j PROVE q[i] < q[j]
        <5>1. i \in 1..n /\ q[i] = p[i]
          BY <1>6, <3>2, <4>1
        <5>2. CASE j = m
          BY <3>2, <3>3, <5>1, <5>2
        <5>3. CASE j \in 1..n
          BY <1>4, <3>2, <4>1, <5>1, <5>3 DEF Listing
        <5> QED BY <3>3, <5>2, <5>3
      <4>2. ASSUME NEW i \in 1..m PROVE Listed(file.members[q[i]]) /\ DasWalked(q[i])'
        <5>1. CASE i = m
          BY <1>0, <1>8, <2>1, <2>3, <3>3, <5>1 DEF DasVariable, DasWalked
        <5>2. CASE i \in 1..n
          BY <1>0, <1>4, <1>8, <3>2, <5>2 DEF DasVariable, DasWalked, Listing
        <5> QED BY <3>3, <5>1, <5>2
      <4>3. ASSUME NEW k \in Positions, Listed(file.members[k]), DasWalked(k)'
            PROVE \E i \in 1..m : q[i] = k
        <5>1. CASE k = next
          BY <3>3, <5>1
        <5>2. CASE k # next
          <6>1. DasWalked(k)
            BY <1>0, <1>8, <4>3, <5>2 DEF DasVariable, DasWalked, Positions
          <6>2. PICK i \in 1..n : p[i] = k
            BY <1>4, <4>3, <6>1 DEF Listing
          <6> QED BY <3>2, <6>2
        <5> QED BY <5>1, <5>2
      <4>4. stage' = "das" /\ m < next'
        BY <1>0, <1>6, <1>8, <2>1 DEF DasVariable
      <4> QED BY <1>1, <1>2, <4>1, <4>2, <4>3, <4>4 DEF Listing
    <3>5. DasFollows(m, q)'
      <4>0. n \in Nat
        BY <1>6
      <4>1. das \in Seq(Containers) /\ Len(das) = n + Before /\ das' = Append(das, ContainerOf(Member))
        BY <1>4, <1>8, <2>3 DEF WalkInv, WalkTypes, DasVariable, DasFollows
      <4>2. Len(das') = m + Before /\ das'[m + Before] = ContainerOf(file.members[next])
        BY <1>b, <2>1, <4>0, <4>1
      <4>3. ASSUME NEW i \in 1..n PROVE das'[i + Before] = ContainerOf(file.members[p[i]])
        <5>1. das[i + Before] = ContainerOf(file.members[p[i]])
          BY <1>4, <1>8 DEF DasFollows, DasVariable
        <5> QED BY <1>b, <4>0, <4>1, <5>1
      <4>4. \A i \in 1..m : das'[i + Before] = ContainerOf(file.members[q[i]])
        BY <3>2, <3>3, <4>2, <4>3
      <4> QED BY <1>1, <1>b, <4>2, <4>4 DEF DasFollows
    <3>6. DdsFollows(m, q)'
      BY <1>8 DEF DasVariable, DdsFollows
    <3> QED BY <1>1, <1>2, <3>1, <3>4, <3>5, <3>6 DEF WalksAgree
  <2> QED BY <2>2, <2>3
<1>9. CASE DasDone
  <2>1. Listing(n, p)'
    BY <1>0, <1>1, <1>2, <1>4, <1>6, <1>9 DEF DasDone, More, Listing, DasWalked, Positions
  <2>2. dds = <<>>
    BY <1>9 DEF WalkInv, WalkTypes, DasDone
  <2>3. DasFollows(n, p)' /\ DdsFollows(n, p)'
    BY <1>1, <1>4, <1>6, <1>9, <1>b, <2>2 DEF DasDone, DasFollows, DdsFollows
  <2> QED BY <1>5, <2>1, <2>3
<1>10. CASE DdsVariable
  <2>1. next \in Positions /\ Member = file.members[next]
    BY <1>0, <1>10 DEF DdsVariable, More, Member, Positions
  <2>2. Listing(n, p)' /\ DasFollows(n, p)'
    BY <1>1, <1>2, <1>4, <1>10, <1>b DEF DdsVariable, Listing, DasWalked, DasFollows
  <2>3. Len(dds) \in Nat /\ dds \in Seq(Variables)
    BY DEF WalkInv, WalkTypes
  <2>4. CASE ~Listed(Member)
    <3>1. \A i \in 1..n : p[i] # next
      BY <1>4, <2>1, <2>4 DEF Listing
    <3>2. dds' = dds /\ next' = next + 1 /\ stage = "dds"
      BY <1>10, <2>4 DEF DdsVariable
    <3>3. ASSUME NEW i \in 1..Len(dds)
          PROVE i <= n /\ p[i] < next + 1 /\ dds[i] = VariableOf(file.members[p[i]])
      <4>1. i <= n /\ p[i] < next /\ dds[i] = VariableOf(file.members[p[i]])
        BY <1>4, <3>2 DEF DdsFollows
      <4>2. p[i] \in Nat
        BY <1>6, <2>3, <4>1
      <4> QED BY <1>0, <4>1, <4>2
    <3>4. ASSUME NEW i \in 1..n, i > Len(dds) PROVE next + 1 <= p[i]
      BY <1>0, <1>4, <1>6, <3>1, <3>2, <3>4 DEF DdsFollows
    <3>5. DdsFollows(n, p)'
      BY <1>1, <1>2, <3>2, <3>3, <3>4 DEF DdsFollows
    <3> QED BY <1>5, <2>2, <3>5
  \* The member is the next one of the list, whose places are in order.
  <2>5. CASE Listed(Member)
    <3>1. PICK j \in 1..n : p[j] = next
      BY <1>4, <1>10, <2>1, <2>5 DEF DdsVariable, Listing, DasWalked
    <3>2. j = Len(dds) + 1
      <4>1. j > Len(dds)
        BY <1>0, <1>4, <1>10, <2>3, <3>1 DEF DdsVariable, DdsFollows
      <4>2. ASSUME Len(dds) + 1 < j PROVE FALSE
        <5>1. Len(dds) + 1 \in 1..n /\ Len(dds) + 1 > Len(dds)
          BY <1>6, <2>3, <4>2
        <5>2. next <= p[Len(dds) + 1]
          BY <1>4, <1>10, <5>1 DEF DdsVariable, DdsFollows
        <5>3. p[Len(dds) + 1] < p[j]
          BY <1>4, <4>2, <5>1 DEF Listing
        <5> QED BY <1>0, <1>6, <3>1, <5>1, <5>2, <5>3
      <4> QED BY <2>3, <4>1, <4>2
    <3>3. dds' = Append(dds, VariableOf(file.members[next])) /\ next' = next + 1
      BY <1>10, <2>1, <2>5 DEF DdsVariable
    <3>4. Len(dds') = j /\ dds'[j] = VariableOf(file.members[p[j]])
      BY <2>3, <3>1, <3>2, <3>3
    <3>5. \A i \in 1..Len(dds) :
             i <= n /\ p[i] < next /\ dds'[i] = VariableOf(file.members[p[i]])
      BY <1>4, <1>10, <2>3, <3>3 DEF DdsVariable, DdsFollows
    <3>6. ASSUME NEW i \in 1..n, i > j PROVE next + 1 <= p[i]
      <4>1. p[j] < p[i]
        BY <1>4, <3>6 DEF Listing
      <4> QED BY <1>0, <1>6, <3>1, <4>1
    <3>7. \A i \in 1..j : i <= n /\ p[i] < next + 1 /\ dds'[i] = VariableOf(file.members[p[i]])
      <4> TAKE i \in 1..j
      <4>1. CASE i = j
        BY <1>0, <3>1, <3>4, <4>1
      <4>2. CASE i # j
        <5>1. i \in 1..Len(dds)
          BY <2>3, <3>2, <4>2
        <5>2. p[i] \in Nat
          BY <1>6, <3>5, <5>1
        <5> QED BY <1>0, <3>5, <5>1, <5>2
      <4> QED BY <4>1, <4>2
    <3>8. DdsFollows(n, p)'
      BY <1>1, <1>2, <3>3, <3>4, <3>6, <3>7 DEF DdsFollows
    <3> QED BY <1>5, <2>2, <3>8
  <2> QED BY <2>4, <2>5
<1>11. CASE DdsPanics \/ DdsDone
  <2>1. Listing(n, p)' /\ DasFollows(n, p)' /\ DdsFollows(n, p)'
    BY <1>1, <1>2, <1>4, <1>11, <1>b DEF DdsPanics, DdsDone, Listing, DasWalked, DasFollows, DdsFollows
  <2> QED BY <1>5, <2>1
<1>12. CASE UNCHANGED vars
  <2>1. Listing(n, p)' /\ DasFollows(n, p)' /\ DdsFollows(n, p)'
    BY <1>1, <1>2, <1>4, <1>12, <1>b DEF vars, Listing, DasWalked, DasFollows, DdsFollows
  <2> QED BY <1>5, <2>1
<1> QED BY <1>7, <1>8, <1>9, <1>10, <1>11, <1>12 DEF Next

\* The inductive invariant: both walks list the members that are data sets with
\* storage, in the order of the file (hdf5/das.rs:32, hdf5/dds.rs:121,
\* ncml/dds.rs:32).
THEOREM WalkInvariant == Spec => []WalkInv
<1>1. WalkInv /\ [Next]_vars => WalkInv'
  BY WalkTypesStep, WalksStep DEF WalkInv
<1> QED BY InitWalk, <1>1, PTL DEF Spec

LEMMA DoneWalks ==
    ASSUME WalkInv, stage = "done"
    PROVE \E n \in Nat : \E p \in [1..n -> Positions] :
              /\ Len(das) = n + Before /\ Len(dds) = n
              /\ \A i \in 1..n : /\ Listed(file.members[p[i]])
                                 /\ das[i + Before] = ContainerOf(file.members[p[i]])
                                 /\ dds[i] = VariableOf(file.members[p[i]])
<1>0. Len(file.members) \in Nat /\ next = Len(file.members) + 1 /\ Len(dds) \in Nat
  BY FilesAssumption DEF WalkInv, WalkTypes
<1>1. PICK n \in 0..Len(file.members) : \E p \in [1..n -> Positions] :
          Listing(n, p) /\ DasFollows(n, p) /\ DdsFollows(n, p)
  BY DEF WalkInv, WalksAgree
<1>2. PICK p \in [1..n -> Positions] :
          Listing(n, p) /\ DasFollows(n, p) /\ DdsFollows(n, p)
  BY <1>1
<1>3. n \in Nat /\ \A i \in 1..n : p[i] \in 1..Len(file.members)
  BY <1>0 DEF Positions
<1>4. Len(dds) = n
  <2>1. \A i \in 1..n : i <= Len(dds)
    BY <1>0, <1>2, <1>3 DEF DdsFollows
  <2>2. \A i \in 1..Len(dds) : i <= n
    BY <1>2 DEF DdsFollows
  <2>3. n <= Len(dds)
    BY <1>0, <1>3, <2>1
  <2>4. Len(dds) <= n
    BY <1>0, <1>3, <2>2
  <2> QED BY <1>0, <1>3, <2>3, <2>4
<1>5. \A i \in 1..n : dds[i] = VariableOf(file.members[p[i]])
  BY <1>2, <1>4 DEF DdsFollows
<1> QED BY <1>2, <1>3, <1>4, <1>5 DEF Listing, DasFollows

\* Whatever a file holds, the DAS has a container for every variable of the DDS,
\* in the same place.
THEOREM DescribedAlike == Spec => []DasCoversDds
<1>1. WalkInv => DasCoversDds
  <2> SUFFICES ASSUME WalkInv, stage = "done"
               PROVE /\ Len(das) = Len(dds) + Before
                     /\ \A i \in DOMAIN dds : das[i + Before].name = dds[i].name
    BY DEF DasCoversDds
  <2>1. DOMAIN dds = 1..Len(dds)
    BY DEF WalkInv, WalkTypes
  <2>2. PICK n \in Nat : \E p \in [1..n -> Positions] :
            /\ Len(das) = n + Before /\ Len(dds) = n
            /\ \A i \in 1..n : /\ das[i + Before] = ContainerOf(file.members[p[i]])
                               /\ dds[i] = VariableOf(file.members[p[i]])
    BY DoneWalks
  <2>3. PICK p \in [1..n -> Positions] :
            /\ Len(das) = n + Before /\ Len(dds) = n
            /\ \A i \in 1..n : /\ das[i + Before] = ContainerOf(file.members[p[i]])
                               /\ dds[i] = VariableOf(file.members[p[i]])
    BY <2>2
  <2>4. ASSUME NEW i \in 1..n PROVE das[i + Before].name = dds[i].name
    <3>1. das[i + Before] = ContainerOf(file.members[p[i]]) /\ dds[i] = VariableOf(file.members[p[i]])
      BY <2>3
    <3>2. ContainerOf(file.members[p[i]]).name = file.members[p[i]].name
      BY DEF ContainerOf
    <3>3. VariableOf(file.members[p[i]]).name = file.members[p[i]].name
      BY DEF VariableOf
    <3> QED BY <3>1, <3>2, <3>3
  <2> QED BY <2>1, <2>3, <2>4
<1> QED BY <1>1, WalkInvariant, PTL

\* A grid shows the extents of its maps, as long as its file is a netCDF file, also
\* in an aggregate that puts its own extent into each of them (ncml/dds.rs:41-43).
THEOREM GridsAgree == Spec => []GridsAreConsistent
<1>1. WalkInv => GridsAreConsistent
  <2> SUFFICES ASSUME WalkInv, stage = "done",
                      NEW x \in ToSet(dds), NEW y \in ToSet(dds), NEW i \in DOMAIN x.dims,
                      Len(x.dims) > 1, x.dims[i] = y.name
               PROVE y.shape = <<x.shape[i]>>
    BY DEF GridsAreConsistent
  <2>1. dds \in Seq(Variables) /\ DOMAIN dds = 1..Len(dds)
    BY DEF WalkInv, WalkTypes
  <2>2. ASSUME NEW z \in ToSet(dds)
        PROVE \E k \in Positions : Listed(file.members[k]) /\ z = VariableOf(file.members[k])
    <3>1. PICK j \in 1..Len(dds) : z = dds[j]
      BY <2>1, <2>2 DEF ToSet
    <3>2. PICK n \in Nat : \E p \in [1..n -> Positions] :
              /\ Len(dds) = n
              /\ \A h \in 1..n : /\ Listed(file.members[p[h]])
                                 /\ dds[h] = VariableOf(file.members[p[h]])
      BY DoneWalks
    <3>3. PICK p \in [1..n -> Positions] :
              /\ Len(dds) = n
              /\ \A h \in 1..n : /\ Listed(file.members[p[h]])
                                 /\ dds[h] = VariableOf(file.members[p[h]])
      BY <3>2
    <3>4. p[j] \in Positions /\ Listed(file.members[p[j]]) /\ z = VariableOf(file.members[p[j]])
      BY <3>1, <3>3
    <3> QED BY <3>4
  <2>3. PICK k \in Positions : Listed(file.members[k]) /\ x = VariableOf(file.members[k])
    BY <2>2
  <2>4. PICK l \in Positions : Listed(file.members[l]) /\ y = VariableOf(file.members[l])
    BY <2>2
  <2> DEFINE v == file.members[k]
             w == file.members[l]
  <2>5. /\ x.dims = Dimensions(v) /\ x.shape = Shape(v)
        /\ y.name = w.name /\ y.shape = Shape(w)
    BY <2>3, <2>4 DEF VariableOf
  <2>6. file \in Files /\ builder \in Builders
    BY DEF WalkInv, WalkTypes
  <2>7. /\ v.shape \in Seq(Nat)
        /\ v.scales # Unlabelled => v.scales \in Seq(STRING) /\ Len(v.scales) = Len(v.shape)
        /\ \A h \in Along(v, w) : Dimensions(w) = <<w.name>> /\ w.shape = <<v.shape[h]>>
    BY <2>3, <2>4, <2>6, FilesAssumption DEF Positions
  <2> HIDE DEF v, w
  <2>8. Dimensions(w) = <<w.name>> /\ w.shape = <<v.shape[i]>>
    BY <2>5, <2>7 DEF Along
  <2>9. v.scales # Unlabelled /\ i \in 1..Len(v.shape)
    <3>1. v.scales # Unlabelled
      BY <2>5 DEF Dimensions
    <3> QED BY <2>5, <2>7, <3>1 DEF Dimensions
  <2>10. CASE builder = Hdf5
    BY <2>5, <2>8, <2>10 DEF Shape, Aggregated
  <2>11. CASE builder # Hdf5
    <3>1. \A h \in DOMAIN Dimensions(v) : Dimensions(v)[h] = builder.dimension => h = 1
      BY <2>3, <2>6, <2>11, BuildersAssumption DEF Positions, v
    <3>2. Aggregated(w) <=> w.name = builder.dimension
      BY <2>8, <2>11 DEF Aggregated
    <3>3. Dimensions(v) # <<>> /\ Dimensions(v)[i] = w.name
      BY <2>5
    \* The aggregation dimension itself: both extents are that of the aggregate.
    <3>4. CASE w.name = builder.dimension
      <4>1. i = 1 /\ Aggregated(v) /\ Aggregated(w)
        BY <2>5, <2>11, <3>1, <3>2, <3>3, <3>4 DEF Aggregated
      <4>2. Shape(v)[1] = builder.n
        BY <2>7, <2>9, <4>1 DEF Shape
      <4>3. Shape(w) = <<builder.n>>
        BY <2>8, <4>1 DEF Shape
      <4> QED BY <2>5, <4>1, <4>2, <4>3
    \* Another one, which the aggregate leaves alone in both.
    <3>5. CASE w.name # builder.dimension
      <4>1. Shape(w) = <<v.shape[i]>>
        BY <2>8, <3>2, <3>5 DEF Shape
      <4>2. Shape(v)[i] = v.shape[i]
        <5>1. CASE Aggregated(v)
          <6>1. i # 1
            BY <3>3, <3>5, <5>1 DEF Aggregated
          <6> QED BY <2>7, <2>9, <5>1, <6>1 DEF Shape
        <5>2. CASE ~Aggregated(v)
          BY <5>2 DEF Shape
        <5> QED BY <5>1, <5>2
      <4> QED BY <2>5, <4>1, <4>2
    <3> QED BY <3>4, <3>5
  <2> QED BY <2>10, <2>11
<1> QED BY <1>1, WalkInvariant, PTL

-----------------------------------------------------------------------------
(* Attributes.                                                              *)

\* What is shown of attributes are some of them, each with a type to print.
LEMMA ShownAttributes ==
  ASSUME NEW attrs \in Seq(Attributes), NEW a \in ToSet(Shown(attrs))
  PROVE  \E b \in ToSet(attrs) : a = Described(b) /\ AttrType(b) # "hidden"
<1> DEFINE S == {c \in {Described(attrs[i]) : i \in DOMAIN attrs} :
                    \E b \in ToSet(attrs) : c = Described(b) /\ AttrType(b) # "hidden"}
           one(i) == IF AttrType(attrs[i]) = "hidden" THEN <<>> ELSE <<Described(attrs[i])>>
           ss == [i \in DOMAIN attrs |-> one(i)]
<1>1. ASSUME NEW i \in DOMAIN attrs PROVE one(i) \in Seq(S)
  <2>1. CASE AttrType(attrs[i]) = "hidden"
    BY <2>1
  <2>2. CASE AttrType(attrs[i]) # "hidden"
    <3>1. attrs[i] \in ToSet(attrs)
      BY DEF ToSet
    <3>2. Described(attrs[i]) \in S
      BY <2>2, <3>1
    <3> HIDE DEF S
    <3> QED BY <2>2, <3>2
  <2> QED BY <2>1, <2>2
<1>2. ss \in Seq(Seq(S))
  <2>1. DOMAIN attrs = 1..Len(attrs) /\ Len(attrs) \in Nat
    OBVIOUS
  <2> HIDE DEF one, S
  <2> QED BY <1>1, <2>1
<1>3. Shown(attrs) = FlattenSeq(ss)
  BY DEF Shown
<1> HIDE DEF ss, S
<1>4. Shown(attrs) \in Seq(S)
  BY <1>2, <1>3, Flattened
<1>5. a \in S
  BY <1>4 DEF ToSet
<1> QED BY <1>5 DEF S

LEMMA ShownTypes ==
  ASSUME NEW attrs \in Seq(Attributes), NEW a \in ToSet(Shown(attrs))
  PROVE  a.type \in Printed
<1>1. PICK b \in ToSet(attrs) : a = Described(b) /\ AttrType(b) # "hidden"
  BY ShownAttributes
<1>2. a.type = AttrType(b)
  BY <1>1 DEF Described
<1> QED BY <1>1, <1>2 DEF AttrType, Printed

\* The extents of what is listed are numbers, of an aggregate too.
LEMMA ShapeType ==
  ASSUME WalkTypes, NEW x \in Positions, Listed(file.members[x])
  PROVE  Shape(file.members[x]) \in Seq(Nat)
<1> DEFINE m == file.members[x]
<1>1. m.shape \in Seq(Nat)
  BY FilesAssumption DEF WalkTypes, Positions
<1> HIDE DEF m
<1>2. CASE Aggregated(m)
  <2>1. builder.n \in Nat
    BY <1>2, BuildersAssumption DEF Aggregated, WalkTypes
  <2>2. Shape(m) = [m.shape EXCEPT ![1] = builder.n]
    BY <1>2 DEF Shape
  <2>3. PICK L \in Nat : m.shape \in [1..L -> Nat]
    BY <1>1
  <2>4. [m.shape EXCEPT ![1] = builder.n] \in [1..L -> Nat]
    BY <2>1, <2>3
  <2> QED BY <2>2, <2>3, <2>4 DEF m
<1>3. CASE ~Aggregated(m)
  <2>1. Shape(m) = m.shape
    BY <1>3 DEF Shape
  <2> QED BY <1>1, <2>1 DEF m
<1> QED BY <1>2, <1>3 DEF m

\* What is shown has a type that is printed, and extents.
THEOREM TypeCorrect == Spec => []TypeOK
<1>1. WalkInv => TypeOK
  <2> SUFFICES ASSUME WalkInv PROVE TypeOK
    OBVIOUS
  <2>0. file \in Files /\ das \in Seq(Containers) /\ dds \in Seq(Variables)
    BY DEF WalkInv, WalkTypes
  <2>1. PICK n \in 0..Len(file.members) : \E p \in [1..n -> Positions] :
            Listing(n, p) /\ DasFollows(n, p) /\ DdsFollows(n, p)
    BY DEF WalkInv, WalksAgree
  <2>2. PICK p \in [1..n -> Positions] :
            Listing(n, p) /\ DasFollows(n, p) /\ DdsFollows(n, p)
    BY <2>1
  <2>3. ASSUME NEW i \in DOMAIN das, NEW a \in ToSet(das[i].attrs) PROVE a.type \in Printed
    <3>1. das[i] \in Containers
      BY <2>0
    <3>2. (HasGlobal => file.global \in Seq(Attributes))
          /\ \A x \in Positions : file.members[x].attrs \in Seq(Attributes)
      BY <2>0, FilesAssumption DEF Positions, HasGlobal
    <3>3. CASE HasGlobal /\ das[i] = GlobalContainer
      <4>1. a \in ToSet(Shown(file.global))
        BY <3>3 DEF GlobalContainer
      <4> QED BY <3>2, <3>3, <4>1, ShownTypes
    <3>4. CASE \E x \in Positions : das[i] = ContainerOf(file.members[x])
      <4>1. PICK x \in Positions : das[i] = ContainerOf(file.members[x])
        BY <3>4
      <4>2. a \in ToSet(Shown(file.members[x].attrs))
        BY <4>1 DEF ContainerOf
      <4> QED BY <3>2, <4>2, ShownTypes
    <3> QED BY <3>1, <3>3, <3>4 DEF Containers
  <2>4. ASSUME NEW i \in DOMAIN dds PROVE dds[i].shape \in Seq(Nat)
    <3>1. i \in 1..Len(dds) /\ dds # <<>>
      BY <2>0
    <3>2. stage \in {"dds", "done", "panic"}
      BY <3>1 DEF WalkInv, WalkTypes
    <3>3. i <= n /\ dds[i] = VariableOf(file.members[p[i]])
      BY <2>2, <3>1, <3>2 DEF DdsFollows
    <3>4. i \in 1..n
      BY <2>1, <3>1, <3>3
    <3>5. p[i] \in Positions /\ Listed(file.members[p[i]])
      BY <2>2, <3>4 DEF Listing
    <3>6. dds[i].shape = Shape(file.members[p[i]])
      BY <3>3 DEF VariableOf
    <3> QED BY <3>5, <3>6, ShapeType DEF WalkInv
  <2> QED BY <2>3, <2>4 DEF TypeOK, WalkInv, WalkTypes
<1> QED BY <1>1, WalkInvariant, PTL

\* The two tables of types agree on fill values: what has the type of its variable
\* in the file has it in the response (hdf5/das.rs:83-100, hdf5/dds.rs:19-43).
THEOREM FillValuesFit == Spec => []FillValueHasTypeOfVariable
<1>1. WalkInv => FillValueHasTypeOfVariable
  <2> SUFFICES ASSUME WalkInv, stage = "done", NEW i \in DOMAIN dds,
                      NEW a \in ToSet(das[i + Before].attrs),
                      a.name = "_FillValue", dds[i].type # "Unimplemented"
               PROVE  a.type = dds[i].type
    BY DEF FillValueHasTypeOfVariable
  <2>0. file \in Files /\ DOMAIN dds = 1..Len(dds)
    BY DEF WalkInv, WalkTypes
  <2>1. PICK n \in Nat : \E p \in [1..n -> Positions] :
            /\ Len(dds) = n
            /\ \A h \in 1..n : /\ Listed(file.members[p[h]])
                               /\ das[h + Before] = ContainerOf(file.members[p[h]])
                               /\ dds[h] = VariableOf(file.members[p[h]])
    BY DoneWalks
  <2>2. PICK p \in [1..n -> Positions] :
            /\ Len(dds) = n
            /\ \A h \in 1..n : /\ Listed(file.members[p[h]])
                               /\ das[h + Before] = ContainerOf(file.members[p[h]])
                               /\ dds[h] = VariableOf(file.members[p[h]])
    BY <2>1
  <2>3. i \in 1..n
    BY <2>0, <2>2
  <2>4. PICK x \in Positions : /\ Listed(file.members[x])
                               /\ das[i + Before] = ContainerOf(file.members[x])
                               /\ dds[i] = VariableOf(file.members[x])
    BY <2>2, <2>3
  <2> DEFINE m == file.members[x]
  <2>5. /\ m.attrs \in Seq(Attributes)
        /\ \A b \in ToSet(m.attrs) : b.name = "_FillValue" => b.type = m.type
    BY <2>0, <2>4, FilesAssumption DEF Positions
  <2>6. a \in ToSet(Shown(m.attrs)) /\ dds[i].type = VarType(m.type)
    BY <2>4 DEF ContainerOf, VariableOf
  <2> HIDE DEF m
  <2>7. PICK b \in ToSet(m.attrs) : a = Described(b) /\ AttrType(b) # "hidden"
    BY <2>5, <2>6, ShownAttributes
  <2>8. b.name = "_FillValue" /\ a.type = AttrType(b)
    BY <2>7 DEF Described
  <2>9. b.type = m.type
    BY <2>5, <2>8
  <2>10. VarType(b.type) # "Unimplemented" => AttrType(b) = VarType(b.type)
    BY <2>7, <2>8 DEF AttrType, VarType, Bookkeeping
  <2> QED BY <2>6, <2>8, <2>9, <2>10
<1> QED BY <1>1, WalkInvariant, PTL
=============================================================================
