---------------------------- MODULE DevicesProofs -----------------------------
(***************************************************************************)
(* Proofs about Devices, for every set of devices and every size of the    *)
(* lists.  Until a camera is added, devlist and keepalivelist are parallel *)
(* arrays: each cell in use of the one names the device in the same cell   *)
(* of the other, with the time since that device was heard of.  What the   *)
(* supervision promises follows from that.                                 *)
(***************************************************************************)
EXTENDS Devices, TLAPS, WellFoundedInduction, FiniteSetTheorems, SequenceTheorems

ListTypes ==
  /\ devcount \in 0 .. MAXDEVICENUM
  /\ devlist \in [Cell -> Did \cup {None}]
  /\ \A x \in Cell : devlist[x] = None <=> x >= devcount
  /\ keepalivelist \in [Cell -> [did : Did \cup {None}, age : Age]]
  /\ quiet \in [Did -> 0 .. MaxAge]

Distinct == \A x, y \in Used(devcount) : devlist[x] = devlist[y] => x = y

Parallel ==
  \A k \in Used(devcount) :
    /\ keepalivelist[k].did = devlist[k]
    /\ keepalivelist[k].age = quiet[devlist[k]]

DevInv == ListTypes /\ Distinct /\ (~camAdded => Parallel)

-----------------------------------------------------------------------------
(* No device has the did of an empty cell. *)
LEMMA NoneIsNoDevice == None \notin Did
  BY DevicesAssumption DEF None, Did, Camera

(* The bounds on the lists leave room for one entry. *)
LEMMA Sizes ==
  /\ MAXDEVICENUM \in Nat /\ MAXDEVICENUM >= 1
  /\ MaxAge \in Nat
  /\ 0 \in 0 .. MaxAge /\ 0 \in Age /\ Never \in Age
  BY DevicesAssumption DEF Age, Never

(* The cells in use are those below the count. *)
LEMMA UsedBelow ==
  ASSUME NEW n \in 0 .. MAXDEVICENUM
  PROVE  \A x \in Used(n) : x \in Cell /\ ~(x >= n)
BY Sizes DEF Used, Cell

(* A cell in use is a cell. *)
LEMMA UsedCells ==
  ASSUME ListTypes
  PROVE  /\ devcount \in Nat /\ devcount <= MAXDEVICENUM
         /\ \A x \in Used(devcount) : x \in Cell /\ x < devcount /\ devlist[x] \in Did
<1>1. devcount \in Nat /\ devcount <= MAXDEVICENUM
  BY Sizes DEF ListTypes
<1>2. \A x \in Used(devcount) : x \in Cell /\ x < devcount
  BY <1>1, Sizes DEF Used, Cell
<1>3. \A x \in Used(devcount) : devlist[x] # None
  BY <1>1, <1>2 DEF ListTypes, Cell
<1>4. QED
  BY <1>1, <1>2, <1>3 DEF ListTypes

(* The loops' "first" is there whenever there is any. *)
LEMMA FirstIsThere ==
  ASSUME NEW S \in SUBSET Nat, S # {}
  PROVE  First(S) \in S /\ \A j \in S : First(S) <= j
<1> DEFINE Less == {ss \in Nat \X Nat : ss[1] < ss[2]}
<1>1. IsWellFoundedOn(Less, Nat)
  BY NatLessThanWellFounded DEF OpToRel
<1>2. \E k \in S : \A j \in S : k <= j
  <2>1. PICK k \in S : \A j \in S : ~ (<<j, k>> \in Less)
    BY <1>1, WFMin
  <2>2. ASSUME NEW j \in S, ~ (k <= j)
        PROVE  FALSE
    <3>1. j < k /\ <<j, k>> \in Nat \X Nat
      BY <2>2
    <3>2. <<j, k>> \in Less
      BY <3>1
    <3>3. QED
      BY <2>1, <3>2
  <2>3. QED
    BY <2>2
<1>3. QED
  BY <1>2 DEF First

(* The first of one is that one. *)
LEMMA FirstOfOne ==
  ASSUME NEW k \in Nat
  PROVE  First({k}) = k
  BY FirstIsThere

(* A full list has an oldest entry. *)
LEMMA OldestIsThere ==
  ASSUME ListTypes
  PROVE  First(Oldest) \in Cell /\ First(Oldest) \in Oldest
<1> DEFINE Left == {Never - keepalivelist[k].age : k \in Cell}
<1>1. \A k \in Cell : keepalivelist[k].age \in 0 .. Never
  BY DEF ListTypes, Age
<1>2. Never \in Nat /\ 0 \in Cell /\ Cell \subseteq Nat
  BY DevicesAssumption DEF Never, Cell
<1>3. Left \in SUBSET Nat /\ Left # {}
  BY <1>1, <1>2
<1>4. First(Left) \in Left /\ \A j \in Left : First(Left) <= j
  BY <1>3, FirstIsThere
<1>5. PICK k \in Cell : First(Left) = Never - keepalivelist[k].age
  BY <1>4
<1>6. \A j \in Cell : keepalivelist[j].age <= keepalivelist[k].age
  <2> TAKE j \in Cell
  <2>1. Never - keepalivelist[j].age \in Left
    OBVIOUS
  <2>2. Never - keepalivelist[k].age <= Never - keepalivelist[j].age
    BY <2>1, <1>4, <1>5
  <2>3. QED
    BY <2>2, <1>1, <1>2
<1>7. k \in Oldest
  BY <1>6 DEF Oldest
<1>8. Oldest \in SUBSET Nat /\ Oldest # {} /\ Oldest \subseteq Cell
  BY <1>2, <1>7 DEF Oldest
<1>9. QED
  BY <1>8, FirstIsThere

(* A listed device has its place. *)
LEMMA Place ==
  ASSUME ListTypes, NEW d \in Listed
  PROVE  /\ PlaceOf(d) \in Used(devcount)
         /\ PlaceOf(d) \in Cell
         /\ devlist[PlaceOf(d)] = d
         /\ d \in Did
<1>1. PICK x \in Used(devcount) : devlist[x] = d
  BY DEF Listed
<1>2. PlaceOf(d) \in Used(devcount) /\ devlist[PlaceOf(d)] = d
  BY <1>1 DEF PlaceOf
<1>3. QED
  BY <1>2, DevicesAssumption DEF ListTypes, Used, Cell

(* While the arrays are parallel a listed device has one entry, in its own  *)
(* place, and a device that is not listed has none.                         *)
LEMMA OneEntry ==
  ASSUME ListTypes, Distinct, Parallel, NEW d \in Did
  PROVE  /\ d \in Listed => /\ Watching(d) = {PlaceOf(d)}
                            /\ First(Watching(d)) = PlaceOf(d)
         /\ d \notin Listed => Watching(d) = {}
<1>1. Watching(d) = {k \in Used(devcount) : devlist[k] = d}
  BY DEF Watching, Parallel
<1>2. ASSUME d \in Listed
      PROVE  Watching(d) = {PlaceOf(d)} /\ First(Watching(d)) = PlaceOf(d)
  <2>1. /\ PlaceOf(d) \in Used(devcount)
        /\ PlaceOf(d) \in Nat
        /\ devlist[PlaceOf(d)] = d
    BY <1>2, Place DEF Cell
  <2>2. Watching(d) = {PlaceOf(d)}
    BY <1>1, <2>1 DEF Distinct
  <2>3. QED
    BY <2>1, <2>2, FirstOfOne
<1>3. QED
  BY <1>1, <1>2 DEF Listed

-----------------------------------------------------------------------------
(* What Pair does to the arrays, in the words of its two cases. *)
LEMMA PairSteps ==
  ASSUME NEW d \in RF, Pair(d)
  PROVE  /\ d \notin Listed
         /\ quiet' = [e \in Did |-> IF e \in Listed' \ {d} THEN quiet[e] ELSE 0]
         /\ devcount # MAXDEVICENUM =>
              /\ devcount' = devcount + 1
              /\ devlist' = [devlist EXCEPT ![devcount] = d]
              /\ keepalivelist' =
                   [keepalivelist EXCEPT ![devcount] = [did |-> d, age |-> 0]]
         /\ devcount = MAXDEVICENUM =>
              /\ devcount' = MAXDEVICENUM - 1 + 1
              /\ devlist' = [Compacted(devlist, PlaceOf(GivenUp), None)
                               EXCEPT ![MAXDEVICENUM - 1] = d]
              /\ keepalivelist' = [Freed(First(Oldest))
                                     EXCEPT ![MAXDEVICENUM - 1] = [did |-> d, age |-> 0]]
  BY DEF Pair

(* The cell that freeoneDevice empties leaves a hole to close. *)
LEMMA FreedType ==
  ASSUME ListTypes, NEW j \in Cell
  PROVE  Freed(j) \in [Cell -> [did : Did \cup {None}, age : Age]]
<1> DEFINE emptied == [keepalivelist EXCEPT ![j] = Blank]
           holes == {k \in Cell : emptied[k].did = None}
<1>1. Blank \in [did : Did \cup {None}, age : Age]
  BY DevicesAssumption DEF Blank, Age, Never
<1>2. /\ emptied \in [Cell -> [did : Did \cup {None}, age : Age]]
      /\ emptied[j].did = None
  BY <1>1 DEF ListTypes, Blank
<1>3. holes \in SUBSET Nat /\ j \in holes
  BY <1>2 DEF Cell
<1>4. First(holes) \in Cell
  BY <1>3, FirstIsThere
<1>5. Compacted(emptied, First(holes), Blank)
        \in [Cell -> [did : Did \cup {None}, age : Age]]
  <2> HIDE DEF emptied, holes
  <2>1. \A x \in Cell : x # MAXDEVICENUM - 1 => x + 1 \in Cell
    BY DevicesAssumption DEF Cell
  <2>2. QED
    BY <1>1, <1>2, <1>4, <2>1 DEF Compacted
<1>6. QED
  BY <1>5 DEF Freed

(* One more device fits: the lists keep their shape. *)
LEMMA PairKeepsTypes ==
  ASSUME ListTypes, Distinct, NEW d \in RF, Pair(d)
  PROVE  ListTypes' /\ Distinct'
<1>1. d \in Did /\ d # None
  BY NoneIsNoDevice DEF Did
<1>0. /\ d \notin Listed
      /\ quiet' = [e \in Did |-> IF e \in Listed' \ {d} THEN quiet[e] ELSE 0]
  BY PairSteps
<1>2. [did |-> d, age |-> 0] \in [did : Did \cup {None}, age : Age]
  BY <1>1, Sizes
<1>3. quiet' \in [Did -> 0 .. MaxAge]
  BY <1>0, Sizes DEF ListTypes
<1>4. \A x \in Used(devcount) : x \in Cell /\ devlist[x] # d
  BY <1>0, UsedCells DEF Listed
<1>5. CASE devcount # MAXDEVICENUM
  <2>1. /\ devcount \in Cell /\ devcount \in Nat
        /\ devcount' = devcount + 1 /\ devcount' \in 0 .. MAXDEVICENUM
    <3>1. devcount' = devcount + 1
      BY <1>5, PairSteps
    <3>2. QED
      BY <1>5, <3>1, Sizes, UsedCells DEF Cell
  <2>2. devlist' = [devlist EXCEPT ![devcount] = d]
    BY <1>5, PairSteps
  <2>3. \A x \in Cell : devlist'[x] = IF x = devcount THEN d ELSE devlist[x]
    BY <2>2 DEF ListTypes
  <2>4. devlist' \in [Cell -> Did \cup {None}]
    BY <1>1, <2>2 DEF ListTypes
  <2>5. \A x \in Cell : devlist'[x] = None <=> x >= devcount'
    BY <1>1, <2>1, <2>3 DEF ListTypes, Cell
  <2>6. keepalivelist' \in [Cell -> [did : Did \cup {None}, age : Age]]
    BY <1>2, <1>5, PairSteps DEF ListTypes
  <2>7. \A x \in Used(devcount') : x \in Cell /\ (x = devcount \/ x \in Used(devcount))
    BY <2>1, Sizes DEF Used, Cell
  <2>8. Distinct'
    BY <1>4, <2>3, <2>7 DEF Distinct
  <2>9. QED
    BY <1>3, <2>1, <2>4, <2>5, <2>6, <2>8 DEF ListTypes
<1>6. CASE devcount = MAXDEVICENUM
  <2> DEFINE p == PlaceOf(GivenUp)
             last == MAXDEVICENUM - 1
  <2>1. /\ last \in Cell /\ devcount' = MAXDEVICENUM /\ MAXDEVICENUM \in Nat
        /\ Used(devcount) = Cell /\ Used(devcount') = Cell
    <3>1. devcount' = MAXDEVICENUM - 1 + 1
      BY <1>6, PairSteps
    <3>2. QED
      BY <1>6, <3>1, Sizes DEF Cell, Used
  <2>2. GivenUp \in Listed
    BY <2>1 DEF GivenUp, Listed
  <2>3. p \in Cell
    BY <2>2, Place
  <2> HIDE DEF p
  <2>4. devlist' = [Compacted(devlist, p, None) EXCEPT ![last] = d]
    BY <1>6, PairSteps DEF p
  <2>5. \A x \in Cell : x # last => x + 1 \in Cell
    BY <2>1 DEF Cell
  <2>6. Compacted(devlist, p, None) \in [Cell -> Did \cup {None}]
    BY <2>5 DEF Compacted, ListTypes
  <2>7. \A x \in Cell : devlist'[x] = IF x = last THEN d
                                      ELSE IF x < p THEN devlist[x] ELSE devlist[x + 1]
    BY <2>4, <2>6 DEF Compacted
  <2>8. devlist' \in [Cell -> Did \cup {None}]
    BY <1>1, <2>4, <2>6
  <2>9. \A x \in Cell : devlist[x] # None /\ devlist[x] # d
    BY <1>4, <2>1, UsedCells, NoneIsNoDevice
  <2>10. \A x \in Cell : devlist'[x] = None <=> x >= devcount'
    BY <1>1, <2>1, <2>5, <2>7, <2>9 DEF Cell
  <2>11. keepalivelist' \in [Cell -> [did : Did \cup {None}, age : Age]]
    <3>1. Freed(First(Oldest)) \in [Cell -> [did : Did \cup {None}, age : Age]]
      BY OldestIsThere, FreedType
    <3>2. keepalivelist' = [Freed(First(Oldest)) EXCEPT ![last] = [did |-> d, age |-> 0]]
      BY <1>6, PairSteps
    <3>3. QED
      BY <1>2, <3>1, <3>2
  <2>12. Distinct'
    <3>1. \A x, y \in Cell : devlist[x] = devlist[y] => x = y
      BY <2>1 DEF Distinct
    <3>2. ASSUME NEW x \in Cell, NEW y \in Cell, devlist'[x] = devlist'[y]
          PROVE  x = y
      BY <2>3, <2>5, <2>7, <2>9, <3>1, <3>2 DEF Cell
    <3>3. QED
      BY <2>1, <3>2 DEF Distinct
  <2>13. QED
    BY <1>3, <2>1, <2>8, <2>10, <2>11, <2>12 DEF ListTypes
<1>7. QED
  BY <1>5, <1>6

(* A pairing adds one device to the list, and gives one up if it is full. *)
LEMMA PairListed ==
  ASSUME ListTypes, Distinct, NEW d \in RF, Pair(d)
  PROVE  /\ devcount # MAXDEVICENUM => Listed' = Listed \cup {d}
         /\ devcount = MAXDEVICENUM =>
              GivenUp \in Listed /\ Listed' = (Listed \ {GivenUp}) \cup {d}
<1>1. CASE devcount # MAXDEVICENUM
  <2>1. devcount' = devcount + 1 /\ devlist' = [devlist EXCEPT ![devcount] = d]
    BY <1>1, PairSteps
  <2>2. devcount \in Cell /\ devcount \in Used(devcount')
    BY <1>1, <2>1, UsedCells, Sizes DEF Used, Cell
  <2>3. \A x \in Used(devcount) : x \in Used(devcount') /\ devlist'[x] = devlist[x]
    BY <2>1, UsedCells DEF Used, ListTypes
  <2>4. devlist'[devcount] = d
    BY <2>1, <2>2 DEF ListTypes
  <2>5. \A x \in Used(devcount') : x \in Used(devcount) \/ x = devcount
    BY <2>1, UsedCells DEF Used
  <2>6. QED
    BY <1>1, <2>2, <2>3, <2>4, <2>5 DEF Listed
<1>2. CASE devcount = MAXDEVICENUM
  <2> DEFINE j == PlaceOf(GivenUp)
             last == MAXDEVICENUM - 1
  <2>1. /\ devlist' = [Compacted(devlist, j, None) EXCEPT ![last] = d]
        /\ devcount' = MAXDEVICENUM - 1 + 1
    BY <1>2, PairSteps
  <2>2. Used(devcount) = Cell /\ Used(devcount') = Cell
    BY <1>2, <2>1, Sizes DEF Used, Cell
  <2>3. GivenUp \in Listed
    BY <2>2, Sizes DEF GivenUp, Listed, Cell
  <2>4. j \in Cell /\ devlist[j] = GivenUp
    BY <2>3, Place
  <2> HIDE DEF j
  <2>5. \A x \in Cell : devlist'[x] = IF x = last THEN d
                                      ELSE IF x < j THEN devlist[x] ELSE devlist[x + 1]
    BY <2>1 DEF Compacted
  <2>6. Listed = {devlist[x] : x \in Cell} /\ Listed' = {devlist'[x] : x \in Cell}
    BY <2>2 DEF Listed
  <2>7. \A x, y \in Cell : devlist[x] = devlist[y] => x = y
    BY <2>2 DEF Distinct
  <2>8. last \in Cell /\ devlist'[last] = d
    BY <2>5, Sizes DEF Cell
  <2>9. ASSUME NEW x \in Cell
        PROVE  devlist'[x] = d \/ devlist'[x] \in Listed \ {GivenUp}
    <3>1. CASE x = last
      BY <2>5, <3>1
    <3>2. CASE x # last
      <4> DEFINE from == IF x < j THEN x ELSE x + 1
      <4>1. from \in Cell /\ from # j
        BY <2>4, <3>2, Sizes DEF Cell
      <4>2. devlist'[x] = devlist[from]
        BY <2>5, <3>2
      <4> HIDE DEF from
      <4>3. QED
        BY <2>4, <2>6, <2>7, <4>1, <4>2
    <3>3. QED
      BY <3>1, <3>2
  <2>10. ASSUME NEW x \in Cell, devlist[x] # GivenUp
         PROVE  devlist[x] \in Listed'
    <3>1. x # j
      BY <2>4, <2>10
    <3> DEFINE to == IF x < j THEN x ELSE x - 1
    <3>2. to \in Cell /\ to # last
      BY <2>4, <3>1, Sizes DEF Cell
    <3>3. devlist'[to] = devlist[x]
      <4>1. CASE x < j
        BY <2>5, <3>2, <4>1
      <4>2. CASE x > j
        <5>1. to = x - 1 /\ ~ (to < j) /\ to + 1 = x
          BY <2>4, <4>2 DEF Cell
        <5>2. QED
          BY <2>5, <3>2, <5>1
      <4>3. QED
        BY <2>4, <3>1, <4>1, <4>2 DEF Cell
    <3> HIDE DEF to
    <3>4. QED
      BY <2>6, <3>2, <3>3
  <2>11. Listed' = (Listed \ {GivenUp}) \cup {d}
    BY <2>6, <2>8, <2>9, <2>10
  <2>12. QED
    BY <1>2, <2>3, <2>11
<1>3. QED
  BY <1>1, <1>2

(* A full list: the oldest entry and the device it names stand in the same  *)
(* cell of the two arrays.                                                  *)
LEMMA GivenUpTogether ==
  ASSUME ListTypes, Distinct, Parallel, devcount = MAXDEVICENUM
  PROVE  /\ GivenUp = devlist[First(Oldest)]
         /\ GivenUp \in Listed
         /\ PlaceOf(GivenUp) = First(Oldest)
         /\ Freed(First(Oldest)) = Compacted([keepalivelist EXCEPT ![First(Oldest)] = Blank],
                                             First(Oldest), Blank)
<1> DEFINE j == First(Oldest)
           emptied == [keepalivelist EXCEPT ![j] = Blank]
<1>1. j \in Cell
  BY OldestIsThere
<1> HIDE DEF j
<1>2. Used(devcount) = Cell
  BY DEF Used, Cell
<1>3. keepalivelist[j].did = devlist[j] /\ devlist[j] \in Listed
  BY <1>1, <1>2 DEF Parallel, Listed
<1>4. GivenUp = devlist[j]
  BY <1>3 DEF GivenUp, j
<1>5. PlaceOf(GivenUp) = j
  BY <1>1, <1>2, <1>3, <1>4, Place DEF Distinct
<1>6. \A k \in Cell : emptied[k].did = None <=> k = j
  <2>1. \A k \in Cell : emptied[k] = IF k = j THEN Blank ELSE keepalivelist[k]
    BY <1>1 DEF ListTypes
  <2>2. \A k \in Cell : keepalivelist[k].did = devlist[k] /\ devlist[k] # None
    BY <1>2, UsedCells, NoneIsNoDevice DEF Parallel
  <2>3. QED
    BY <1>1, <2>1, <2>2 DEF Blank
<1>7. {k \in Cell : emptied[k].did = None} = {j}
  BY <1>1, <1>6
<1>8. First({k \in Cell : emptied[k].did = None}) = j
  BY <1>1, <1>7, FirstOfOne DEF Cell
<1>9. Freed(j) = Compacted(emptied, j, Blank)
  BY <1>8 DEF Freed
<1>10. QED
  BY <1>3, <1>4, <1>5, <1>9 DEF j

(* addCamera ends what is promised about the lists, and keeps their types. *)
LEMMA AddCameraKeeps ==
  ASSUME ListTypes, Distinct, AddCamera
  PROVE  ListTypes' /\ Distinct'
<1>1. PICK c \in Camera : /\ \A b \in Listed \cap Camera : b < c
                          /\ devlist' = [devlist EXCEPT ![devcount] = c]
                          /\ quiet' = [quiet EXCEPT ![c] = 0]
  BY DEF AddCamera, Heard
<1>2. /\ devcount < MAXDEVICENUM /\ devcount' = devcount + 1
      /\ keepalivelist' = keepalivelist
  BY DEF AddCamera
<1>3. c \in Did /\ c \in Nat /\ c # None /\ c \notin Listed
  BY <1>1, DevicesAssumption DEF Did, Camera, None
<1>4. devcount \in Cell /\ devcount \in Nat /\ devcount' \in 0 .. MAXDEVICENUM
  BY <1>2, DevicesAssumption DEF ListTypes, Cell
<1>5. \A x \in Cell : devlist'[x] = IF x = devcount THEN c ELSE devlist[x]
  BY <1>1 DEF ListTypes
<1>6. ListTypes'
  <2>1. devlist' \in [Cell -> Did \cup {None}]
    BY <1>1, <1>3 DEF ListTypes
  <2>2. \A x \in Cell : devlist'[x] = None <=> x >= devcount'
    BY <1>2, <1>3, <1>4, <1>5 DEF ListTypes, Cell
  <2>3. quiet' \in [Did -> 0 .. MaxAge]
    BY <1>1, Sizes DEF ListTypes
  <2>4. QED
    BY <1>2, <1>4, <2>1, <2>2, <2>3 DEF ListTypes
<1>7. Distinct'
  <2>1. \A x \in Used(devcount') : x \in Cell /\ (x = devcount \/ x \in Used(devcount))
    BY <1>2, <1>4, DevicesAssumption DEF Used, Cell
  <2>2. \A x \in Used(devcount) : devlist[x] # c
    BY <1>3 DEF Listed
  <2>3. QED
    BY <1>5, <2>1, <2>2 DEF Distinct
<1>8. QED
  BY <1>6, <1>7

(* deleteDev keeps the types of both arrays. *)
LEMMA DeleteKeepsTypes ==
  ASSUME ListTypes, Distinct, NEW d \in Did, DeleteDev(d)
  PROVE  ListTypes' /\ Distinct'
<1>1. keepalivelist' \in [Cell -> [did : Did \cup {None}, age : Age]]
  <2>1. CASE Watching(d) = {}
    BY <2>1 DEF DeleteDev, Unwatched, ListTypes
  <2>2. CASE Watching(d) # {}
    <3>1. First(Watching(d)) \in Watching(d)
      BY <2>2, FirstIsThere DEF Watching, Used
    <3>2. First(Watching(d)) \in Cell /\ devcount - 1 \in Cell
      BY <3>1, DevicesAssumption DEF Watching, Used, ListTypes, Cell
    <3>3. QED
      BY <2>2, <3>2 DEF DeleteDev, Unwatched, ListTypes
  <2>3. QED
    BY <2>1, <2>2
<1>2. quiet' \in [Did -> 0 .. MaxAge]
  BY DevicesAssumption DEF DeleteDev, ListTypes
<1>3. CASE d \notin Listed
  <2>1. devlist' = devlist /\ devcount' = devcount
    BY <1>3 DEF DeleteDev
  <2>2. QED
    BY <1>1, <1>2, <2>1 DEF ListTypes, Distinct
<1>4. CASE d \in Listed
  <2> DEFINE p == PlaceOf(d)
             n == devcount - 1
  <2>1. /\ p \in Used(devcount) /\ p \in Cell /\ devlist[p] = d
        /\ n \in Cell /\ n \in Nat /\ p <= n
    BY <1>4, Place, DevicesAssumption DEF ListTypes, Used, Cell
  <2> HIDE DEF p
  <2>2. devcount' = n
    BY <1>4 DEF DeleteDev
  <2>3. devlist' = [devlist EXCEPT ![p] = devlist[n], ![n] = None]
    BY <1>4 DEF DeleteDev, p
  <2>4. \A x \in Cell : devlist'[x] = IF x = n THEN None
                                      ELSE IF x = p THEN devlist[n] ELSE devlist[x]
    BY <2>1, <2>3 DEF ListTypes
  <2>5. devlist' \in [Cell -> Did \cup {None}]
    BY <2>1, <2>3 DEF ListTypes
  <2>6. \A x \in Cell : devlist'[x] = None <=> x >= devcount'
    BY <2>1, <2>2, <2>4, DevicesAssumption DEF ListTypes, Cell
  <2>7. devcount' \in 0 .. MAXDEVICENUM
    BY <2>1, <2>2, DevicesAssumption DEF Cell
  <2>8. ListTypes'
    BY <1>1, <1>2, <2>5, <2>6, <2>7 DEF ListTypes
  <2>9. Distinct'
    <3>1. \A x \in Used(devcount') : /\ x \in Cell /\ x # n
                                     /\ x \in Used(devcount) /\ n \in Used(devcount)
      BY <2>1, <2>2, DevicesAssumption DEF Used, Cell, ListTypes
    <3>2. QED
      BY <2>1, <2>4, <3>1 DEF Distinct
  <2>10. QED
    BY <2>8, <2>9
<1>5. QED
  BY <1>3, <1>4

(* deleteDev moves the last cell into the hole, in both arrays alike. *)
LEMMA DeleteKeepsParallel ==
  ASSUME ListTypes, Distinct, Parallel, NEW d \in Did, DeleteDev(d)
  PROVE  Parallel'
<1>0. ListTypes' /\ Distinct'
  BY DeleteKeepsTypes
<1>1. quiet' = [quiet EXCEPT ![d] = 0]
  BY DEF DeleteDev
<1>2. CASE d \notin Listed
  <2>1. /\ devlist' = devlist /\ devcount' = devcount
        /\ keepalivelist' = keepalivelist
    BY <1>2, OneEntry DEF DeleteDev, Unwatched
  <2>2. \A k \in Used(devcount) : devlist[k] # d /\ devlist[k] \in Did
    BY <1>2, DevicesAssumption DEF Listed, ListTypes, Used, Cell
  <2>3. QED
    BY <1>1, <2>1, <2>2 DEF Parallel, ListTypes
<1>3. CASE d \in Listed
  <2> DEFINE p == PlaceOf(d)
             n == devcount - 1
  <2>1. /\ p \in Used(devcount) /\ p \in Cell /\ devlist[p] = d
        /\ n \in Cell /\ n \in Nat /\ p <= n /\ n \in Used(devcount)
    BY <1>3, Place, DevicesAssumption DEF ListTypes, Used, Cell
  <2>2. keepalivelist' = [keepalivelist EXCEPT ![p] = keepalivelist[n]]
    BY <1>3, OneEntry DEF DeleteDev, Unwatched
  <2>3. devlist' = [devlist EXCEPT ![p] = devlist[n], ![n] = None]
    BY <1>3 DEF DeleteDev
  <2>4. devcount' = n
    BY <1>3 DEF DeleteDev
  <2> HIDE DEF p
  <2> SUFFICES ASSUME NEW k \in Used(n)
               PROVE  /\ keepalivelist'[k].did = devlist'[k]
                      /\ keepalivelist'[k].age = quiet'[devlist'[k]]
    BY <2>4 DEF Parallel
  <2>5. k \in Cell /\ k \in Used(devcount) /\ k # n
    BY <2>1, DevicesAssumption DEF Used, Cell, ListTypes
  <2>6. CASE k = p
    <3>1. keepalivelist'[k] = keepalivelist[n] /\ devlist'[k] = devlist[n]
      BY <2>1, <2>2, <2>3, <2>5, <2>6 DEF ListTypes
    <3>2. devlist[n] # d /\ devlist[n] \in Did
      BY <2>1, <2>5, <2>6 DEF Distinct, ListTypes
    <3>3. QED
      BY <1>1, <2>1, <3>1, <3>2 DEF Parallel, ListTypes
  <2>7. CASE k # p
    <3>1. keepalivelist'[k] = keepalivelist[k] /\ devlist'[k] = devlist[k]
      BY <2>1, <2>2, <2>3, <2>5, <2>7 DEF ListTypes
    <3>2. devlist[k] # d /\ devlist[k] \in Did
      BY <2>1, <2>5, <2>7, DevicesAssumption DEF Distinct, ListTypes, Used, Cell
    <3>3. QED
      BY <1>1, <2>5, <3>1, <3>2 DEF Parallel, ListTypes
  <2>8. QED
    BY <2>6, <2>7
<1>4. QED
  BY <1>2, <1>3

(* Pairing writes the two arrays in the same cell, and freeoneDevice closes *)
(* the same hole in both.                                                   *)
LEMMA PairKeepsParallel ==
  ASSUME ListTypes, Distinct, Parallel, NEW d \in RF, Pair(d)
  PROVE  Parallel'
<1>0. ListTypes' /\ Distinct'
  BY PairKeepsTypes
<1>1. /\ d \notin Listed
      /\ quiet' = [e \in Did |-> IF e \in Listed' \ {d} THEN quiet[e] ELSE 0]
  BY PairSteps
<1>2. d \in Did /\ quiet'[d] = 0
  BY <1>1 DEF Did
<1>3. \A x \in Used(devcount) : devlist[x] # d
  BY <1>1 DEF Listed
<1>4. \A x \in Used(devcount') : devlist'[x] \in Listed' /\ devlist'[x] \in Did
  <2>1. devcount' \in 0 .. MAXDEVICENUM
    BY <1>0 DEF ListTypes
  <2>2. \A x \in Used(devcount') : x \in Cell /\ ~(x >= devcount')
    BY <2>1, UsedBelow
  <2>3. \A x \in Cell : devlist'[x] = None <=> x >= devcount'
    BY <1>0, Zenon DEF ListTypes
  <2>4. \A x \in Cell : devlist'[x] \in Did \cup {None}
    BY <1>0 DEF ListTypes
  <2>5. \A x \in Used(devcount') : devlist'[x] \in Did
    BY <2>2, <2>3, <2>4
  <2>6. QED
    BY <2>5 DEF Listed
<1>5. \A x \in Used(devcount') : devlist'[x] # d => quiet'[devlist'[x]] = quiet[devlist'[x]]
  BY <1>1, <1>4
<1>6. CASE devcount # MAXDEVICENUM
  <2>1. /\ devcount' = devcount + 1
        /\ devlist' = [devlist EXCEPT ![devcount] = d]
        /\ keepalivelist' = [keepalivelist EXCEPT ![devcount] = [did |-> d, age |-> 0]]
    BY <1>6, PairSteps
  <2> SUFFICES ASSUME NEW k \in Used(devcount')
               PROVE  /\ keepalivelist'[k].did = devlist'[k]
                      /\ keepalivelist'[k].age = quiet'[devlist'[k]]
    BY DEF Parallel
  <2>2. k \in Cell /\ (k = devcount \/ k \in Used(devcount))
    BY <1>6, <2>1, UsedCells, Sizes DEF Used, Cell
  <2>3. CASE k = devcount
    BY <1>2, <2>1, <2>2, <2>3 DEF ListTypes
  <2>4. CASE k # devcount
    <3>1. /\ keepalivelist'[k] = keepalivelist[k]
          /\ devlist'[k] = devlist[k]
          /\ k \in Used(devcount)
      BY <2>1, <2>2, <2>4 DEF ListTypes
    <3>2. QED
      BY <1>3, <1>5, <3>1 DEF Parallel
  <2>5. QED
    BY <2>3, <2>4
<1>7. CASE devcount = MAXDEVICENUM
  <2> DEFINE j == First(Oldest)
             last == MAXDEVICENUM - 1
             emptied == [keepalivelist EXCEPT ![j] = Blank]
  <2>1. /\ PlaceOf(GivenUp) = j
        /\ Freed(j) = Compacted(emptied, j, Blank)
    BY <1>7, GivenUpTogether
  <2>2. j \in Cell
    BY OldestIsThere
  <2>3. /\ devlist' = [Compacted(devlist, j, None) EXCEPT ![last] = d]
        /\ keepalivelist' = [Compacted(emptied, j, Blank) EXCEPT ![last] = [did |-> d, age |-> 0]]
    BY <1>7, <2>1, PairSteps
  <2> HIDE DEF j
  <2>4. devcount' = MAXDEVICENUM - 1 + 1
    BY <1>7, PairSteps
  <2>5. /\ Used(devcount) = Cell /\ Used(devcount') = Cell /\ last \in Cell
        /\ \A x \in Cell : x # last => x + 1 \in Cell
    BY <1>7, <2>4, Sizes DEF Used, Cell
  <2> SUFFICES ASSUME NEW k \in Cell
               PROVE  /\ keepalivelist'[k].did = devlist'[k]
                      /\ keepalivelist'[k].age = quiet'[devlist'[k]]
    BY <2>5 DEF Parallel
  <2>6. CASE k = last
    BY <1>2, <2>3, <2>6 DEF Compacted
  <2>7. CASE k # last
    <3> DEFINE from == IF k < j THEN k ELSE k + 1
    <3>1. from \in Cell /\ from # j
      BY <2>2, <2>5, <2>7 DEF Cell
    <3>2. devlist'[k] = devlist[from] /\ keepalivelist'[k] = emptied[from]
      BY <2>3, <2>7 DEF Compacted
    <3>3. emptied[from] = keepalivelist[from]
      BY <2>2, <3>1 DEF ListTypes
    <3> HIDE DEF from
    <3>4. devlist'[k] # d
      BY <1>3, <2>5, <3>1, <3>2
    <3>5. QED
      BY <1>5, <2>5, <3>1, <3>2, <3>3, <3>4 DEF Parallel
  <2>8. QED
    BY <2>6, <2>7
<1>8. QED
  BY <1>6, <1>7

-----------------------------------------------------------------------------
(* The supervision. *)

(* A device that is heard of changes its own entry alone. *)
LEMMA HeardKeeps ==
  ASSUME ListTypes, Distinct, NEW d \in Did, AutoReport(d) \/ Event(d)
  PROVE  /\ ListTypes' /\ Distinct'
         /\ Parallel => Parallel'
<1>1. /\ d \in Listed
      /\ quiet' = [quiet EXCEPT ![d] = 0]
      /\ devlist' = devlist /\ devcount' = devcount
  BY DEF AutoReport, Event, Heard
<1>2. \A k \in Watching(d) : k \in Cell /\ keepalivelist[k].did = d
  BY UsedCells DEF Watching
<1>3. \/ keepalivelist' = [k \in Cell |-> IF k \in Watching(d)
                                         THEN [keepalivelist[k] EXCEPT !.age = 0]
                                         ELSE keepalivelist[k]]
      \/ keepalivelist' = keepalivelist /\ Watching(d) = {}
      \/ /\ keepalivelist' = [keepalivelist EXCEPT ![First(Watching(d))].age = 0]
         /\ First(Watching(d)) \in Watching(d)
  <2>1. Watching(d) # {} => First(Watching(d)) \in Watching(d)
    BY FirstIsThere, <1>2 DEF Cell
  <2>2. QED
    BY <2>1 DEF AutoReport, Event, Refreshed
<1>4. keepalivelist' \in [Cell -> [did : Did \cup {None}, age : Age]]
  BY <1>2, <1>3, Sizes DEF ListTypes
<1>5. quiet' \in [Did -> 0 .. MaxAge]
  BY <1>1, Sizes DEF ListTypes
<1>6. ListTypes' /\ Distinct'
  BY <1>1, <1>4, <1>5 DEF ListTypes, Distinct
<1>7. ASSUME Parallel
      PROVE  Parallel'
  <2> SUFFICES ASSUME NEW k \in Used(devcount)
               PROVE  /\ keepalivelist'[k].did = devlist[k]
                      /\ keepalivelist'[k].age = quiet'[devlist[k]]
    BY <1>1 DEF Parallel
  <2>1. k \in Cell /\ devlist[k] \in Did
    BY UsedCells
  <2>2. Watching(d) = {PlaceOf(d)} /\ First(Watching(d)) = PlaceOf(d)
    BY <1>1, <1>7, OneEntry
  <2>3. PlaceOf(d) \in Used(devcount) /\ PlaceOf(d) \in Cell /\ devlist[PlaceOf(d)] = d
    BY <1>1, Place
  <2>4. keepalivelist' = [keepalivelist EXCEPT ![PlaceOf(d)].age = 0]
    BY <1>3, <2>2, <2>3 DEF ListTypes
  <2>5. CASE devlist[k] = d
    <3>1. k = PlaceOf(d)
      BY <2>3, <2>5 DEF Distinct
    <3>2. QED
      BY <1>1, <1>7, <2>1, <2>4, <2>5, <3>1 DEF Parallel, ListTypes
  <2>6. CASE devlist[k] # d
    <3>1. keepalivelist'[k] = keepalivelist[k]
      BY <2>1, <2>3, <2>4, <2>6 DEF ListTypes
    <3>2. QED
      BY <1>1, <1>7, <2>1, <2>6, <3>1 DEF Parallel, ListTypes
  <2>7. QED
    BY <2>5, <2>6
<1>8. QED
  BY <1>6, <1>7

(* Cameras that reconnect end what is promised about the two arrays. *)
LEMMA RepairKeeps ==
  ASSUME ListTypes, Distinct, ipc_reconnect
  PROVE  /\ ListTypes' /\ Distinct'
         /\ ~ Parallel
<1>1. keepalivelist' \in [Cell -> [did : Did \cup {None}, age : Age]]
  BY Sizes DEF ipc_reconnect, ListTypes
<1>2. ListTypes' /\ Distinct'
  BY <1>1 DEF ipc_reconnect, ListTypes, Distinct
<1>3. PICK k \in Used(devcount) : keepalivelist[k].age = Never
  BY DEF ipc_reconnect
<1>4. devlist[k] \in Did
  BY UsedCells
<1>5. quiet[devlist[k]] # Never
  BY <1>4, Sizes DEF ListTypes, Never
<1>6. QED
  BY <1>2, <1>3, <1>5 DEF Parallel

(* Time goes by alike for both arrays, as long as nothing is MaxAge old. *)
LEMMA TickKeeps ==
  ASSUME ListTypes, Distinct, Tick
  PROVE  /\ ListTypes' /\ Distinct'
         /\ Parallel => Parallel'
<1>1. /\ keepalivelist' = [k \in Cell |-> [keepalivelist[k] EXCEPT !.age = Older(@)]]
      /\ quiet' = [d \in Did |-> IF d \in Listed THEN quiet[d] + 1 ELSE 0]
  BY DEF Tick
<1>2. \A a \in Age : a # MaxAge => Older(a) \in Age
  BY Sizes DEF Age, Older, Never
<1>3. \A k \in Cell : keepalivelist[k].age \in Age /\ Older(keepalivelist[k].age) \in Age
  BY <1>2 DEF Tick, ListTypes
<1>4. keepalivelist' \in [Cell -> [did : Did \cup {None}, age : Age]]
  BY <1>1, <1>3 DEF ListTypes
<1>5. \A d \in Did : d \in Listed => quiet[d] + 1 \in 0 .. MaxAge
  BY Sizes DEF Tick, ListTypes
<1>6. quiet' \in [Did -> 0 .. MaxAge]
  BY <1>1, <1>5, Sizes
<1>7. devlist' = devlist /\ devcount' = devcount
  BY DEF Tick
<1>8. ListTypes' /\ Distinct'
  BY <1>4, <1>6, <1>7 DEF ListTypes, Distinct
<1>9. ASSUME Parallel
      PROVE  Parallel'
  <2> SUFFICES ASSUME NEW k \in Used(devcount)
               PROVE  /\ keepalivelist'[k].did = devlist[k]
                      /\ keepalivelist'[k].age = quiet'[devlist[k]]
    BY <1>7 DEF Parallel
  <2>1. k \in Cell /\ devlist[k] \in Did /\ devlist[k] \in Listed
    BY UsedCells DEF Listed
  <2>2. /\ keepalivelist'[k].did = keepalivelist[k].did
        /\ keepalivelist'[k].age = Older(keepalivelist[k].age)
    BY <1>1, <2>1 DEF ListTypes
  <2>3. keepalivelist[k].did = devlist[k] /\ keepalivelist[k].age = quiet[devlist[k]]
    BY <1>9 DEF Parallel
  <2>4. Older(quiet[devlist[k]]) = quiet[devlist[k]] + 1
    BY <2>1, Sizes DEF ListTypes, Older, Never
  <2>5. QED
    BY <1>1, <2>1, <2>2, <2>3, <2>4
<1>10. QED
  BY <1>8, <1>9

(* The start of the daemon fills keepalivelist from devlist. *)
LEMMA RestartKeeps ==
  ASSUME ListTypes, Distinct, Restart
  PROVE  ListTypes' /\ Distinct' /\ Parallel'
<1>1. /\ devlist' = devlist /\ devcount' = devcount
      /\ quiet' = [d \in Did |-> 0]
      /\ keepalivelist' = [k \in Cell |-> IF k < devcount THEN [did |-> devlist[k], age |-> 0]
                                          ELSE Blank]
  BY DEF Restart
<1>2. Blank \in [did : Did \cup {None}, age : Age]
  BY Sizes DEF Blank
<1>3. keepalivelist' \in [Cell -> [did : Did \cup {None}, age : Age]]
  BY <1>1, <1>2, Sizes DEF ListTypes
<1>4. ListTypes' /\ Distinct'
  BY <1>1, <1>3, Sizes DEF ListTypes, Distinct
<1>5. Parallel'
  <2> SUFFICES ASSUME NEW k \in Used(devcount)
               PROVE  /\ keepalivelist'[k].did = devlist[k]
                      /\ keepalivelist'[k].age = quiet'[devlist[k]]
    BY <1>1 DEF Parallel
  <2>1. k \in Cell /\ k < devcount /\ devlist[k] \in Did
    BY UsedCells
  <2>2. QED
    BY <1>1, <2>1
<1>6. QED
  BY <1>4, <1>5

(* Empty lists are parallel. *)
LEMMA EmptyLists ==
  ASSUME devlist = [x \in Cell |-> None], devcount = 0,
         keepalivelist = [x \in Cell |-> Blank], quiet = [d \in Did |-> 0]
  PROVE  ListTypes /\ Distinct /\ Parallel
<1>1. Blank \in [did : Did \cup {None}, age : Age]
  BY Sizes DEF Blank
<1>2. Used(devcount) = {}
  BY DEF Used
<1>3. \A x \in Cell : x >= devcount
  BY DEF Cell
<1>4. ListTypes
  BY <1>1, <1>3, Sizes DEF ListTypes
<1>5. QED
  BY <1>2, <1>4 DEF Distinct, Parallel

-----------------------------------------------------------------------------
(* One step per action: whatever a step does with the lists, it does to     *)
(* both, or it adds a camera.                                               *)
LEMMA StepKeeps ==
  ASSUME DevInv, [Next]_vars
  PROVE  DevInv'
<1>0. ListTypes /\ Distinct /\ (~camAdded => Parallel)
  BY DEF DevInv
<1>1. ASSUME NEW d \in RF, Pair(d)
      PROVE  DevInv'
  <2>1. camAdded' = camAdded
    BY <1>1 DEF Pair
  <2>2. QED
    BY <1>0, <1>1, <2>1, PairKeepsTypes, PairKeepsParallel DEF DevInv
<1>2. ASSUME NEW d \in Did, AutoReport(d) \/ Event(d)
      PROVE  DevInv'
  <2>1. camAdded' = camAdded
    BY <1>2 DEF AutoReport, Event
  <2>2. QED
    BY <1>0, <1>2, <2>1, HeardKeeps DEF DevInv
<1>3. ASSUME NEW d \in Did, DeleteDev(d)
      PROVE  DevInv'
  <2>1. camAdded' = camAdded
    BY <1>3 DEF DeleteDev
  <2>2. QED
    BY <1>0, <1>3, <2>1, DeleteKeepsTypes, DeleteKeepsParallel DEF DevInv
<1>4. CASE AddCamera
  <2>1. camAdded'
    BY <1>4 DEF AddCamera
  <2>2. QED
    BY <1>0, <1>4, <2>1, AddCameraKeeps DEF DevInv
<1>5. CASE UNCHANGED <<devlist, devcount, keepalivelist, quiet, camAdded>>
  <2>1. ListTypes'
    BY <1>0, <1>5 DEF ListTypes
  <2>2. Distinct'
    BY <1>0, <1>5 DEF Distinct
  <2>3. Parallel => Parallel'
    BY <1>5 DEF Parallel
  <2>4. camAdded' = camAdded
    BY <1>5
  <2>5. QED
    BY <1>0, <2>1, <2>2, <2>3, <2>4 DEF DevInv
<1>6. CASE ipc_reconnect
  <2>1. camAdded' = camAdded
    BY <1>6 DEF ipc_reconnect
  <2>2. QED
    BY <1>0, <1>6, <2>1, RepairKeeps DEF DevInv
<1>7. CASE Tick
  <2>1. camAdded' = camAdded
    BY <1>7 DEF Tick
  <2>2. QED
    BY <1>0, <1>7, <2>1, TickKeeps DEF DevInv
<1>8. CASE Restart
  BY <1>0, <1>8, RestartKeeps DEF DevInv
<1>9. CASE FactoryReset
  <2>1. /\ devlist' = [x \in Cell |-> None] /\ devcount' = 0
        /\ keepalivelist' = [x \in Cell |-> Blank]
        /\ quiet' = [d \in Did |-> 0]
    BY <1>9 DEF FactoryReset
  <2>2. ListTypes' /\ Distinct' /\ Parallel'
    <3>1. (/\ devlist = [x \in Cell |-> None] /\ devcount = 0
           /\ keepalivelist = [x \in Cell |-> Blank] /\ quiet = [d \in Did |-> 0]
           => ListTypes /\ Distinct /\ Parallel)'
      BY EmptyLists, PTL
    <3>2. QED
      BY <2>1, <3>1
  <2>3. QED
    BY <2>2 DEF DevInv
<1>10. ASSUME NEW d \in Did, EditDev(d)
       PROVE  DevInv'
  BY <1>5, <1>10 DEF EditDev
<1>11. CASE checkkeepalive
  BY <1>5, <1>11 DEF checkkeepalive
<1>12. CASE ResetDefault
  BY <1>5, <1>12 DEF ResetDefault
<1>13. ASSUME NEW d \in Sources, client_sourcelink(d)
       PROVE  DevInv'
  BY <1>5, <1>13 DEF client_sourcelink
<1>14. CASE UNCHANGED vars
  BY <1>5, <1>14 DEF vars
<1>15. RF \subseteq Did
  BY DEF Did
<1>16. QED
  BY <1>1, <1>2, <1>3, <1>4, <1>6, <1>7, <1>8, <1>9, <1>10, <1>11, <1>12, <1>13, <1>14, <1>15
     DEF Next

(* The invariant the theorems below rest on. *)
THEOREM DevInvariant == Spec => []DevInv
<1>1. Init => DevInv
  BY EmptyLists DEF Init, DevInv
<1>2. DevInv /\ [Next]_vars => DevInv'
  BY StepKeeps
<1>3. QED
  BY <1>1, <1>2, PTL DEF Spec

\* Until a camera is added every listed device is supervised by one entry of
\* its own, and nothing else is supervised (jsw_protocol.c:1631, 1646, 1973
\* and 6660).
THEOREM DevSupervisedOnce == Spec => []SupervisedOnce
<1>1. DevInv => SupervisedOnce
  <2> SUFFICES ASSUME DevInv, ~camAdded
               PROVE  /\ \A d \in Listed : Cardinality(Watching(d)) = 1
                      /\ \A k \in Used(devcount) : keepalivelist[k].did \in Listed
    BY DEF SupervisedOnce
  <2>1. ListTypes /\ Distinct /\ Parallel
    BY DEF DevInv
  <2>2. ASSUME NEW d \in Listed
        PROVE  Cardinality(Watching(d)) = 1
    <3>1. Watching(d) = {PlaceOf(d)}
      BY <2>1, Place, OneEntry
    <3>2. QED
      BY <3>1, FS_Singleton
  <2>3. \A k \in Used(devcount) : keepalivelist[k].did \in Listed
    BY <2>1 DEF Parallel, Listed
  <2>4. QED
    BY <2>2, <2>3
<1>2. QED
  BY DevInvariant, <1>1, PTL

\* A check marks the listed devices that were silent for four hours and less
\* than 3000, and no others (checkkeepalive, jsw_protocol.c:6606).
THEOREM DevMarksTheSilent == Spec => MarksTheSilent
<1>1. ASSUME DevInv, checkkeepalive, ~camAdded
      PROVE  lost' = lost \cup {d \in Listed : SUPERVISION <= quiet[d] /\ quiet[d] < FORGOTTEN}
  <2>1. ListTypes /\ Parallel
    BY <1>1 DEF DevInv
  <2>2. Silent = {k \in Used(devcount) : /\ SUPERVISION <= quiet[devlist[k]]
                                        /\ quiet[devlist[k]] < FORGOTTEN}
    <3>1. \A k \in Used(devcount) : quiet[devlist[k]] \in 0 .. MaxAge
      BY <2>1, UsedCells DEF ListTypes
    <3>2. \A n \in 0 .. MaxAge : n \in SUPERVISION .. FORGOTTEN - 1
                                   <=> SUPERVISION <= n /\ n < FORGOTTEN
      BY DevicesAssumption
    <3>3. QED
      BY <2>1, <3>1, <3>2 DEF Parallel, Silent
  <2>3. {keepalivelist[k].did : k \in Silent} \cap Listed
          = {d \in Listed : SUPERVISION <= quiet[d] /\ quiet[d] < FORGOTTEN}
    BY <2>1, <2>2 DEF Parallel, Listed
  <2>4. QED
    BY <1>1, <2>3 DEF checkkeepalive
<1>2. DevInv /\ [Next]_vars =>
        [~camAdded /\ checkkeepalive =>
           lost' = lost \cup {d \in Listed : SUPERVISION <= quiet[d] /\ quiet[d] < FORGOTTEN}]_vars
  BY <1>1
<1>3. QED
  BY DevInvariant, <1>2, PTL DEF Spec, MarksTheSilent

\* A pairing at a full list costs the device that was silent longest and no
\* other (freeoneDevice, jsw_protocol.c:6644).
THEOREM DevGivesUpTheSilent == Spec => GivesUpTheSilent
<1>1. ASSUME DevInv, ~camAdded, NEW d \in RF, Pair(d)
      PROVE  \/ Listed \subseteq Listed'
             \/ \E gone \in Listed :
                  /\ Listed' = (Listed \ {gone}) \cup {d}
                  /\ \A e \in Listed : quiet[e] <= quiet[gone]
  <2>1. ListTypes /\ Distinct /\ Parallel
    BY <1>1 DEF DevInv
  <2>2. CASE devcount # MAXDEVICENUM
    BY <1>1, <2>1, <2>2, PairListed
  <2>3. CASE devcount = MAXDEVICENUM
    <3> DEFINE j == First(Oldest)
    <3>1. GivenUp = devlist[j] /\ GivenUp \in Listed
      BY <2>1, <2>3, GivenUpTogether
    <3>2. j \in Cell /\ j \in Oldest
      BY <2>1, OldestIsThere
    <3> HIDE DEF j
    <3>3. Used(devcount) = Cell
      BY <2>3 DEF Used, Cell
    <3>4. \A e \in Listed : quiet[e] <= quiet[GivenUp]
      <4> SUFFICES ASSUME NEW e \in Listed
                   PROVE  quiet[e] <= quiet[GivenUp]
        OBVIOUS
      <4>1. PICK x \in Cell : devlist[x] = e
        BY <3>3 DEF Listed
      <4>2. keepalivelist[x].age <= keepalivelist[j].age
        BY <3>2 DEF Oldest
      <4>3. QED
        BY <2>1, <3>1, <3>2, <3>3, <4>1, <4>2 DEF Parallel
    <3>5. Listed' = (Listed \ {GivenUp}) \cup {d}
      BY <1>1, <2>1, <2>3, PairListed
    <3>6. QED
      BY <3>1, <3>4, <3>5
  <2>4. QED
    BY <2>2, <2>3
<1>2. DevInv /\ [Next]_vars =>
        [\A d \in RF : ~camAdded /\ d \in Listed' \ Listed /\ Pair(d) =>
           \/ Listed \subseteq Listed'
           \/ \E gone \in Listed :
                /\ Listed' = (Listed \ {gone}) \cup {d}
                /\ \A e \in Listed : quiet[e] <= quiet[gone]]_vars
  BY <1>1
<1>3. QED
  BY DevInvariant, <1>2, PTL DEF Spec, GivesUpTheSilent

-----------------------------------------------------------------------------
(* The scenarios.  scenariolist is a sequence from which entries are taken  *)
(* and to which entries are added; what its operators take, keep and add.   *)

Gateway == {Sunrise, Sunset}
Entry == Did \cup Gateway

(* At most one entry of a source, or two of one with two scenarios. *)
Modest(s) ==
  \A i, j \in 1 .. Len(s) :
    i # j /\ s[i] = s[j] =>
      /\ s[i] \in Double
      /\ \A k \in 1 .. Len(s) : s[k] = s[i] => k = i \/ k = j

(* A function from 1..n is a sequence of length n. *)
LEMMA FunIsSeq ==
  ASSUME NEW S, NEW n \in Nat, NEW f \in [1 .. n -> S]
  PROVE  f \in Seq(S) /\ Len(f) = n
<1>1. f \in Seq(S)
  BY SeqDef
<1>2. Len(f) \in Nat /\ DOMAIN f = 1 .. Len(f)
  BY <1>1, LenProperties
<1>3. 1 .. n = 1 .. Len(f)
  BY <1>2
<1>4. QED
  BY <1>1, <1>2, <1>3

(* Every place among those in a finite set is the n-th of them for one n. *)
LEMMA NthIsThere ==
  ASSUME NEW K \in SUBSET Nat, IsFiniteSet(K)
  PROVE  /\ Cardinality(K) \in Nat
         /\ \A n \in 1 .. Cardinality(K) : Nth(K, n) \in K
         /\ \A m, n \in 1 .. Cardinality(K) : Nth(K, m) = Nth(K, n) => m = n
         /\ \A i \in K : \E n \in 1 .. Cardinality(K) : Nth(K, n) = i
<1> DEFINE Below(i) == {j \in K : j <= i}
           c == Cardinality(K)
           rank == [i \in K |-> Cardinality(Below(i))]
<1>1. c \in Nat
  BY FS_CardinalityType
<1>2. ASSUME NEW i \in K
      PROVE  IsFiniteSet(Below(i)) /\ Cardinality(Below(i)) \in 1 .. c
  <2>1. IsFiniteSet(Below(i)) /\ Cardinality(Below(i)) <= c
    BY FS_Subset
  <2>2. Below(i) # {}
    OBVIOUS
  <2> HIDE DEF Below
  <2>3. Cardinality(Below(i)) \in Nat /\ Cardinality(Below(i)) # 0
    BY <2>1, <2>2, FS_CardinalityType, FS_EmptySet
  <2>4. QED
    BY <1>1, <2>1, <2>3
<1>3. ASSUME NEW i \in K, NEW j \in K, i < j
      PROVE  Cardinality(Below(i)) # Cardinality(Below(j))
  <2>0. i \in Nat /\ j \in Nat /\ \A k \in K : k \in Nat
    OBVIOUS
  <2>1. /\ Below(i) \in SUBSET Below(j)
        /\ j \in Below(j) /\ j \notin Below(i)
    <3>1. \A k \in K : k <= i => k <= j
      BY <1>3, <2>0
    <3>2. j <= j /\ ~ (j <= i)
      BY <1>3, <2>0
    <3>3. QED
      BY <3>1, <3>2
  <2>2. IsFiniteSet(Below(j))
    BY <1>2
  <2> HIDE DEF Below
  <2>3. Below(i) # Below(j)
    BY <2>1
  <2>4. QED
    BY <2>1, <2>2, <2>3, FS_Subset
<1> HIDE DEF Below, c
<1>4. rank \in [K -> 1 .. c]
  BY <1>2
<1>5. \A i, j \in K : rank[i] = rank[j] => i = j
  <2> SUFFICES ASSUME NEW i \in K, NEW j \in K, rank[i] = rank[j]
               PROVE  i = j
    OBVIOUS
  <2>1. i \in Nat /\ j \in Nat
    OBVIOUS
  <2>2. Cardinality(Below(i)) = Cardinality(Below(j))
    OBVIOUS
  <2>3. ~ (i < j) /\ ~ (j < i)
    BY <1>3, <2>2
  <2>4. QED
    BY <2>1, <2>3
<1>6. rank \in Injection(K, 1 .. c)
  BY <1>4, <1>5 DEF Injection, IsInjective
<1>7. IsFiniteSet(1 .. c) /\ Cardinality(1 .. c) = c
  BY <1>1, FS_Interval
<1>8. rank \in Surjection(K, 1 .. c)
  BY <1>6, <1>7, FS_Injection DEF c
<1>9. \A n \in 1 .. c : \E i \in K : rank[i] = n
  BY <1>8 DEF Surjection
<1>10. ASSUME NEW n \in 1 .. c
       PROVE  Nth(K, n) \in K /\ rank[Nth(K, n)] = n
  <2>1. \E i \in K : Cardinality({j \in K : j <= i}) = n
    BY <1>9 DEF Below
  <2>2. Nth(K, n) \in K /\ Cardinality({j \in K : j <= Nth(K, n)}) = n
    BY <2>1 DEF Nth
  <2>3. QED
    BY <2>2 DEF Below
<1>11. ASSUME NEW i \in K
       PROVE  rank[i] \in 1 .. c /\ Nth(K, rank[i]) = i
  <2>1. rank[i] \in 1 .. c
    BY <1>4
  <2>2. Nth(K, rank[i]) \in K /\ rank[Nth(K, rank[i])] = rank[i]
    BY <1>10, <2>1
  <2>3. QED
    BY <1>5, <2>1, <2>2
<1>12. QED
  <2>1. \A n \in 1 .. c : Nth(K, n) \in K
    BY <1>10
  <2>2. \A m, n \in 1 .. c : Nth(K, m) = Nth(K, n) => m = n
    BY <1>10
  <2>3. \A i \in K : \E n \in 1 .. c : Nth(K, n) = i
    BY <1>11
  <2>4. QED
    BY <1>1, <2>1, <2>2, <2>3 DEF c

(* What is drawn from a list, each place once, repeats no more than it. *)
LEMMA DrawnIsModest ==
  ASSUME NEW s, NEW t, Modest(s),
         NEW g \in [1 .. Len(t) -> 1 .. Len(s)],
         \A i, j \in 1 .. Len(t) : g[i] = g[j] => i = j,
         \A i \in 1 .. Len(t) : t[i] = s[g[i]]
  PROVE  Modest(t)
<1> SUFFICES ASSUME NEW i \in 1 .. Len(t), NEW j \in 1 .. Len(t), i # j, t[i] = t[j]
             PROVE  /\ t[i] \in Double
                    /\ \A k \in 1 .. Len(t) : t[k] = t[i] => k = i \/ k = j
  BY DEF Modest
<1>1. g[i] # g[j] /\ s[g[i]] = s[g[j]] /\ g[i] \in 1 .. Len(s) /\ g[j] \in 1 .. Len(s)
  OBVIOUS
<1>2. /\ s[g[i]] \in Double
      /\ \A k \in 1 .. Len(s) : s[k] = s[g[i]] => k = g[i] \/ k = g[j]
  BY <1>1 DEF Modest
<1>3. QED
  BY <1>2

(* A modest list holds no more entries of the sources in L than there are   *)
(* such sources, and one more for each with two scenarios.                  *)
LEMMA ModestIsShort ==
  ASSUME NEW S, NEW s \in Seq(S), Modest(s), NEW L, IsFiniteSet(L), IsFiniteSet(Double),
         NEW K \in SUBSET (1 .. Len(s)), \A i \in K : s[i] \in L
  PROVE  IsFiniteSet(K) /\ Cardinality(K) <= Cardinality(L) + Cardinality(Double)
<1> DEFINE Firsts == {i \in K : \A j \in K : s[j] = s[i] => i <= j}
           Seconds == K \ Firsts
           f == [i \in Firsts |-> s[i]]
           g == [i \in Seconds |-> s[i]]
<1>1. Len(s) \in Nat /\ K \subseteq Nat /\ IsFiniteSet(K)
  <2>1. Len(s) \in Nat
    BY LenProperties
  <2>2. IsFiniteSet(1 .. Len(s))
    BY <2>1, FS_Interval
  <2>3. IsFiniteSet(K)
    BY <2>2, FS_Subset
  <2>4. QED
    BY <2>1, <2>3
<1>2. f \in Injection(Firsts, L)
  <2>1. f \in [Firsts -> L]
    OBVIOUS
  <2>2. \A i, j \in Firsts : f[i] = f[j] => i = j
    BY <1>1
  <2>3. QED
    BY <2>1, <2>2 DEF Injection, IsInjective
<1>3. \A i \in Seconds : \E j \in K : j # i /\ j < i /\ s[j] = s[i]
  BY <1>1
<1>4. g \in Injection(Seconds, Double)
  <2>1. g \in [Seconds -> Double]
    <3>1. \A i \in Seconds : s[i] \in Double
      BY <1>3 DEF Modest
    <3>2. QED
      BY <3>1
  <2>2. ASSUME NEW i \in Seconds, NEW j \in Seconds, g[i] = g[j], i < j
        PROVE  FALSE
    <3>1. PICK k \in K : k < i /\ s[k] = s[i]
      BY <1>3
    <3>2. s[i] = s[j]
      BY <2>2
    <3>3. i = k \/ j = i \/ j = k
      BY <3>1, <3>2 DEF Modest
    <3>4. k \in Nat /\ i \in Nat /\ j \in Nat
      BY <1>1
    <3>5. k < i /\ i < j
      BY <2>2, <3>1
    <3>6. QED
      BY ONLY <3>3, <3>4, <3>5
  <2>3. \A i, j \in Seconds : g[i] = g[j] => i = j
    <3> SUFFICES ASSUME NEW i \in Seconds, NEW j \in Seconds, g[i] = g[j]
                 PROVE  i = j
      OBVIOUS
    <3>1. ~ (i < j) /\ ~ (j < i)
      BY <2>2
    <3>2. QED
      BY <1>1, <3>1
  <2>4. QED
    BY <2>1, <2>3 DEF Injection, IsInjective
<1> HIDE DEF f, g
<1>5. IsFiniteSet(Firsts) /\ Cardinality(Firsts) <= Cardinality(L)
  BY <1>2, FS_Injection
<1>6. IsFiniteSet(Seconds) /\ Cardinality(Seconds) <= Cardinality(Double)
  BY <1>4, FS_Injection
<1>7. K = Firsts \cup Seconds
  OBVIOUS
<1>8. Firsts \cap Seconds = {}
  OBVIOUS
<1> HIDE DEF Firsts, Seconds
<1>9. Cardinality(K) = Cardinality(Firsts) + Cardinality(Seconds) - 0
  BY <1>5, <1>6, <1>7, <1>8, FS_Union, FS_EmptySet
<1>10. /\ Cardinality(Firsts) \in Nat /\ Cardinality(Seconds) \in Nat
       /\ Cardinality(L) \in Nat /\ Cardinality(Double) \in Nat
  BY <1>5, <1>6, FS_CardinalityType
<1>11. QED
  BY <1>1, <1>5, <1>6, <1>9, <1>10

(* Taking the first entry of a device away keeps every other entry. *)
LEMMA CutKeeps ==
  ASSUME NEW S, NEW s \in Seq(S), NEW d
  PROVE  /\ Cut(s, d) \in Seq(S)
         /\ Len(Cut(s, d)) <= Len(s)
         /\ \A e : e # d /\ Contains(s, e) => Contains(Cut(s, d), e)
         /\ Modest(s) => Modest(Cut(s, d))
<1> DEFINE holes == {i \in 1 .. Len(s) : s[i] = d}
           h == First(holes)
           moved == [s EXCEPT ![h] = s[Len(s)]]
           t == Cut(s, d)
           from == [i \in 1 .. Len(t) |-> IF i = h THEN Len(s) ELSE i]
<1>1. Len(s) \in Nat /\ s \in [1 .. Len(s) -> S]
  BY LenProperties
<1>2. CASE holes = {}
  <2>1. Cut(s, d) = s
    BY <1>2 DEF Cut
  <2>2. QED
    BY <1>1, <2>1
<1>3. CASE holes # {}
  <2>1. h \in 1 .. Len(s) /\ s[h] = d
    <3>1. holes \in SUBSET Nat
      BY <1>1
    <3>2. h \in holes
      BY <1>3, <3>1, FirstIsThere
    <3>3. QED
      BY <3>2
  <2>2. Cut(s, d) = SubSeq(moved, 1, Len(s) - 1)
    BY <1>3 DEF Cut
  <2> HIDE DEF h, holes
  <2>3. /\ moved \in Seq(S) /\ Len(moved) = Len(s)
        /\ \A i \in 1 .. Len(s) : moved[i] = IF i = h THEN s[Len(s)] ELSE s[i]
    <3>1. s[Len(s)] \in S
      BY <1>1, <2>1
    <3>2. QED
      BY <2>1, <3>1, ExceptSeq
  <2> HIDE DEF moved
  <2>4. Len(s) - 1 \in Nat
    BY <1>1, <2>1
  <2>5. \A i \in 1 .. Len(s) - 1 : i \in 1 .. Len(s) /\ moved[i] \in S
    <3>1. \A i \in 1 .. Len(s) : moved[i] \in S
      BY <2>3, ElementOfSeq
    <3>2. \A i \in 1 .. Len(s) - 1 : i \in 1 .. Len(s)
      BY <1>1
    <3>3. QED
      BY <3>1, <3>2
  <2>6. /\ t \in Seq(S)
        /\ Len(t) = Len(s) - 1
        /\ \A i \in 1 .. Len(s) - 1 : t[i] = moved[i]
    <3>1. /\ SubSeq(moved, 1, Len(s) - 1) \in Seq(S)
          /\ Len(SubSeq(moved, 1, Len(s) - 1))
               = IF 1 <= Len(s) - 1 THEN Len(s) - 1 - 1 + 1 ELSE 0
          /\ \A i \in 1 .. Len(s) - 1 - 1 + 1 :
               SubSeq(moved, 1, Len(s) - 1)[i] = moved[1 + i - 1]
      BY <2>4, <2>5, SubSeqProperties
    <3>2. \A i \in 1 .. Len(s) - 1 : i \in 1 .. Len(s) - 1 - 1 + 1 /\ 1 + i - 1 = i
      BY <2>4
    <3>3. (IF 1 <= Len(s) - 1 THEN Len(s) - 1 - 1 + 1 ELSE 0) = Len(s) - 1
      BY <1>1, <2>4
    <3>4. QED
      BY <2>2, <3>1, <3>2, <3>3
  <2> HIDE DEF t
  <2>7. \A i \in 1 .. Len(t) : t[i] = s[from[i]] /\ from[i] \in 1 .. Len(s)
    BY <1>1, <2>1, <2>3, <2>5, <2>6
  <2>8. \A i, j \in 1 .. Len(t) : from[i] = from[j] => i = j
    BY <1>1, <2>6
  <2>9. ASSUME NEW e, e # d, Contains(s, e)
        PROVE  Contains(t, e)
    <3>1. PICK k \in 1 .. Len(s) : s[k] = e
      BY <2>9 DEF Contains
    <3>2. k # h
      BY <2>1, <2>9, <3>1
    <3>3. CASE k = Len(s)
      <4>1. h \in 1 .. Len(s) - 1
        <5>1. \A n \in Nat : \A i \in 1 .. n : i # n => i \in 1 .. n - 1
          OBVIOUS
        <5>2. QED
          BY <1>1, <2>1, <3>2, <3>3, <5>1
      <4>2. moved[h] = s[Len(s)]
        BY <2>1, <2>3
      <4>3. t[h] = moved[h]
        BY <2>6, <4>1
      <4>4. t[h] = e
        BY <3>1, <3>3, <4>2, <4>3
      <4>5. QED
        BY <2>6, <4>1, <4>4 DEF Contains
    <3>4. CASE k # Len(s)
      <4>1. k \in 1 .. Len(s) - 1
        <5>1. \A n \in Nat : \A i \in 1 .. n : i # n => i \in 1 .. n - 1
          OBVIOUS
        <5>2. QED
          BY <1>1, <3>1, <3>4, <5>1
      <4>2. moved[k] = e
        <5>1. moved[k] = IF k = h THEN s[Len(s)] ELSE s[k]
          BY <2>3, <3>1
        <5>2. QED
          BY ONLY <3>1, <3>2, <5>1
      <4>3. k \in 1 .. Len(t) /\ t[k] = e
        BY <2>6, <4>1, <4>2
      <4>4. QED
        BY <4>3 DEF Contains
    <3>5. QED
      BY <3>3, <3>4
  <2>10. ASSUME Modest(s)
         PROVE  Modest(t)
    <3>1. from \in [1 .. Len(t) -> 1 .. Len(s)]
      BY <2>7
    <3> HIDE DEF from
    <3>2. QED
      BY <2>7, <2>8, <2>10, <3>1, DrawnIsModest
  <2>11. Len(t) <= Len(s)
    BY <1>1, <2>6
  <2>12. QED
    BY <2>6, <2>9, <2>10, <2>11 DEF t
<1>4. QED
  BY <1>2, <1>3

(* deleteDev takes the entries of one device away. *)
LEMMA UnlinkedKeeps ==
  ASSUME NEW S, NEW s \in Seq(S), NEW d
  PROVE  /\ Unlinked(s, d) \in Seq(S)
         /\ Len(Unlinked(s, d)) <= Len(s)
         /\ \A e : e # d /\ Contains(s, e) => Contains(Unlinked(s, d), e)
         /\ Modest(s) => Modest(Unlinked(s, d))
<1>1. /\ Cut(s, d) \in Seq(S)
      /\ Len(Cut(s, d)) <= Len(s)
      /\ \A e : e # d /\ Contains(s, e) => Contains(Cut(s, d), e)
      /\ Modest(s) => Modest(Cut(s, d))
  BY CutKeeps
<1>2. /\ Cut(Cut(s, d), d) \in Seq(S)
      /\ Len(Cut(Cut(s, d), d)) <= Len(Cut(s, d))
      /\ \A e : e # d /\ Contains(Cut(s, d), e) => Contains(Cut(Cut(s, d), d), e)
      /\ Modest(Cut(s, d)) => Modest(Cut(Cut(s, d), d))
  BY <1>1, CutKeeps
<1>3. /\ Len(s) \in Nat /\ Len(Cut(s, d)) \in Nat /\ Len(Cut(Cut(s, d), d)) \in Nat
  BY <1>1, <1>2, LenProperties
<1>4. Len(Cut(Cut(s, d), d)) <= Len(s)
  BY <1>1, <1>2, <1>3
<1>5. QED
  BY <1>1, <1>2, <1>4 DEF Unlinked

(* Sorting out keeps the entries of listed devices and of the gateway, and  *)
(* no others: the list is short afterwards.                                 *)
LEMMA SortedOutKeeps ==
  ASSUME NEW S, NEW s \in Seq(S), NEW L
  PROVE  /\ SortedOut(s, L) \in Seq(S)
         /\ \A e \in L \cup Gateway : Contains(s, e) => Contains(SortedOut(s, L), e)
         /\ \A e : Contains(SortedOut(s, L), e) => Contains(s, e)
         /\ Modest(s) => Modest(SortedOut(s, L))
         /\ Modest(s) /\ IsFiniteSet(L) /\ IsFiniteSet(Double) =>
              Len(SortedOut(s, L)) <= Cardinality(L) + Cardinality(Double) + 2
<1> DEFINE kept == {i \in 1 .. Len(s) : s[i] \in L \cup Gateway}
           c == Cardinality(kept)
           t == SortedOut(s, L)
           g == [n \in 1 .. Len(t) |-> Nth(kept, n)]
<1>1. Len(s) \in Nat /\ s \in [1 .. Len(s) -> S]
  BY LenProperties
<1>2. IsFiniteSet(kept) /\ kept \in SUBSET Nat
  <2>1. IsFiniteSet(1 .. Len(s))
    BY <1>1, FS_Interval
  <2>2. IsFiniteSet(kept)
    BY <2>1, FS_Subset
  <2>3. QED
    BY <1>1, <2>2
<1>3. t = [n \in 1 .. c |-> s[Nth(kept, n)]]
  BY DEF SortedOut, Gateway
<1>4. \A i \in kept : i \in 1 .. Len(s) /\ s[i] \in L \cup Gateway
  OBVIOUS
<1>5. \A i \in 1 .. Len(s) : s[i] \in L \cup Gateway => i \in kept
  OBVIOUS
<1>6. kept \in SUBSET (1 .. Len(s))
  OBVIOUS
<1> HIDE DEF kept
<1>7. /\ c \in Nat
      /\ \A n \in 1 .. c : Nth(kept, n) \in kept
      /\ \A m, n \in 1 .. c : Nth(kept, m) = Nth(kept, n) => m = n
      /\ \A i \in kept : \E n \in 1 .. c : Nth(kept, n) = i
  BY <1>2, NthIsThere
<1> HIDE DEF t, c
<1>8. t \in [1 .. c -> S]
  BY <1>1, <1>3, <1>4, <1>7
<1>9. t \in Seq(S) /\ Len(t) = c
  BY <1>7, <1>8, FunIsSeq
<1>10. ASSUME NEW e \in L \cup Gateway, Contains(s, e)
       PROVE  Contains(t, e)
  <2>1. PICK i \in 1 .. Len(s) : s[i] = e
    BY <1>10 DEF Contains
  <2>2. PICK n \in 1 .. c : Nth(kept, n) = i
    BY <1>5, <1>7, <1>10, <2>1
  <2>3. t[n] = e
    BY <1>3, <2>1, <2>2
  <2>4. QED
    BY <1>9, <2>3 DEF Contains
<1>11. ASSUME NEW e, Contains(t, e)
       PROVE  Contains(s, e)
  <2>1. PICK n \in 1 .. c : t[n] = e
    BY <1>9, <1>11 DEF Contains
  <2>2. Nth(kept, n) \in 1 .. Len(s) /\ s[Nth(kept, n)] = e
    BY <1>3, <1>4, <1>7, <2>1
  <2>3. QED
    BY <2>2 DEF Contains
<1>12. ASSUME Modest(s)
       PROVE  Modest(t)
  <2>1. g \in [1 .. Len(t) -> 1 .. Len(s)]
    BY <1>4, <1>7, <1>9
  <2>2. \A i, j \in 1 .. Len(t) : g[i] = g[j] => i = j
    BY <1>7, <1>9
  <2>3. \A i \in 1 .. Len(t) : t[i] = s[g[i]]
    BY <1>3, <1>9
  <2> HIDE DEF g
  <2>4. QED
    BY <1>12, <2>1, <2>2, <2>3, DrawnIsModest
<1>13. ASSUME Modest(s), IsFiniteSet(L), IsFiniteSet(Double)
       PROVE  Len(t) <= Cardinality(L) + Cardinality(Double) + 2
  <2> DEFINE withOne == L \cup {Sunrise}
             withTwo == withOne \cup {Sunset}
  <2>0. Cardinality(L) \in Nat
    BY <1>13, FS_CardinalityType
  <2>1. IsFiniteSet(withOne) /\ Cardinality(withOne) <= Cardinality(L) + 1
    <3>1. /\ IsFiniteSet(withOne)
          /\ Cardinality(withOne) =
               IF Sunrise \in L THEN Cardinality(L) ELSE Cardinality(L) + 1
      BY <1>13, FS_AddElement
    <3>2. QED
      BY <2>0, <3>1
  <2> HIDE DEF withOne
  <2>2. IsFiniteSet(withTwo) /\ Cardinality(withTwo) <= Cardinality(withOne) + 1
    <3>1. /\ IsFiniteSet(withTwo)
          /\ Cardinality(withTwo) =
               IF Sunset \in withOne THEN Cardinality(withOne) ELSE Cardinality(withOne) + 1
      BY <2>1, FS_AddElement
    <3>2. Cardinality(withOne) \in Nat
      BY <2>1, FS_CardinalityType
    <3>3. QED
      BY <3>1, <3>2
  <2>3. withTwo = L \cup Gateway
    BY DEF withOne, Gateway
  <2>4. IsFiniteSet(L \cup Gateway)
    BY <2>2, <2>3
  <2>5. c <= Cardinality(L \cup Gateway) + Cardinality(Double)
    BY <1>4, <1>6, <1>13, <2>4, ModestIsShort DEF c
  <2>6. /\ Cardinality(L) \in Nat /\ Cardinality(withOne) \in Nat
        /\ Cardinality(L \cup Gateway) \in Nat /\ Cardinality(Double) \in Nat
    BY <1>13, <2>1, <2>4, FS_CardinalityType
  <2>7. Cardinality(L \cup Gateway) <= Cardinality(withOne) + 1
    BY <2>2, <2>3
  <2>8. QED
    BY <1>7, <1>9, <2>1, <2>5, <2>6, <2>7
<1>14. QED
  BY <1>9, <1>10, <1>11, <1>12, <1>13 DEF t

(* An entry more. *)
LEMMA AppendKeeps ==
  ASSUME NEW S, NEW s \in Seq(S), NEW d \in S
  PROVE  /\ Append(s, d) \in Seq(S)
         /\ Len(Append(s, d)) = Len(s) + 1
         /\ Contains(Append(s, d), d)
         /\ \A e : Contains(s, e) => Contains(Append(s, d), e)
         /\ Modest(s) /\ ~ Contains(s, d) => Modest(Append(s, d))
<1> DEFINE t == Append(s, d)
<1>1. Len(s) \in Nat
  BY LenProperties
<1>2. /\ t \in Seq(S) /\ Len(t) = Len(s) + 1
      /\ \A i \in 1 .. Len(s) : t[i] = s[i]
      /\ t[Len(s) + 1] = d
  BY AppendProperties
<1> HIDE DEF t
<1>3. \A i \in 1 .. Len(t) : i \in 1 .. Len(s) \/ i = Len(s) + 1
  BY <1>1, <1>2
<1>4. \A i \in 1 .. Len(s) : i \in 1 .. Len(t)
  BY <1>1, <1>2
<1>5. Len(s) + 1 \in 1 .. Len(t)
  BY <1>1, <1>2
<1>6. Contains(t, d)
  BY <1>2, <1>5 DEF Contains
<1>7. \A e : Contains(s, e) => Contains(t, e)
  BY <1>2, <1>4 DEF Contains
<1>8. ASSUME Modest(s), ~ Contains(s, d)
      PROVE  Modest(t)
  <2>1. \A i \in 1 .. Len(s) : t[i] # d
    BY <1>2, <1>8 DEF Contains
  <2>2. QED
    BY <1>2, <1>3, <1>8, <2>1 DEF Modest
<1>9. QED
  BY <1>2, <1>6, <1>7, <1>8 DEF t

(* Entries of sources with two scenarios may be added up to the second. *)
LEMMA ModestConcat ==
  ASSUME NEW S, NEW s \in Seq(S), NEW m \in Seq(S), Modest(s),
         \A i \in 1 .. Len(m) : m[i] \in Double,
         \A i, j \in 1 .. Len(m) :
           i # j /\ m[i] = m[j] =>
             /\ ~ Contains(s, m[i])
             /\ \A k \in 1 .. Len(m) : m[k] = m[i] => k = i \/ k = j,
         \A i \in 1 .. Len(m) : \A a, b \in 1 .. Len(s) :
           s[a] = m[i] /\ s[b] = m[i] => a = b
  PROVE  /\ s \o m \in Seq(S)
         /\ \A e : Contains(s, e) => Contains(s \o m, e)
         /\ Modest(s \o m)
<1> DEFINE t == s \o m
           n == Len(s)
<1>1. Len(s) \in Nat /\ Len(m) \in Nat
  BY LenProperties
<1>2. /\ t \in Seq(S) /\ Len(t) = Len(s) + Len(m)
      /\ \A i \in 1 .. Len(s) + Len(m) : t[i] = IF i <= Len(s) THEN s[i] ELSE m[i - Len(s)]
  BY ConcatProperties
<1> HIDE DEF t
<1>3. \A i \in 1 .. Len(t) :
        \/ i \in 1 .. Len(s) /\ t[i] = s[i]
        \/ /\ i \notin 1 .. Len(s)
           /\ i - Len(s) \in 1 .. Len(m)
           /\ t[i] = m[i - Len(s)]
  BY <1>1, <1>2
<1>4. \A i \in 1 .. Len(s) : i \in 1 .. Len(t) /\ t[i] = s[i]
  BY <1>1, <1>2
<1>5. \A i, j \in 1 .. Len(t) : i - Len(s) = j - Len(s) => i = j
  BY <1>1, <1>2
<1>6. \A e : Contains(s, e) => Contains(t, e)
  BY <1>4 DEF Contains
<1>7. ASSUME NEW i \in 1 .. Len(t), NEW j \in 1 .. Len(t), i # j, t[i] = t[j]
      PROVE  /\ t[i] \in Double
             /\ \A k \in 1 .. Len(t) : t[k] = t[i] => k = i \/ k = j
  <2>1. CASE i \in 1 .. Len(s) /\ j \in 1 .. Len(s)
    <3>1. s[i] = s[j] /\ t[i] = s[i]
      BY <1>4, <1>7, <2>1
    <3>2. /\ s[i] \in Double
          /\ \A k \in 1 .. Len(s) : s[k] = s[i] => k = i \/ k = j
      BY <1>7, <2>1, <3>1 DEF Modest
    <3>3. \A k \in 1 .. Len(m) : m[k] # s[i]
      BY <1>7, <2>1, <3>1
    <3>4. QED
      BY <1>3, <3>1, <3>2, <3>3
  <2>2. CASE i \in 1 .. Len(s) /\ j \notin 1 .. Len(s)
    <3>1. j - Len(s) \in 1 .. Len(m) /\ m[j - Len(s)] = s[i] /\ t[i] = s[i]
      BY <1>3, <1>4, <1>7, <2>2
    <3>2. \A k \in 1 .. Len(s) : s[k] = s[i] => k = i
      BY <2>2, <3>1
    <3>3. Contains(s, m[j - Len(s)])
      BY <2>2, <3>1 DEF Contains
    <3>4. \A k \in 1 .. Len(m) : m[k] = s[i] => k = j - Len(s)
      BY <3>1, <3>3
    <3>5. t[i] \in Double
      BY <3>1
    <3>6. ASSUME NEW k \in 1 .. Len(t), t[k] = t[i]
          PROVE  k = i \/ k = j
      <4>1. k \in 1 .. Len(s) => k = i
        BY <1>3, <3>1, <3>2, <3>6
      <4>2. k \notin 1 .. Len(s) => k - Len(s) = j - Len(s)
        BY <1>3, <3>1, <3>4, <3>6
      <4>3. QED
        BY <1>5, <4>1, <4>2
    <3>7. QED
      BY <3>5, <3>6
  <2>3. CASE i \notin 1 .. Len(s) /\ j \in 1 .. Len(s)
    <3>1. i - Len(s) \in 1 .. Len(m) /\ m[i - Len(s)] = s[j] /\ t[i] = s[j]
      BY <1>3, <1>4, <1>7, <2>3
    <3>2. \A k \in 1 .. Len(s) : s[k] = s[j] => k = j
      BY <2>3, <3>1
    <3>3. Contains(s, m[i - Len(s)])
      BY <2>3, <3>1 DEF Contains
    <3>4. \A k \in 1 .. Len(m) : m[k] = s[j] => k = i - Len(s)
      BY <3>1, <3>3
    <3>5. t[i] \in Double
      BY <3>1
    <3>6. ASSUME NEW k \in 1 .. Len(t), t[k] = t[i]
          PROVE  k = i \/ k = j
      <4>1. k \in 1 .. Len(s) => k = j
        BY <1>3, <3>1, <3>2, <3>6
      <4>2. k \notin 1 .. Len(s) => k - Len(s) = i - Len(s)
        BY <1>3, <3>1, <3>4, <3>6
      <4>3. QED
        BY <1>5, <4>1, <4>2
    <3>7. QED
      BY <3>5, <3>6
  <2>4. CASE i \notin 1 .. Len(s) /\ j \notin 1 .. Len(s)
    <3>1. /\ i - Len(s) \in 1 .. Len(m) /\ j - Len(s) \in 1 .. Len(m)
          /\ t[i] = m[i - Len(s)] /\ m[i - Len(s)] = m[j - Len(s)]
      BY <1>3, <1>7, <2>4
    <3>2. i - Len(s) # j - Len(s)
      BY <1>5, <1>7
    <3>3. /\ ~ Contains(s, m[i - Len(s)])
          /\ \A k \in 1 .. Len(m) :
               m[k] = m[i - Len(s)] => k = i - Len(s) \/ k = j - Len(s)
      BY <3>1, <3>2
    <3>4. \A k \in 1 .. Len(s) : s[k] # t[i]
      BY <3>1, <3>3 DEF Contains
    <3>5. QED
      BY <1>3, <1>5, <3>1, <3>3, <3>4
  <2>5. QED
    BY <2>1, <2>2, <2>3, <2>4
<1>8. Modest(t)
  BY <1>7 DEF Modest
<1>9. QED
  BY <1>2, <1>6, <1>8 DEF t

(* What main adds for the contacts and buttons that are listed: what they   *)
(* lack to two entries.                                                     *)
LEMMA MissingKeeps ==
  ASSUME ListTypes, NEW S, NEW s \in Seq(S), Double \subseteq S
  PROVE  /\ Missing(s) \in Seq(Double)
         /\ Double = {} => Missing(s) = <<>>
         /\ s \o Missing(s) \in Seq(S)
         /\ Distinct /\ Modest(s) =>
              /\ \A e : Contains(s, e) => Contains(s \o Missing(s), e)
              /\ Modest(s \o Missing(s))
<1> DEFINE occ(d) == Cardinality({i \in 1 .. Len(s) : s[i] = d})
           added == {p \in 0 .. 2 * devcount - 1 :
                       devlist[p \div 2] \in Double /\ p % 2 < 2 - occ(devlist[p \div 2])}
           c == Cardinality(added)
           m == Missing(s)
<1>1. m = [n \in 1 .. c |-> devlist[Nth(added, n) \div 2]]
  BY DEF Missing
<1>2. devcount \in Nat
  BY Sizes DEF ListTypes
<1>3. \A p \in 0 .. 2 * devcount - 1 :
        /\ p \in Nat /\ p \div 2 \in Nat /\ p % 2 \in 0 .. 1
        /\ p = 2 * (p \div 2) + (p % 2)
        /\ p \div 2 \in Used(devcount)
  <2> SUFFICES ASSUME NEW p \in 0 .. 2 * devcount - 1
               PROVE  /\ p \in Nat /\ p \div 2 \in Nat /\ p % 2 \in 0 .. 1
                      /\ p = 2 * (p \div 2) + (p % 2)
                      /\ p \div 2 \in Used(devcount)
    OBVIOUS
  <2>1. p \in Nat /\ p <= 2 * devcount - 1
    BY <1>2
  <2>2. p \div 2 \in Nat /\ p % 2 \in 0 .. 1 /\ p = 2 * (p \div 2) + (p % 2)
    BY <2>1
  <2>3. p \div 2 \in 0 .. devcount - 1
    BY <1>2, <2>1, <2>2
  <2>4. QED
    BY <2>1, <2>2, <2>3 DEF Used
<1>4. IsFiniteSet(added) /\ added \in SUBSET Nat
  <2>1. 2 * devcount - 1 \in Int
    BY <1>2
  <2>2. IsFiniteSet(0 .. 2 * devcount - 1)
    BY <2>1, FS_Interval
  <2>3. IsFiniteSet(added)
    BY <2>2, FS_Subset
  <2>4. QED
    BY <1>3, <2>3
<1>5. \A p \in added : /\ p \in 0 .. 2 * devcount - 1
                       /\ devlist[p \div 2] \in Double
                       /\ p % 2 < 2 - occ(devlist[p \div 2])
  OBVIOUS
<1> HIDE DEF added, m, c
<1>6. /\ c \in Nat
      /\ \A n \in 1 .. c : Nth(added, n) \in added
      /\ \A k, n \in 1 .. c : Nth(added, k) = Nth(added, n) => k = n
  BY <1>4, NthIsThere DEF c
<1>7. m \in [1 .. c -> Double]
  BY <1>1, <1>5, <1>6
<1>8. m \in Seq(Double) /\ Len(m) = c
  BY <1>6, <1>7, FunIsSeq
<1>9. m \in Seq(S)
  BY <1>8, SeqMonotonic
<1>10. ASSUME Double = {}
       PROVE  m = <<>>
  BY <1>8, <1>10, EmptySeq, LenProperties, ElementOfSeq
<1>11. s \o m \in Seq(S)
  BY <1>9, ConcatProperties
<1>12. IsFiniteSet(1 .. Len(s)) /\ Len(s) \in Nat
  <2>1. Len(s) \in Nat
    BY LenProperties
  <2>2. QED
    BY <2>1, FS_Interval
<1>13. ASSUME NEW d, NEW a \in 1 .. Len(s), NEW b \in 1 .. Len(s), s[a] = d, s[b] = d
       PROVE  occ(d) \in Nat /\ occ(d) >= 1 /\ (a # b => occ(d) >= 2)
  <2> DEFINE places == {i \in 1 .. Len(s) : s[i] = d}
  <2>1. IsFiniteSet(places)
    BY <1>12, FS_Subset
  <2>2. {a} \in SUBSET places /\ {a} \cup {b} \in SUBSET places
    BY <1>13
  <2> HIDE DEF places
  <2>3. IsFiniteSet({a}) /\ Cardinality({a}) = 1
    BY FS_Singleton
  <2>4. Cardinality({a} \cup {b}) = IF b \in {a} THEN 1 ELSE 1 + 1
    BY <2>3, FS_AddElement
  <2>5. Cardinality({a}) <= Cardinality(places) /\ Cardinality(places) \in Nat
    BY <2>1, <2>2, FS_Subset, FS_CardinalityType
  <2>6. Cardinality({a} \cup {b}) <= Cardinality(places)
    BY <2>1, <2>2, FS_Subset
  <2>7. occ(d) = Cardinality(places)
    BY DEF places
  <2> HIDE DEF occ
  <2>8. ASSUME a # b
        PROVE  Cardinality({a} \cup {b}) = 2
    <3>1. b \notin {a}
      BY <2>8
    <3>2. Cardinality({a} \cup {b}) = 1 + 1
      BY ONLY <2>4, <3>1
    <3>3. 1 + 1 = 2
      OBVIOUS
    <3>4. QED
      BY ONLY <3>2, <3>3, Zenon
  <2>9. QED
    BY <2>3, <2>5, <2>6, <2>7, <2>8
<1>14. \A d : occ(d) \in Nat
  <2> TAKE d
  <2>1. IsFiniteSet({i \in 1 .. Len(s) : s[i] = d})
    BY <1>12, FS_Subset
  <2>2. QED
    BY <2>1, FS_CardinalityType
<1> DEFINE place(n) == Nth(added, n)
<1>15. \A n \in 1 .. c : /\ place(n) \in added /\ m[n] = devlist[place(n) \div 2]
                         /\ m[n] \in Double
                         /\ place(n) % 2 < 2 - occ(m[n])
                         /\ place(n) % 2 \in 0 .. 1 /\ place(n) \in Nat
                         /\ place(n) \div 2 \in Used(devcount)
                         /\ place(n) = 2 * (place(n) \div 2) + (place(n) % 2)
  <2> HIDE DEF occ
  <2> TAKE n \in 1 .. c
  <2>1. place(n) \in added
    BY <1>6
  <2> HIDE DEF place
  <2>2. m[n] = devlist[place(n) \div 2]
    BY <1>1 DEF place
  <2>3. /\ place(n) \in 0 .. 2 * devcount - 1
        /\ m[n] \in Double /\ place(n) % 2 < 2 - occ(m[n])
    BY <1>5, <2>1, <2>2
  <2>4. QED
    BY <1>3, <2>1, <2>2, <2>3
<1>16. \A k, n \in 1 .. c : place(k) = place(n) => k = n
  BY <1>6
<1> HIDE DEF place, occ
<1>17. ASSUME Distinct, Modest(s)
       PROVE  /\ \A e : Contains(s, e) => Contains(s \o m, e)
              /\ Modest(s \o m)
  <2>1. ASSUME NEW i \in 1 .. c, NEW j \in 1 .. c, i # j, m[i] = m[j]
        PROVE  /\ ~ Contains(s, m[i])
               /\ \A k \in 1 .. c : m[k] = m[i] => k = i \/ k = j
    <3>1. place(i) \div 2 = place(j) \div 2 /\ place(i) # place(j)
      BY <1>15, <1>16, <1>17, <2>1 DEF Distinct
    <3>2. place(i) % 2 # place(j) % 2
      BY <1>15, <3>1
    <3>3. occ(m[i]) < 1
      BY <1>14, <1>15, <2>1, <3>2
    <3>4. ~ Contains(s, m[i])
      BY <1>13, <1>14, <3>3 DEF Contains
    <3>5. ASSUME NEW k \in 1 .. c, m[k] = m[i]
          PROVE  k = i \/ k = j
      <4>1. place(k) \div 2 = place(i) \div 2
        BY <1>15, <1>17, <3>5 DEF Distinct
      <4>2. \A x, y, z \in 0 .. 1 : y # z => x = y \/ x = z
        OBVIOUS
      <4>3. place(k) % 2 = place(i) % 2 \/ place(k) % 2 = place(j) % 2
        <5>1. place(k) % 2 \in 0 .. 1 /\ place(i) % 2 \in 0 .. 1 /\ place(j) % 2 \in 0 .. 1
          BY <1>15
        <5>2. QED
          BY ONLY <3>2, <4>2, <5>1
      <4>4. /\ place(k) = 2 * (place(k) \div 2) + (place(k) % 2)
            /\ place(i) = 2 * (place(i) \div 2) + (place(i) % 2)
            /\ place(j) = 2 * (place(j) \div 2) + (place(j) % 2)
        BY <1>15
      <4>5. place(k) \div 2 = place(j) \div 2
        BY <3>1, <4>1
      <4>6. place(k) = place(i) \/ place(k) = place(j)
        BY ONLY <4>1, <4>3, <4>4, <4>5
      <4>7. QED
        BY <1>16, <4>6
    <3>6. QED
      BY <3>4, <3>5
  <2>2. ASSUME NEW i \in 1 .. c, NEW a \in 1 .. Len(s), NEW b \in 1 .. Len(s),
               s[a] = m[i], s[b] = m[i], a # b
        PROVE  FALSE
    <3>1. occ(m[i]) >= 2
      BY <1>13, <2>2
    <3>2. QED
      BY <1>14, <1>15, <3>1
  <2>3. /\ \A i \in 1 .. Len(m) : m[i] \in Double
        /\ \A i, j \in 1 .. Len(m) :
             i # j /\ m[i] = m[j] =>
               /\ ~ Contains(s, m[i])
               /\ \A k \in 1 .. Len(m) : m[k] = m[i] => k = i \/ k = j
        /\ \A i \in 1 .. Len(m) : \A a, b \in 1 .. Len(s) :
             s[a] = m[i] /\ s[b] = m[i] => a = b
    BY <1>8, <1>15, <2>1, <2>2
  <2>4. Modest(s)
    BY <1>17
  <2>5. QED
    BY <1>9, <2>3, <2>4, ModestConcat
<1>18. QED
  BY <1>8, <1>10, <1>11, <1>17 DEF m

(* The list of scenarios has room for one entry of every device there may   *)
(* be, a second of those that have two scenarios, and sunrise and sunset.   *)
Roomy ==
  /\ IsFiniteSet(Double)
  /\ MAXDEVICENUM + Cardinality(Double) + 2 < SCENARIOSIZE

(* Dids and the entries of the gateway. *)
LEMMA Entries ==
  /\ Double \subseteq Did /\ Did \subseteq Entry
  /\ Sunrise \in Entry /\ Sunset \in Entry /\ Sunrise # Sunset
  /\ Sunrise \notin Did /\ Sunset \notin Did
<1>1. Double \subseteq Did /\ Did \subseteq Entry
  BY DevicesAssumption DEF Did, Entry
<1>2. Sunrise \in Entry /\ Sunset \in Entry /\ Sunrise # Sunset
  BY DEF Entry, Gateway, Sunrise, Sunset
<1>3. Sunrise \notin RF /\ Sunset \notin RF
  BY DevicesAssumption DEF Sunrise, Sunset
<1>4. Sunrise \notin Camera /\ Sunset \notin Camera
  BY DevicesAssumption DEF Sunrise, Sunset, Camera
<1>5. QED
  BY <1>1, <1>2, <1>3, <1>4 DEF Did

(* Two entries. *)
LEMMA Twice ==
  ASSUME NEW S, NEW d \in S
  PROVE  <<d, d>> \in Seq(S) /\ Len(<<d, d>>) = 2 /\ \A i \in 1 .. 2 : <<d, d>>[i] = d
  OBVIOUS

(* addsource makes a list of entries of one. *)
LEMMA WithSourceType ==
  ASSUME NEW s \in Seq(Entry), NEW d \in Did, NEW L
  PROVE  WithSource(s, d, L) \in Seq(Entry)
<1> DEFINE sorted == IF Len(s) >= SCENARIOSIZE THEN SortedOut(s, L) ELSE s
           room == IF Len(sorted) >= SCENARIOSIZE
                   THEN SubSeq(sorted, 1, SCENARIOSIZE - 1) ELSE sorted
<1>1. WithSource(s, d, L) =
        IF Contains(s, d) THEN s
        ELSE IF d \in Double \cap L THEN room \o <<d, d>> ELSE Append(room, d)
  BY DEF WithSource
<1> HIDE DEF sorted, room
<1>2. sorted \in Seq(Entry)
  BY SortedOutKeeps DEF sorted
<1>3. room \in Seq(Entry)
  <2>1. CASE Len(sorted) >= SCENARIOSIZE
    <3>1. Len(sorted) \in Nat /\ SCENARIOSIZE - 1 \in Int /\ SCENARIOSIZE \in Nat
      BY <1>2, DevicesAssumption, LenProperties
    <3>2. \A i \in 1 .. SCENARIOSIZE - 1 : i \in 1 .. Len(sorted)
      BY <2>1, <3>1
    <3>3. \A i \in 1 .. SCENARIOSIZE - 1 : sorted[i] \in Entry
      BY <1>2, <3>2, ElementOfSeq
    <3>4. QED
      BY <2>1, <3>1, <3>3, SubSeqProperties DEF room
  <2>2. QED
    BY <1>2, <2>1 DEF room
<1>4. d \in Entry
  BY Entries
<1>5. room \o <<d, d>> \in Seq(Entry)
  BY <1>3, <1>4, Twice, ConcatProperties
<1>6. Append(room, d) \in Seq(Entry)
  BY <1>3, <1>4, AppendProperties
<1>7. QED
  BY <1>1, <1>5, <1>6

(* Where there is room, addsource loses no entry of a listed device. *)
LEMMA WithSourceKeeps ==
  ASSUME NEW s \in Seq(Entry), NEW d \in Did, NEW L,
         IsFiniteSet(L), Cardinality(L) <= MAXDEVICENUM, Roomy, Modest(s)
  PROVE  /\ Modest(WithSource(s, d, L))
         /\ \A e \in L \cup Gateway : Contains(s, e) => Contains(WithSource(s, d, L), e)
         /\ Contains(WithSource(s, d, L), d)
         /\ Double = {} /\ Len(s) <= SCENARIOSIZE => Len(WithSource(s, d, L)) <= SCENARIOSIZE
<1> DEFINE sorted == IF Len(s) >= SCENARIOSIZE THEN SortedOut(s, L) ELSE s
           room == IF Len(sorted) >= SCENARIOSIZE
                   THEN SubSeq(sorted, 1, SCENARIOSIZE - 1) ELSE sorted
<1>1. WithSource(s, d, L) =
        IF Contains(s, d) THEN s
        ELSE IF d \in Double \cap L THEN room \o <<d, d>> ELSE Append(room, d)
  BY DEF WithSource
<1> HIDE DEF sorted, room
<1>2. CASE Contains(s, d)
  <2>1. WithSource(s, d, L) = s
    BY <1>1, <1>2
  <2>2. QED
    BY <1>2, <2>1
<1>3. CASE ~ Contains(s, d)
  <2>1. /\ SCENARIOSIZE \in Nat /\ MAXDEVICENUM \in Nat
        /\ Cardinality(L) \in Nat /\ Cardinality(Double) \in Nat
        /\ Len(s) \in Nat
    BY DevicesAssumption, FS_CardinalityType, LenProperties DEF Roomy
  <2>2. /\ SortedOut(s, L) \in Seq(Entry)
        /\ \A e \in L \cup Gateway : Contains(s, e) => Contains(SortedOut(s, L), e)
        /\ \A e : Contains(SortedOut(s, L), e) => Contains(s, e)
        /\ Modest(SortedOut(s, L))
        /\ Len(SortedOut(s, L)) <= Cardinality(L) + Cardinality(Double) + 2
    BY SortedOutKeeps DEF Roomy
  <2>3. Len(SortedOut(s, L)) < SCENARIOSIZE
    <3>1. Len(SortedOut(s, L)) \in Nat
      BY <2>2, LenProperties
    <3>2. MAXDEVICENUM + Cardinality(Double) + 2 < SCENARIOSIZE
      BY DEF Roomy
    <3>3. QED
      BY <2>1, <2>2, <3>1, <3>2
  <2>4. /\ sorted \in Seq(Entry) /\ Modest(sorted) /\ ~ Contains(sorted, d)
        /\ \A e \in L \cup Gateway : Contains(s, e) => Contains(sorted, e)
    BY <1>3, <2>2 DEF sorted
  <2>5. Len(sorted) \in Nat /\ Len(sorted) < SCENARIOSIZE
    BY <2>1, <2>2, <2>3, LenProperties DEF sorted
  <2>6. room = sorted
    BY <2>1, <2>5 DEF room
  <2>7. d \in Entry
    BY Entries
  <2>8. CASE d \in Double \cap L
    <3>1. WithSource(s, d, L) = sorted \o <<d, d>>
      BY <1>1, <1>3, <2>6, <2>8
    <3>2. <<d, d>> \in Seq(Entry) /\ Len(<<d, d>>) = 2 /\ \A i \in 1 .. 2 : <<d, d>>[i] = d
      BY <2>7, Twice
    <3> DEFINE two == <<d, d>>
    <3>3. two \in Seq(Entry) /\ Len(two) = 2 /\ \A i \in 1 .. 2 : two[i] = d
      BY <3>2
    <3> HIDE DEF two
    <3>4. \A i \in 1 .. Len(sorted) : sorted[i] # d
      BY <2>4 DEF Contains
    <3>5. /\ \A i \in 1 .. Len(two) : two[i] \in Double
          /\ \A i, j \in 1 .. Len(two) :
               i # j /\ two[i] = two[j] =>
                 /\ ~ Contains(sorted, two[i])
                 /\ \A k \in 1 .. Len(two) : two[k] = two[i] => k = i \/ k = j
          /\ \A i \in 1 .. Len(two) : \A a, b \in 1 .. Len(sorted) :
               sorted[a] = two[i] /\ sorted[b] = two[i] => a = b
      <4>1. \A i, j, k \in 1 .. 2 : i # j => k = i \/ k = j
        OBVIOUS
      <4>2. QED
        BY <2>4, <2>8, <3>3, <3>4, <4>1
    <3>6. /\ \A e : Contains(sorted, e) => Contains(sorted \o two, e)
          /\ Modest(sorted \o two)
      BY <2>4, <3>3, <3>5, ModestConcat
    <3>7. Contains(sorted \o two, d)
      <4>1. /\ Len(sorted \o two) = Len(sorted) + 2
            /\ \A i \in 1 .. Len(sorted) + 2 :
                 (sorted \o two)[i] = IF i <= Len(sorted) THEN sorted[i]
                                      ELSE two[i - Len(sorted)]
        <5>1. /\ Len(sorted \o two) = Len(sorted) + Len(two)
              /\ \A i \in 1 .. Len(sorted) + Len(two) :
                   (sorted \o two)[i] = IF i <= Len(sorted) THEN sorted[i]
                                        ELSE two[i - Len(sorted)]
          BY <2>4, <3>3, ConcatProperties
        <5>2. QED
          BY <3>3, <5>1
      <4>2. /\ Len(sorted) + 1 \in 1 .. Len(sorted) + 2
            /\ ~ (Len(sorted) + 1 <= Len(sorted)) /\ Len(sorted) + 1 - Len(sorted) = 1
        BY <2>5
      <4>3. (sorted \o two)[Len(sorted) + 1] = two[1]
        BY <4>1, <4>2
      <4>4. QED
        BY <3>3, <4>1, <4>2, <4>3 DEF Contains
    <3>8. QED
      BY <2>4, <2>8, <3>1, <3>6, <3>7 DEF two
  <2>9. CASE d \notin Double \cap L
    <3>1. WithSource(s, d, L) = Append(sorted, d)
      BY <1>1, <1>3, <2>6, <2>9
    <3>2. /\ Len(Append(sorted, d)) = Len(sorted) + 1
          /\ Contains(Append(sorted, d), d)
          /\ \A e : Contains(sorted, e) => Contains(Append(sorted, d), e)
          /\ Modest(Append(sorted, d))
      BY <2>4, <2>7, AppendKeeps
    <3>3. Len(Append(sorted, d)) <= SCENARIOSIZE
      BY <2>1, <2>5, <3>2
    <3>4. QED
      BY <2>4, <3>1, <3>2, <3>3
  <2>10. QED
    BY <2>8, <2>9
<1>4. QED
  BY <1>2, <1>3

(* What the start of the daemon makes of the list. *)
LEMMA BootedKeeps ==
  ASSUME ListTypes, NEW s \in Seq(Entry)
  PROVE  /\ Booted(s) \in Seq(Entry)
         /\ Contains(Booted(s), Sunrise) /\ Contains(Booted(s), Sunset)
         /\ Distinct /\ Modest(s) =>
              /\ Modest(Booted(s))
              /\ devcount # 0 => \A e : Contains(s, e) => Contains(Booted(s), e)
         /\ Double = {} /\ Contains(s, Sunrise) /\ Contains(s, Sunset) =>
              Len(Booted(s)) <= Len(s) \/ Len(Booted(s)) <= 2
<1> DEFINE loaded == IF devcount = 0 THEN <<>> ELSE s \o Missing(s)
           risen == IF Contains(loaded, Sunrise) THEN loaded ELSE Append(loaded, Sunrise)
           booted == IF Contains(risen, Sunset) THEN risen ELSE Append(risen, Sunset)
<1>1. Booted(s) = booted
  BY DEF Booted
<1>2. Sunrise \in Entry /\ Sunset \in Entry /\ Double \subseteq Entry
  BY Entries
<1>3. /\ s \o Missing(s) \in Seq(Entry)
      /\ Double = {} => Missing(s) = <<>>
      /\ Distinct /\ Modest(s) =>
           /\ \A e : Contains(s, e) => Contains(s \o Missing(s), e)
           /\ Modest(s \o Missing(s))
  BY <1>2, MissingKeeps
<1>4. <<>> \in Seq(Entry) /\ Len(<<>>) = 0 /\ Modest(<<>>)
  <2>1. <<>> \in Seq(Entry) /\ Len(<<>>) = 0
    BY EmptySeq
  <2>2. QED
    BY <2>1 DEF Modest
<1>5. /\ loaded \in Seq(Entry)
      /\ Distinct /\ Modest(s) =>
           /\ Modest(loaded)
           /\ devcount # 0 => \A e : Contains(s, e) => Contains(loaded, e)
      /\ devcount = 0 => Len(loaded) = 0
      /\ Double = {} /\ devcount # 0 => loaded = s
  <2>1. Double = {} => s \o Missing(s) = s
    BY <1>3, ConcatEmptySeq
  <2>2. QED
    BY <1>3, <1>4, <2>1
<1> HIDE DEF loaded
<1>6. /\ risen \in Seq(Entry) /\ Contains(risen, Sunrise)
      /\ Modest(loaded) => Modest(risen)
      /\ \A e : Contains(loaded, e) => Contains(risen, e)
      /\ Contains(loaded, Sunrise) => risen = loaded
      /\ Len(risen) = Len(loaded) \/ Len(risen) = Len(loaded) + 1
  <2>1. /\ Append(loaded, Sunrise) \in Seq(Entry)
        /\ Len(Append(loaded, Sunrise)) = Len(loaded) + 1
        /\ Contains(Append(loaded, Sunrise), Sunrise)
        /\ \A e : Contains(loaded, e) => Contains(Append(loaded, Sunrise), e)
        /\ Modest(loaded) /\ ~ Contains(loaded, Sunrise) => Modest(Append(loaded, Sunrise))
    BY <1>2, <1>5, AppendKeeps
  <2>2. CASE Contains(loaded, Sunrise)
    BY <1>5, <2>2
  <2>3. CASE ~ Contains(loaded, Sunrise)
    BY <2>1, <2>3
  <2>4. QED
    BY <2>2, <2>3
<1> HIDE DEF risen
<1>7. /\ booted \in Seq(Entry) /\ Contains(booted, Sunrise) /\ Contains(booted, Sunset)
      /\ Modest(risen) => Modest(booted)
      /\ \A e : Contains(risen, e) => Contains(booted, e)
      /\ Contains(risen, Sunset) => booted = risen
      /\ Len(booted) = Len(risen) \/ Len(booted) = Len(risen) + 1
  <2>1. /\ Append(risen, Sunset) \in Seq(Entry)
        /\ Len(Append(risen, Sunset)) = Len(risen) + 1
        /\ Contains(Append(risen, Sunset), Sunset)
        /\ \A e : Contains(risen, e) => Contains(Append(risen, Sunset), e)
        /\ Modest(risen) /\ ~ Contains(risen, Sunset) => Modest(Append(risen, Sunset))
    BY <1>2, <1>6, AppendKeeps
  <2>2. CASE Contains(risen, Sunset)
    BY <1>6, <2>2
  <2>3. CASE ~ Contains(risen, Sunset)
    BY <1>6, <2>1, <2>3
  <2>4. QED
    BY <2>2, <2>3
<1> HIDE DEF booted
<1>8. ASSUME Double = {}, Contains(s, Sunrise), Contains(s, Sunset)
      PROVE  Len(booted) <= Len(s) \/ Len(booted) <= 2
  <2>1. CASE devcount = 0
    <3>1. Len(loaded) = 0
      BY <1>5, <2>1
    <3>2. Len(risen) = 0 \/ Len(risen) = 1
      BY <1>6, <3>1
    <3>3. Len(booted) = Len(risen) \/ Len(booted) = Len(risen) + 1
      BY <1>7
    <3>4. Len(booted) <= 2
      <4>1. Len(risen) \in Nat /\ Len(booted) \in Nat
        BY <1>6, <1>7, LenProperties
      <4>2. \A m, n \in Nat : (m = 0 \/ m = 1) /\ (n = m \/ n = m + 1) => n <= 2
        OBVIOUS
      <4>3. QED
        BY <3>2, <3>3, <4>1, <4>2
    <3>5. QED
      BY <3>4
  <2>2. CASE devcount # 0
    <3>1. booted = s
      BY <1>5, <1>6, <1>7, <1>8, <2>2
    <3>2. Len(s) \in Nat
      BY LenProperties
    <3>3. QED
      BY <3>1, <3>2
  <2>3. QED
    BY <2>1, <2>2
<1>9. ASSUME Distinct, Modest(s)
      PROVE  /\ Modest(booted)
             /\ devcount # 0 => \A e : Contains(s, e) => Contains(booted, e)
  BY <1>5, <1>6, <1>7, <1>9
<1>10. QED
  BY <1>1, <1>7, <1>8, <1>9

(* There are no more devices in the list than it has cells. *)
LEMMA ListedIsShort ==
  ASSUME ListTypes
  PROVE  IsFiniteSet(Listed) /\ Cardinality(Listed) <= MAXDEVICENUM
<1> DEFINE f == [x \in Used(devcount) |-> devlist[x]]
<1>1. devcount \in Nat /\ devcount <= MAXDEVICENUM
  BY UsedCells
<1>2. f \in Surjection(Used(devcount), Listed)
  BY DEF Surjection, Listed
<1>3. /\ IsFiniteSet(Used(devcount))
      /\ Cardinality(Used(devcount)) = IF 0 > devcount - 1 THEN 0 ELSE devcount - 1 - 0 + 1
  <2>1. devcount - 1 \in Int
    BY <1>1
  <2>2. QED
    BY <2>1, FS_Interval DEF Used
<1>4. Cardinality(Used(devcount)) = devcount
  BY <1>1, <1>3
<1>5. IsFiniteSet(Listed) /\ Cardinality(Listed) <= Cardinality(Used(devcount))
  BY <1>2, <1>3, FS_Surjection
<1>6. Cardinality(Listed) \in Nat /\ MAXDEVICENUM \in Nat
  BY <1>5, FS_CardinalityType, Sizes
<1>7. QED
  BY <1>1, <1>4, <1>5, <1>6

(* deleteDev takes the one device out of the list. *)
LEMMA DeleteListed ==
  ASSUME ListTypes, Distinct, NEW d \in Did, DeleteDev(d)
  PROVE  Listed' = Listed \ {d}
<1>1. CASE d \notin Listed
  <2>1. devlist' = devlist /\ devcount' = devcount
    BY <1>1 DEF DeleteDev
  <2>2. QED
    BY <1>1, <2>1 DEF Listed
<1>2. CASE d \in Listed
  <2> DEFINE p == PlaceOf(d)
             last == devcount - 1
  <2>1. /\ devcount' = devcount - 1
        /\ devlist' = [devlist EXCEPT ![p] = devlist[last], ![last] = None]
    BY <1>2 DEF DeleteDev
  <2>2. p \in Used(devcount) /\ p \in Cell /\ devlist[p] = d
    BY <1>2, Place
  <2> HIDE DEF p
  <2>3. devcount \in Nat /\ last \in Used(devcount) /\ last \in Cell
    BY <2>2, UsedCells DEF Used
  <2>4. \A x \in Used(devcount') : /\ x \in Used(devcount) /\ x \in Cell /\ x # last
                                   /\ devlist'[x] = IF x = p THEN devlist[last] ELSE devlist[x]
    <3>1. \A x \in Used(devcount') : x \in Used(devcount) /\ x # last
      BY <2>1, <2>3 DEF Used
    <3>2. QED
      BY <2>1, <2>2, <2>3, <3>1, UsedCells DEF ListTypes
  <2>5. \A x \in Used(devcount) : x # last => x \in Used(devcount')
    BY <2>1, <2>3 DEF Used
  <2>6. ASSUME NEW x \in Used(devcount')
        PROVE  devlist'[x] \in Listed \ {d}
    BY <2>2, <2>3, <2>4 DEF Distinct, Listed
  <2>7. ASSUME NEW x \in Used(devcount), devlist[x] # d
        PROVE  devlist[x] \in Listed'
    <3>1. x # p
      BY <2>2, <2>7
    <3>2. CASE x # last
      <4>1. x \in Used(devcount') /\ devlist'[x] = devlist[x]
        BY <2>4, <2>5, <3>1, <3>2
      <4>2. QED
        BY <4>1 DEF Listed
    <3>3. CASE x = last
      <4>1. p \in Used(devcount') /\ devlist'[p] = devlist[x]
        BY <2>2, <2>4, <2>5, <3>1, <3>3
      <4>2. QED
        BY <4>1 DEF Listed
    <3>4. QED
      BY <3>2, <3>3
  <2>8. QED
    BY <2>6, <2>7 DEF Listed
<1>3. QED
  BY <1>1, <1>2

(* addCamera adds one camera to the list. *)
LEMMA AddCameraListed ==
  ASSUME ListTypes, AddCamera
  PROVE  \E c \in Camera :
           /\ Listed' = Listed \cup {c}
           /\ lost' \subseteq lost \cup {c}
           /\ scenariolist' = WithSource(scenariolist, c, Listed)
           /\ wiped' = wiped
<1>1. PICK c \in Camera : /\ devlist' = [devlist EXCEPT ![devcount] = c]
                          /\ \E stale \in SUBSET {c} : lost' = lost \cup stale
                          /\ scenariolist' = WithSource(scenariolist, c, Listed)
  BY DEF AddCamera
<1>2. devcount < MAXDEVICENUM /\ devcount' = devcount + 1 /\ wiped' = wiped
  BY DEF AddCamera
<1>3. devcount \in Cell /\ devcount \in Used(devcount') /\ devcount \in Nat
  BY <1>2, UsedCells, Sizes DEF Used, Cell
<1>4. \A x \in Used(devcount) : x \in Used(devcount') /\ devlist'[x] = devlist[x]
  BY <1>1, <1>2, UsedCells DEF Used, ListTypes
<1>5. devlist'[devcount] = c
  BY <1>1, <1>3 DEF ListTypes
<1>6. \A x \in Used(devcount') : x \in Used(devcount) \/ x = devcount
  BY <1>2, <1>3 DEF Used
<1>7. Listed' = Listed \cup {c}
  BY <1>3, <1>4, <1>5, <1>6 DEF Listed
<1>8. QED
  BY <1>1, <1>2, <1>7

-----------------------------------------------------------------------------
(* The types of the rest. *)

EntryInv ==
  /\ scenariolist \in Seq(Entry)
  /\ lost \subseteq Listed
  /\ camAdded \in BOOLEAN
  /\ wiped \in BOOLEAN

\* Whatever is done with them, the entries are sources or the gateway's own,
\* and only listed devices are lost.
LEMMA EntryStep ==
  ASSUME DevInv, EntryInv, [Next]_vars
  PROVE  EntryInv'
<1>0. /\ ListTypes /\ Distinct
      /\ scenariolist \in Seq(Entry) /\ lost \subseteq Listed
      /\ camAdded \in BOOLEAN /\ wiped \in BOOLEAN
  BY DEF DevInv, EntryInv
<1>00. Source \subseteq Did /\ Sources \subseteq Did /\ Camera \subseteq Did /\ RF \subseteq Did
  BY DevicesAssumption DEF Sources, Did
<1>1. ASSUME NEW d \in RF, Pair(d)
      PROVE  EntryInv'
  <2>1. /\ lost' = lost \ (IF devcount = MAXDEVICENUM THEN {GivenUp} ELSE {})
        /\ scenariolist' = IF d \in Source THEN WithSource(scenariolist, d, Listed')
                           ELSE scenariolist
        /\ camAdded' = camAdded /\ wiped' = wiped
    BY <1>1 DEF Pair
  <2>2. scenariolist' \in Seq(Entry)
    BY <1>0, <1>00, <2>1, WithSourceType
  <2>3. lost' \subseteq Listed'
    BY <1>0, <1>1, <2>1, PairListed
  <2>4. QED
    BY <1>0, <2>1, <2>2, <2>3 DEF EntryInv
<1>2. CASE AddCamera
  <2>1. PICK c \in Camera : /\ Listed' = Listed \cup {c}
                            /\ lost' \subseteq lost \cup {c}
                            /\ scenariolist' = WithSource(scenariolist, c, Listed)
                            /\ wiped' = wiped
    BY <1>0, <1>2, AddCameraListed
  <2>2. camAdded' = TRUE
    BY <1>2 DEF AddCamera
  <2>3. scenariolist' \in Seq(Entry)
    BY <1>0, <1>00, <2>1, WithSourceType
  <2>4. QED
    BY <1>0, <2>1, <2>2, <2>3 DEF EntryInv
<1>3. ASSUME NEW d \in Did, DeleteDev(d)
      PROVE  EntryInv'
  <2>1. /\ lost' = lost \ {d}
        /\ scenariolist' = Unlinked(scenariolist, d)
        /\ camAdded' = camAdded /\ wiped' = wiped
    BY <1>3 DEF DeleteDev
  <2>2. scenariolist' \in Seq(Entry)
    BY <1>0, <2>1, UnlinkedKeeps
  <2>3. Listed' = Listed \ {d}
    BY <1>0, <1>3, DeleteListed
  <2>4. QED
    BY <1>0, <2>1, <2>2, <2>3 DEF EntryInv
<1>4. ASSUME NEW d \in Sources, client_sourcelink(d)
      PROVE  EntryInv'
  <2>1. /\ scenariolist' = WithSource(scenariolist, d, Listed)
        /\ Listed' = Listed /\ lost' = lost /\ camAdded' = camAdded /\ wiped' = wiped
    BY <1>4 DEF client_sourcelink, Listed
  <2>2. scenariolist' \in Seq(Entry)
    BY <1>0, <1>00, <2>1, WithSourceType
  <2>3. QED
    BY <1>0, <2>1, <2>2 DEF EntryInv
<1>5. ASSUME Listed' = Listed, lost' \subseteq Listed, scenariolist' \in Seq(Entry),
             camAdded' \in BOOLEAN, wiped' \in BOOLEAN
      PROVE  EntryInv'
  BY <1>5 DEF EntryInv
<1>6. ASSUME NEW d \in Did, AutoReport(d) \/ Event(d) \/ EditDev(d)
      PROVE  EntryInv'
  <2>1. /\ d \in Listed /\ lost' \subseteq lost \cup {d} /\ Listed' = Listed
        /\ scenariolist' = scenariolist /\ camAdded' = camAdded /\ wiped' = wiped
    BY <1>6 DEF AutoReport, Event, EditDev, Listed
  <2>2. QED
    BY <1>0, <1>5, <2>1
<1>7. CASE checkkeepalive \/ ipc_reconnect \/ Tick \/ UNCHANGED vars
  <2>1. /\ lost' \subseteq lost \cup Listed /\ Listed' = Listed
        /\ scenariolist' = scenariolist /\ camAdded' = camAdded /\ wiped' = wiped
    BY <1>7 DEF checkkeepalive, ipc_reconnect, Tick, vars, Listed
  <2>2. QED
    BY <1>0, <1>5, <2>1
<1>8. CASE Restart
  <2>1. /\ lost' \subseteq Listed /\ Listed' = Listed
        /\ scenariolist' = Booted(scenariolist) /\ camAdded' = FALSE /\ wiped' = wiped
    BY <1>8 DEF Restart, Listed
  <2>2. scenariolist' \in Seq(Entry)
    BY <1>0, <2>1, BootedKeeps
  <2>3. QED
    BY <1>0, <1>5, <2>1, <2>2
<1>9. CASE FactoryReset
  <2>1. lost' = {} /\ scenariolist' = <<Sunrise, Sunset>> /\ camAdded' = FALSE /\ wiped' = FALSE
    BY <1>9 DEF FactoryReset
  <2>2. scenariolist' \in Seq(Entry)
    BY <2>1, Entries
  <2>3. QED
    BY <2>1, <2>2 DEF EntryInv
<1>10. CASE ResetDefault
  <2>1. /\ lost' = lost /\ Listed' = Listed
        /\ scenariolist' = <<>> /\ camAdded' = camAdded /\ wiped' = TRUE
    BY <1>10 DEF ResetDefault, Listed
  <2>2. scenariolist' \in Seq(Entry)
    BY <2>1
  <2>3. QED
    BY <1>0, <1>5, <2>1, <2>2
<1>11. QED
  BY <1>00, <1>1, <1>2, <1>3, <1>4, <1>6, <1>7, <1>8, <1>9, <1>10 DEF Next

\* The lists have their shape in every state, full or not: devlist is filled
\* from its first cell on without holes, the entries of scenariolist are dids
\* or sunrise and sunset, and only a listed device is marked lost
\* (jsw_protocol.c:1631, 1973, 4237 and 6602).
THEOREM DevTypeOK == Spec => []TypeOK
<1>1. Init => EntryInv
  <2>1. <<Sunrise, Sunset>> \in Seq(Entry)
    BY Entries
  <2>2. QED
    BY <2>1 DEF Init, EntryInv
<1>2. DevInv /\ EntryInv /\ [Next]_vars => EntryInv'
  BY EntryStep
<1>3. DevInv /\ EntryInv => TypeOK
  <2>1. Entry = Did \cup {Sunrise, Sunset}
    BY DEF Entry, Gateway
  <2>2. QED
    BY <2>1 DEF DevInv, ListTypes, EntryInv, TypeOK
<1>4. QED
  BY DevInvariant, <1>1, <1>2, <1>3, PTL DEF Spec

-----------------------------------------------------------------------------
(* The scenarios of listed sources: a list without more entries than its    *)
(* devices account for can always be sorted out to make room.               *)

ScenInv ==
  ~wiped =>
    /\ Modest(scenariolist)
    /\ Contains(scenariolist, Sunrise) /\ Contains(scenariolist, Sunset)
    /\ \A d \in Listed \cap Sources : Contains(scenariolist, d)
    /\ Double = {} => Len(scenariolist) <= SCENARIOSIZE

(* A step that makes an entry keeps what there is. *)
LEMMA SourceStep ==
  ASSUME Roomy, EntryInv, ScenInv, NEW d \in Did, NEW L,
         IsFiniteSet(L), Cardinality(L) <= MAXDEVICENUM,
         wiped' = wiped, scenariolist' = WithSource(scenariolist, d, L),
         L \subseteq Listed \cup {d}, Listed' \cap Sources \subseteq L \cup {d}
  PROVE  ScenInv'
<1> SUFFICES ASSUME ~wiped
             PROVE  /\ Modest(scenariolist')
                    /\ Contains(scenariolist', Sunrise) /\ Contains(scenariolist', Sunset)
                    /\ \A e \in Listed' \cap Sources : Contains(scenariolist', e)
                    /\ Double = {} => Len(scenariolist') <= SCENARIOSIZE
  BY DEF ScenInv, Modest, Contains
<1>1. /\ scenariolist \in Seq(Entry) /\ Modest(scenariolist)
      /\ Contains(scenariolist, Sunrise) /\ Contains(scenariolist, Sunset)
      /\ \A e \in Listed \cap Sources : Contains(scenariolist, e)
      /\ Double = {} => Len(scenariolist) <= SCENARIOSIZE
  BY DEF EntryInv, ScenInv
<1>2. /\ Modest(scenariolist')
      /\ \A e \in L \cup Gateway :
           Contains(scenariolist, e) => Contains(scenariolist', e)
      /\ Contains(scenariolist', d)
      /\ Double = {} /\ Len(scenariolist) <= SCENARIOSIZE =>
           Len(scenariolist') <= SCENARIOSIZE
  BY <1>1, WithSourceKeeps
<1>3. Contains(scenariolist', Sunrise) /\ Contains(scenariolist', Sunset)
  BY <1>1, <1>2 DEF Gateway
<1>4. \A e \in Listed' \cap Sources : Contains(scenariolist', e)
  BY <1>1, <1>2
<1>5. QED
  BY <1>1, <1>2, <1>3, <1>4

(* No step takes the scenario of a listed source away but the reset. *)
LEMMA ScenStep ==
  ASSUME Roomy, DevInv, DevInv', EntryInv, ScenInv, [Next]_vars
  PROVE  ScenInv'
<1>0. ListTypes /\ Distinct /\ ListTypes' /\ scenariolist \in Seq(Entry)
  BY DEF DevInv, EntryInv
<1>00. Source \subseteq Did /\ Sources \subseteq Did /\ Camera \subseteq Did /\ RF \subseteq Did
  BY DevicesAssumption DEF Sources, Did
<1>1. IsFiniteSet(Listed) /\ Cardinality(Listed) <= MAXDEVICENUM
  BY <1>0, ListedIsShort
<1>2. IsFiniteSet(Listed') /\ Cardinality(Listed') <= MAXDEVICENUM
  <2>1. (ListTypes => IsFiniteSet(Listed) /\ Cardinality(Listed) <= MAXDEVICENUM)'
    BY ListedIsShort, PTL
  <2>2. QED
    BY <1>0, <2>1
<1>3. ASSUME wiped' = wiped, scenariolist' = scenariolist,
             Listed' \cap Sources \subseteq Listed
      PROVE  ScenInv'
  BY <1>3 DEF ScenInv, Modest, Contains
<1>4. ASSUME NEW d \in RF, Pair(d)
      PROVE  ScenInv'
  <2>1. /\ scenariolist' = IF d \in Source THEN WithSource(scenariolist, d, Listed')
                           ELSE scenariolist
        /\ wiped' = wiped
    BY <1>4 DEF Pair
  <2>2. Listed' \subseteq Listed \cup {d}
    BY <1>0, <1>4, PairListed
  <2>3. CASE d \in Source
    BY <1>00, <1>2, <2>1, <2>2, <2>3, SourceStep
  <2>4. CASE d \notin Source
    <3>1. d \notin Sources
      BY <2>4, DevicesAssumption DEF Sources, Camera
    <3>2. QED
      BY <1>3, <2>1, <2>2, <2>4, <3>1
  <2>5. QED
    BY <2>3, <2>4
<1>5. CASE AddCamera
  <2>1. PICK c \in Camera : /\ Listed' = Listed \cup {c}
                            /\ lost' \subseteq lost \cup {c}
                            /\ scenariolist' = WithSource(scenariolist, c, Listed)
                            /\ wiped' = wiped
    BY <1>0, <1>5, AddCameraListed
  <2>2. QED
    BY <1>00, <1>1, <2>1, SourceStep
<1>6. ASSUME NEW d \in Sources, client_sourcelink(d)
      PROVE  ScenInv'
  <2>1. /\ scenariolist' = WithSource(scenariolist, d, Listed)
        /\ Listed' = Listed /\ wiped' = wiped
    BY <1>6 DEF client_sourcelink, Listed
  <2>2. QED
    BY <1>00, <1>1, <2>1, SourceStep
<1>7. ASSUME NEW d \in Did, DeleteDev(d)
      PROVE  ScenInv'
  <2>1. scenariolist' = Unlinked(scenariolist, d) /\ wiped' = wiped
    BY <1>7 DEF DeleteDev
  <2>2. Listed' = Listed \ {d}
    BY <1>0, <1>7, DeleteListed
  <2>3. d # Sunrise /\ d # Sunset
    BY Entries
  <2>4. /\ scenariolist' \in Seq(Entry)
        /\ Len(scenariolist') <= Len(scenariolist)
        /\ \A e : e # d /\ Contains(scenariolist, e) => Contains(scenariolist', e)
        /\ Modest(scenariolist) => Modest(scenariolist')
    BY <1>0, <2>1, UnlinkedKeeps
  <2>5. Len(scenariolist) \in Nat /\ Len(scenariolist') \in Nat /\ SCENARIOSIZE \in Nat
    BY <1>0, <2>4, LenProperties, DevicesAssumption
  <2>6. Len(scenariolist) <= SCENARIOSIZE => Len(scenariolist') <= SCENARIOSIZE
    BY <2>4, <2>5
  <2>7. ASSUME ~wiped
        PROVE  /\ Modest(scenariolist')
               /\ Contains(scenariolist', Sunrise) /\ Contains(scenariolist', Sunset)
               /\ \A e \in Listed' \cap Sources : Contains(scenariolist', e)
               /\ Double = {} => Len(scenariolist') <= SCENARIOSIZE
    BY <2>2, <2>3, <2>4, <2>6, <2>7 DEF ScenInv
  <2>8. QED
    BY <2>1, <2>7 DEF ScenInv, Modest, Contains
<1>8. CASE Restart
  <2>1. scenariolist' = Booted(scenariolist) /\ wiped' = wiped /\ Listed' = Listed
    BY <1>8 DEF Restart, Listed
  <2>2. /\ scenariolist' \in Seq(Entry)
        /\ Contains(scenariolist', Sunrise) /\ Contains(scenariolist', Sunset)
        /\ Modest(scenariolist) =>
             /\ Modest(scenariolist')
             /\ devcount # 0 => \A e : Contains(scenariolist, e) => Contains(scenariolist', e)
        /\ Double = {} /\ Contains(scenariolist, Sunrise) /\ Contains(scenariolist, Sunset) =>
             Len(scenariolist') <= Len(scenariolist) \/ Len(scenariolist') <= 2
    BY <1>0, <2>1, BootedKeeps
  <2>3. devcount = 0 => Listed = {}
    BY DEF Listed, Used
  <2>4. /\ Len(scenariolist) \in Nat /\ Len(scenariolist') \in Nat
        /\ SCENARIOSIZE \in Nat /\ 2 <= SCENARIOSIZE
    <3>1. Cardinality(Double) \in Nat /\ MAXDEVICENUM \in Nat /\ SCENARIOSIZE \in Nat
      BY DevicesAssumption, FS_CardinalityType DEF Roomy
    <3>2. QED
      BY <1>0, <2>2, <3>1, LenProperties DEF Roomy
  <2>5. /\ Len(scenariolist) <= SCENARIOSIZE
        /\ Len(scenariolist') <= Len(scenariolist) \/ Len(scenariolist') <= 2
        => Len(scenariolist') <= SCENARIOSIZE
    BY <2>4
  <2>6. ASSUME ~wiped
        PROVE  /\ Modest(scenariolist')
               /\ Contains(scenariolist', Sunrise) /\ Contains(scenariolist', Sunset)
               /\ \A e \in Listed' \cap Sources : Contains(scenariolist', e)
               /\ Double = {} => Len(scenariolist') <= SCENARIOSIZE
    BY <2>1, <2>2, <2>3, <2>5, <2>6 DEF ScenInv
  <2>7. QED
    BY <2>1, <2>6 DEF ScenInv, Modest, Contains
<1>9. CASE FactoryReset
  <2>1. scenariolist' = <<Sunrise, Sunset>> /\ Listed' = {}
    BY <1>9 DEF FactoryReset, Listed, Used
  <2>2. /\ Len(scenariolist') = 2
        /\ scenariolist'[1] = Sunrise /\ scenariolist'[2] = Sunset
    BY <2>1
  <2>3. \A i \in 1 .. Len(scenariolist') : i = 1 \/ i = 2
    BY <2>2
  <2>4. Modest(scenariolist')
    BY <2>2, <2>3, Entries DEF Modest
  <2>5. Contains(scenariolist', Sunrise) /\ Contains(scenariolist', Sunset)
    <3>1. 1 \in 1 .. 2 /\ 2 \in 1 .. 2
      OBVIOUS
    <3>2. QED
      BY <2>2, <3>1 DEF Contains
  <2>6. Len(scenariolist') <= SCENARIOSIZE
    <3>1. Cardinality(Double) \in Nat /\ MAXDEVICENUM \in Nat /\ SCENARIOSIZE \in Nat
      BY DevicesAssumption, FS_CardinalityType DEF Roomy
    <3>2. QED
      BY <2>2, <3>1 DEF Roomy
  <2>7. QED
    BY <2>1, <2>4, <2>5, <2>6 DEF ScenInv, Modest, Contains
<1>10. CASE ResetDefault
  <2>1. wiped' = TRUE
    BY <1>10 DEF ResetDefault
  <2>2. QED
    BY <2>1 DEF ScenInv
<1>11. ASSUME NEW d \in Did, AutoReport(d) \/ Event(d) \/ EditDev(d)
       PROVE  ScenInv'
  <2>1. scenariolist' = scenariolist /\ wiped' = wiped /\ Listed' = Listed
    BY <1>11 DEF AutoReport, Event, EditDev, Listed
  <2>2. QED
    BY <1>3, <2>1
<1>12. CASE checkkeepalive \/ ipc_reconnect \/ Tick \/ UNCHANGED vars
  <2>1. scenariolist' = scenariolist /\ wiped' = wiped /\ Listed' = Listed
    BY <1>12 DEF checkkeepalive, ipc_reconnect, Tick, vars, Listed
  <2>2. QED
    BY <1>3, <2>1
<1>13. QED
  BY <1>00, <1>4, <1>5, <1>6, <1>7, <1>8, <1>9, <1>10, <1>11, <1>12 DEF Next

(* What holds of the scenarios from the start on. *)
LEMMA ScenInvariant ==
  ASSUME Roomy
  PROVE  Spec => []ScenInv
<1>1. Init => EntryInv /\ ScenInv
  <2> SUFFICES ASSUME Init
               PROVE  EntryInv /\ ScenInv
    OBVIOUS
  <2>1. scenariolist = <<Sunrise, Sunset>> /\ Listed = {}
    BY DEF Init, Listed, Used
  <2>2. /\ Len(scenariolist) = 2
        /\ scenariolist[1] = Sunrise /\ scenariolist[2] = Sunset
    BY <2>1
  <2>3. \A i \in 1 .. Len(scenariolist) : i = 1 \/ i = 2
    BY <2>2
  <2>4. Modest(scenariolist)
    BY <2>2, <2>3, Entries DEF Modest
  <2>5. Contains(scenariolist, Sunrise) /\ Contains(scenariolist, Sunset)
    <3>1. 1 \in 1 .. 2 /\ 2 \in 1 .. 2
      OBVIOUS
    <3>2. QED
      BY <2>2, <3>1 DEF Contains
  <2>6. Len(scenariolist) <= SCENARIOSIZE
    <3>1. Cardinality(Double) \in Nat /\ MAXDEVICENUM \in Nat /\ SCENARIOSIZE \in Nat
      BY DevicesAssumption, FS_CardinalityType DEF Roomy
    <3>2. QED
      BY <2>2, <3>1 DEF Roomy
  <2>7. EntryInv
    <3>1. <<Sunrise, Sunset>> \in Seq(Entry)
      BY Entries
    <3>2. lost = {} /\ camAdded = FALSE /\ wiped = FALSE
      BY DEF Init
    <3>3. QED
      BY <2>1, <3>1, <3>2 DEF EntryInv
  <2>8. QED
    BY <2>1, <2>4, <2>5, <2>6, <2>7 DEF ScenInv
<1>2. DevInv /\ EntryInv /\ [Next]_vars => EntryInv'
  BY EntryStep
<1>3. DevInv /\ DevInv' /\ EntryInv /\ ScenInv /\ [Next]_vars => ScenInv'
  BY ScenStep
<1>4. QED
  BY DevInvariant, <1>1, <1>2, <1>3, PTL DEF Spec

\* Where the list has room for what may be in the house, every listed source
\* has its scenario, through pairings, deletions, questions of phones and
\* restarts (addsource, jsw_protocol.c:4237).
THEOREM DevListedHaveScenario ==
  ASSUME Roomy
  PROVE  Spec => []ListedHaveScenario
<1>1. ScenInv => ListedHaveScenario
  BY DEF ScenInv, ListedHaveScenario
<1>2. QED
  BY ScenInvariant, <1>1, PTL

\* Without magnetic contacts and buttons the list also keeps within its array,
\* although phones ask for entries of devices that are gone; with them
\* addsource writes two entries where it made room for one.
THEOREM DevSourcesHaveScenario ==
  ASSUME Roomy, Double = {}
  PROVE  Spec => []SourcesHaveScenario
<1>1. ScenInv => SourcesHaveScenario
  BY DEF ScenInv, ListedHaveScenario, SourcesHaveScenario
<1>2. QED
  BY ScenInvariant, <1>1, PTL
=============================================================================
