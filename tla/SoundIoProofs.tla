---------------------------- MODULE SoundIoProofs ----------------------------
(***************************************************************************)
(* The devices of libsoundio are counted right, by one thread at a time,   *)
(* a connection that ended leaves nothing behind, and a stream opens with  *)
(* what soundio.h promises: for any number of devices, handles and         *)
(* streams, and any choice of the backends.                                *)
(***************************************************************************)
EXTENDS SoundIo, FiniteSetTheorems, Induction, TLAPS

Names == {"jack", "pulseaudio", "alsa", "dummy"}

\* The handles and streams that point to a device, and whether a list does.
Pointing(d) == {h \in Holders : device[h] = d}
In(d, l) == IF d \in DevicesOf(l) THEN 1 ELSE 0

TypeInv ==
  /\ device \in [Holders -> Devices \cup {NoDevice}]
  /\ list \in [Lists -> SUBSET SUBSET Devices]
  /\ \A l \in Lists : list[l] = {} \/ list[l] = {DevicesOf(l)}
  /\ ref_count \in [Devices -> Int]

Counted ==
  \A d \in Devices :
    ref_count[d] = Cardinality(Pointing(d)) + In(d, "building") + In(d, "ready")
                     + In(d, "safe") + In(d, "old") + In(d, "lost")

Unshared ==
  /\ CountsAreUnshared
  /\ DevicesOf("building") \cap (DevicesOf("ready") \cup DevicesOf("lost")) = {}

OldInCallback == pc # "callback" => list["old"] = {}

\* What the steps of an init function that are behind have acquired.
Acquired == {backend_init_fns[backend][i].gets : i \in 1..(step - 1)}

Trying ==
  /\ current_backend = None
  /\ tries \in Seq(Names) /\ tries # <<>>
  /\ step \in 1..(Len(backend_init_fns[backend]) + 1)
  /\ backend_data \subseteq Acquired
  /\ list["safe"] # {} =>
       \/ backend = "jack" /\ step = 7
       \/ backend = "dummy" /\ step \in 4..6

Unconnected ==
  /\ list["building"] = {} /\ list["ready"] = {} /\ ~methods
  /\ pc \notin {"init", "aborted"} => list["safe"] = {} /\ backend_data = {}

Leakable == {"alsa"} \X {"mutex", "cond", "notify_fd", "notify_wd", "devices_info"}

Connections ==
  /\ pc = "init" => Trying
  /\ current_backend = None => Unconnected
  /\ leaked \subseteq Leakable
  /\ list["lost"] # {} => <<"alsa", "devices_info">> \in leaked

References == TypeInv /\ Counted /\ Unshared

IInv == References /\ OldInCallback /\ Connections

-----------------------------------------------------------------------------
(* Sets *)

LEMMA Unions ==
  UNION {} = {} /\ \A S : UNION {S} = S
OBVIOUS

LEMMA HeadTail ==
  ASSUME NEW S, NEW s \in Seq(S), s # <<>>
  PROVE  Head(s) \in S /\ (Len(s) # 1 => Tail(s) \in Seq(S) /\ Tail(s) # <<>>)
<1>1. Len(s) \in Nat \ {0}
  OBVIOUS
<1>2. Head(s) \in S
  BY <1>1
<1>3. ASSUME Len(s) # 1
      PROVE  Tail(s) \in Seq(S) /\ Tail(s) # <<>>
  <2>1. Len(Tail(s)) = Len(s) - 1 /\ Tail(s) \in Seq(S)
    BY <1>1
  <2> QED
    BY <1>1, <1>3, <2>1
<1> QED
  BY <1>2, <1>3

LEMMA PointingIsFinite ==
  ASSUME NEW d
  PROVE  IsFiniteSet(Pointing(d)) /\ Cardinality(Pointing(d)) \in Nat
<1>1. IsFiniteSet(Holders)
  BY FS_Union, SoundIoAssumption DEF Holders
<1>2. Pointing(d) \in SUBSET Holders
  BY DEF Pointing
<1> QED
  BY <1>1, <1>2, FS_Subset, FS_CardinalityType

\* A device that is free is in no list and in nobody's hands.
LEMMA FreeIsNowhere ==
  ASSUME TypeInv, Counted, NEW d \in Devices, IsFree(d)
  PROVE  /\ Pointing(d) = {}
         /\ \A l \in Lists : d \notin DevicesOf(l)
         /\ \A h \in Holders : device[h] # d
<1>1. /\ Cardinality(Pointing(d)) \in Nat
      /\ \A l \in Lists : In(d, l) \in {0, 1}
  BY PointingIsFinite DEF In
<1>2. ref_count[d] = Cardinality(Pointing(d)) + In(d, "building") + In(d, "ready")
                       + In(d, "safe") + In(d, "old") + In(d, "lost")
  BY DEF Counted
<1>3. Cardinality(Pointing(d)) = 0 /\ \A l \in Lists : In(d, l) = 0
  BY <1>1, <1>2 DEF IsFree, Lists
<1>4. Pointing(d) = {}
  BY <1>3, PointingIsFinite, FS_EmptySet
<1> QED
  BY <1>3, <1>4 DEF In, Pointing

\* What a list is to be is what its devices are.
LEMMA NewList ==
  ASSUME TypeInv, NEW l \in Lists, NEW new \in SUBSET SUBSET Devices,
         new = {} \/ new = {UNION new},
         list' = [list EXCEPT ![l] = new]
  PROVE  /\ list' \in [Lists -> SUBSET SUBSET Devices]
         /\ \A k \in Lists : list'[k] = {} \/ list'[k] = {DevicesOf(k)'}
         /\ DevicesOf(l)' = UNION new
         /\ \A k \in Lists \ {l} : DevicesOf(k)' = DevicesOf(k)
BY DEF TypeInv, DevicesOf

LEMMA FilledList ==
  ASSUME TypeInv, NEW l \in Lists, NEW S \in SUBSET Devices,
         list' = [list EXCEPT ![l] = {S}]
  PROVE  /\ list' \in [Lists -> SUBSET SUBSET Devices]
         /\ \A k \in Lists : list'[k] = {} \/ list'[k] = {DevicesOf(k)'}
         /\ DevicesOf(l)' = S
         /\ \A k \in Lists \ {l} : DevicesOf(k)' = DevicesOf(k)
<1>1. {S} \in SUBSET SUBSET Devices /\ UNION {S} = S
  BY Unions
<1> QED
  BY <1>1, NewList

LEMMA ListsAreSets ==
  ASSUME TypeInv, NEW l \in Lists
  PROVE  DevicesOf(l) \in SUBSET Devices /\ (list[l] = {} => DevicesOf(l) = {})
BY Unions DEF TypeInv, DevicesOf

\* One more holder, one more of those that point to the device.
LEMMA HoldCount ==
  ASSUME TypeInv, NEW h \in Holders, NEW d \in Devices, device[h] = NoDevice,
         device' = [device EXCEPT ![h] = d]
  PROVE  /\ device' \in [Holders -> Devices \cup {NoDevice}]
         /\ \A e \in Devices :
              Cardinality(Pointing(e))' =
                IF e = d THEN Cardinality(Pointing(e)) + 1 ELSE Cardinality(Pointing(e))
<1>1. NoDevice \notin Devices
  BY SoundIoAssumption
<1>2. device' \in [Holders -> Devices \cup {NoDevice}]
  BY DEF TypeInv
<1>3. Pointing(d)' = Pointing(d) \cup {h} /\ h \notin Pointing(d)
  BY <1>1 DEF TypeInv, Pointing
<1>4. Cardinality(Pointing(d))' = Cardinality(Pointing(d)) + 1
  BY <1>3, FS_AddElement, PointingIsFinite
<1>5. ASSUME NEW e \in Devices, e # d
      PROVE  Pointing(e)' = Pointing(e)
  BY <1>1, <1>5 DEF TypeInv, Pointing
<1> QED
  BY <1>2, <1>4, <1>5

LEMMA ReleaseCount ==
  ASSUME TypeInv, NEW h \in Holders, device[h] # NoDevice,
         device' = [device EXCEPT ![h] = NoDevice]
  PROVE  /\ device' \in [Holders -> Devices \cup {NoDevice}]
         /\ \A e \in Devices :
              Cardinality(Pointing(e))' =
                IF e = device[h] THEN Cardinality(Pointing(e)) - 1
                                 ELSE Cardinality(Pointing(e))
<1>0. PICK d \in Devices : d = device[h]
  BY DEF TypeInv
<1>1. NoDevice \notin Devices
  BY SoundIoAssumption
<1>2. device' \in [Holders -> Devices \cup {NoDevice}]
  BY DEF TypeInv
<1>3. Pointing(d)' = Pointing(d) \ {h} /\ h \in Pointing(d)
  BY <1>0, <1>1 DEF TypeInv, Pointing
<1>4. Cardinality(Pointing(d))' = Cardinality(Pointing(d)) - 1
  BY <1>3, FS_RemoveElement, PointingIsFinite
<1>5. ASSUME NEW e \in Devices, e # d
      PROVE  Pointing(e)' = Pointing(e)
  BY <1>0, <1>1, <1>5 DEF TypeInv, Pointing
<1> QED
  BY <1>0, <1>2, <1>4, <1>5

\* HoldersOf, counted part by part.
LEMMA OneMore ==
  ASSUME NEW S, IsFiniteSet(S), NEW x, x \notin S, NEW P \in BOOLEAN,
         NEW T, T = IF P THEN S \cup {x} ELSE S
  PROVE  /\ IsFiniteSet(T)
         /\ Cardinality(T) = Cardinality(S) + IF P THEN 1 ELSE 0
         /\ Cardinality(T) \in Nat
<1>1. CASE P
  BY <1>1, FS_AddElement, FS_CardinalityType
<1>2. CASE ~P
  BY <1>2, FS_CardinalityType
<1> QED
  BY <1>1, <1>2

LEMMA HoldersAreCounted ==
  ASSUME NEW d \in Devices
  PROVE  Cardinality(HoldersOf(d)) =
           Cardinality(Pointing(d)) + In(d, "building") + In(d, "ready")
             + In(d, "safe") + In(d, "old") + In(d, "lost")
<1> DEFINE With(S, l) == IF d \in DevicesOf(l) THEN S \cup {l} ELSE S
           A == Pointing(d)
           B == With(A, "building")
           C == With(B, "ready")
           D == With(C, "safe")
           E == With(D, "old")
           F == With(E, "lost")
<1>1. IsFiniteSet(A) /\ Cardinality(A) \in Nat
  BY PointingIsFinite
<1>2. A \cap Lists = {}
  BY SoundIoAssumption DEF Pointing, Holders
<1>3. "building" \notin A /\ "ready" \notin B /\ "safe" \notin C
  BY <1>2 DEF Lists
<1>11. "old" \notin D /\ "lost" \notin E
  BY <1>2 DEF Lists
<1> HIDE DEF A
<1>4. IsFiniteSet(B) /\ Cardinality(B) = Cardinality(A) + In(d, "building")
  BY <1>1, <1>3, OneMore DEF In
<1>5. IsFiniteSet(C) /\ Cardinality(C) = Cardinality(B) + In(d, "ready")
  <2> HIDE DEF B
  <2> QED
    BY <1>3, <1>4, OneMore DEF In
<1>6. IsFiniteSet(D) /\ Cardinality(D) = Cardinality(C) + In(d, "safe")
  <2> HIDE DEF C
  <2> QED
    BY <1>3, <1>5, OneMore DEF In
<1>7. IsFiniteSet(E) /\ Cardinality(E) = Cardinality(D) + In(d, "old")
  <2>1. "old" \notin D
    BY <1>11
  <2> HIDE DEF D
  <2> QED
    BY <2>1, <1>6, OneMore DEF In
<1>10. Cardinality(F) = Cardinality(E) + In(d, "lost")
  <2>1. "lost" \notin E
    BY <1>11
  <2> HIDE DEF E
  <2> QED
    BY <2>1, <1>7, OneMore DEF In
<1>8. HoldersOf(d) = F
  BY DEF HoldersOf, A, Pointing, Lists
<1>9. \A l \in {"building", "ready", "safe", "old", "lost"} : In(d, l) \in {0, 1}
  BY DEF In
<1> HIDE DEF B, C, D, E, F
<1> QED
  BY <1>1, <1>4, <1>5, <1>6, <1>7, <1>8, <1>9, <1>10 DEF A

-----------------------------------------------------------------------------
(* Refreshing *)

\* What remains to be shown of a step that changes lists but no holder.
LEMMA ListStep ==
  ASSUME References, UNCHANGED device,
         list' \in [Lists -> SUBSET SUBSET Devices],
         \A l \in Lists : list'[l] = {} \/ list'[l] = {DevicesOf(l)'},
         ref_count' \in [Devices -> Int],
         \A d \in Devices :
           ref_count'[d] = ref_count[d]
             + In(d, "building")' + In(d, "ready")' + In(d, "safe")' + In(d, "old")' + In(d, "lost")'
             - In(d, "building") - In(d, "ready") - In(d, "safe") - In(d, "old") - In(d, "lost"),
         Unshared'
  PROVE  References'
<1>1. TypeInv'
  BY DEF References, TypeInv
<1>2. ASSUME NEW d \in Devices
      PROVE  (ref_count[d] = Cardinality(Pointing(d)) + In(d, "building")
                + In(d, "ready") + In(d, "safe") + In(d, "old") + In(d, "lost"))'
  <2>1. Pointing(d)' = Pointing(d)
    BY DEF Pointing
  <2>2. Cardinality(Pointing(d)) \in Nat
    BY PointingIsFinite
  <2>3. ref_count[d] = Cardinality(Pointing(d)) + In(d, "building")
                + In(d, "ready") + In(d, "safe") + In(d, "old") + In(d, "lost")
    BY DEF References, Counted
  <2>4. \A l \in Lists : In(d, l) \in {0, 1} /\ In(d, l)' \in {0, 1}
    BY DEF In
  <2> QED
    BY <2>1, <2>2, <2>3, <2>4 DEF Lists
<1>3. Counted'
  BY <1>2 DEF Counted
<1> QED
  BY <1>1, <1>3 DEF References

LEMMA ScanBeginsKeeps ==
  ASSUME References, ScanBegins
  PROVE  References'
<1> USE DEF References
<1>1. /\ list' \in [Lists -> SUBSET SUBSET Devices]
      /\ \A l \in Lists : list'[l] = {} \/ list'[l] = {DevicesOf(l)'}
      /\ \A l \in Lists : DevicesOf(l)' = DevicesOf(l)
  <2>1. list' = [list EXCEPT !["building"] = {{}}] /\ {} \in SUBSET Devices
    BY DEF ScanBegins
  <2>2. DevicesOf("building") = {}
    BY Unions DEF ScanBegins, DevicesOf
  <2> QED
    BY <2>1, <2>2, FilledList DEF Lists
<1>2. UNCHANGED <<ref_count, device>>
  BY DEF ScanBegins
<1>3. Unshared'
  BY <1>1, <1>2 DEF Unshared, CountsAreUnshared, Lists
<1>4. \A d \in Devices, l \in Lists : In(d, l)' = In(d, l) /\ In(d, l) \in {0, 1}
  BY <1>1 DEF In
<1>5. ref_count' \in [Devices -> Int]
  BY <1>2 DEF TypeInv
<1> HIDE DEF References
<1> QED
  BY <1>1, <1>2, <1>3, <1>4, <1>5, ListStep DEF Lists

LEMMA ScanAppendsKeeps ==
  ASSUME References, ScanAppends
  PROVE  References'
<1> USE DEF References
<1>1. PICK d \in Devices :
        /\ IsFree(d)
        /\ ref_count' = Referenced(d)
        /\ list' = [list EXCEPT !["building"] = {DevicesOf("building") \cup {d}}]
  BY DEF ScanAppends
<1>2. DevicesOf("building") \cup {d} \in SUBSET Devices
  BY ListsAreSets DEF Lists
<1>3. /\ list' \in [Lists -> SUBSET SUBSET Devices]
      /\ \A l \in Lists : list'[l] = {} \/ list'[l] = {DevicesOf(l)'}
      /\ DevicesOf("building")' = DevicesOf("building") \cup {d}
      /\ \A l \in Lists \ {"building"} : DevicesOf(l)' = DevicesOf(l)
  BY <1>1, <1>2, FilledList DEF Lists
<1>4. UNCHANGED device
  BY DEF ScanAppends
<1>5. /\ \A l \in Lists : d \notin DevicesOf(l)
      /\ \A h \in Holders : device[h] # d
  BY <1>1, FreeIsNowhere
<1>6. Unshared'
  BY <1>3, <1>4, <1>5 DEF Unshared, CountsAreUnshared, Lists
<1>7. ref_count' \in [Devices -> Int]
  BY <1>1 DEF Referenced, TypeInv
<1>8. ASSUME NEW e \in Devices
      PROVE  ref_count'[e] = ref_count[e]
         + In(e, "building")' + In(e, "ready")' + In(e, "safe")' + In(e, "old")' + In(e, "lost")'
         - In(e, "building") - In(e, "ready") - In(e, "safe") - In(e, "old") - In(e, "lost")
  <2>1. ref_count'[e] = IF e = d THEN ref_count[e] + 1 ELSE ref_count[e]
    BY <1>1 DEF Referenced, TypeInv
  <2>2. ref_count[e] \in Int
    BY DEF TypeInv
  <2>3. In(e, "building")' = IF e = d THEN In(e, "building") + 1 ELSE In(e, "building")
    BY <1>3, <1>5 DEF In, Lists
  <2>4. \A l \in Lists \ {"building"} : In(e, l)' = In(e, l)
    BY <1>3 DEF In
  <2>5. \A l \in Lists : In(e, l) \in {0, 1}
    BY DEF In
  <2> QED
    BY <2>1, <2>2, <2>3, <2>4, <2>5 DEF Lists
<1> HIDE DEF References
<1> QED
  BY <1>3, <1>4, <1>6, <1>7, <1>8, ListStep

LEMMA ListFreed ==
  ASSUME References, UNCHANGED device, NEW l \in Lists,
         ref_count' = Unreferenced(DevicesOf(l)),
         list' = [list EXCEPT ![l] = {}]
  PROVE  References'
<1> USE DEF References
<1>1. /\ list' \in [Lists -> SUBSET SUBSET Devices]
      /\ \A k \in Lists : list'[k] = {} \/ list'[k] = {DevicesOf(k)'}
      /\ DevicesOf(l)' = {}
      /\ \A k \in Lists \ {l} : DevicesOf(k)' = DevicesOf(k)
  BY Unions, NewList
<1>2. Unshared'
  BY <1>1 DEF Unshared, CountsAreUnshared, Lists
<1>3. ref_count' \in [Devices -> Int]
  BY DEF Unreferenced, TypeInv
<1>4. ASSUME NEW e \in Devices
      PROVE  ref_count'[e] = ref_count[e]
         + In(e, "building")' + In(e, "ready")' + In(e, "safe")' + In(e, "old")' + In(e, "lost")'
         - In(e, "building") - In(e, "ready") - In(e, "safe") - In(e, "old") - In(e, "lost")
  <2>1. ref_count'[e] = ref_count[e] - In(e, l) /\ ref_count[e] \in Int
    BY DEF Unreferenced, TypeInv, In
  <2>2. In(e, l)' = 0 /\ \A k \in Lists \ {l} : In(e, k)' = In(e, k)
    BY <1>1 DEF In
  <2>3. \A k \in Lists : In(e, k) \in {0, 1}
    BY DEF In
  <2> QED
    BY <2>1, <2>2, <2>3 DEF Lists
<1> HIDE DEF References
<1> QED
  BY <1>1, <1>2, <1>3, <1>4, ListStep

LEMMA ListLost ==
  ASSUME References, ScanLoses
  PROVE  References'
<1> USE DEF References
<1>1. /\ list' = [list EXCEPT !["lost"] = {DevicesOf("lost") \cup DevicesOf("building")},
                              !["building"] = {}]
      /\ UNCHANGED <<ref_count, device>>
  BY DEF ScanLoses
<1>2. /\ list' \in [Lists -> SUBSET SUBSET Devices]
      /\ DevicesOf("lost")' = DevicesOf("lost") \cup DevicesOf("building")
      /\ DevicesOf("building")' = {}
      /\ \A k \in Lists \ {"lost", "building"} : DevicesOf(k)' = DevicesOf(k)
  <2>1. DevicesOf("lost") \cup DevicesOf("building") \in SUBSET Devices
    BY ListsAreSets DEF Lists
  <2> QED
    BY <1>1, <2>1, Unions DEF TypeInv, DevicesOf, Lists
<1>3. \A k \in Lists : list'[k] = {} \/ list'[k] = {DevicesOf(k)'}
  BY <1>1, <1>2 DEF TypeInv, Lists
<1>4. Unshared'
  BY <1>1, <1>2 DEF Unshared, CountsAreUnshared, Lists
<1>5. ref_count' \in [Devices -> Int]
  BY <1>1 DEF TypeInv
<1>6. ASSUME NEW e \in Devices
      PROVE  ref_count'[e] = ref_count[e]
         + In(e, "building")' + In(e, "ready")' + In(e, "safe")' + In(e, "old")' + In(e, "lost")'
         - In(e, "building") - In(e, "ready") - In(e, "safe") - In(e, "old") - In(e, "lost")
  <2>1. ref_count'[e] = ref_count[e] /\ ref_count[e] \in Int
    BY <1>1 DEF TypeInv
  <2>2. In(e, "lost")' = In(e, "lost") + In(e, "building") /\ In(e, "building")' = 0
    BY <1>2 DEF In, Unshared
  <2>3. \A k \in Lists \ {"lost", "building"} : In(e, k)' = In(e, k)
    BY <1>2 DEF In
  <2>4. \A k \in Lists : In(e, k) \in {0, 1}
    BY DEF In
  <2> QED
    BY <2>1, <2>2, <2>3, <2>4 DEF Lists
<1> HIDE DEF References
<1> QED
  BY <1>1, <1>2, <1>3, <1>4, <1>5, <1>6, ListStep

LEMMA ListHandedOver ==
  ASSUME References, UNCHANGED device, NEW l \in {"ready", "safe"},
         ref_count' = Unreferenced(DevicesOf(l)),
         list' = [list EXCEPT ![l] = list["building"], !["building"] = {}]
  PROVE  References'
<1> USE DEF References
<1>1. /\ list' \in [Lists -> SUBSET SUBSET Devices]
      /\ DevicesOf(l)' = DevicesOf("building")
      /\ DevicesOf("building")' = {}
      /\ \A k \in Lists \ {l, "building"} : DevicesOf(k)' = DevicesOf(k)
  BY Unions DEF TypeInv, DevicesOf, Lists
<1>2. \A k \in Lists : list'[k] = {} \/ list'[k] = {DevicesOf(k)'}
  BY <1>1 DEF TypeInv, Lists
<1>3. Unshared'
  BY <1>1 DEF Unshared, CountsAreUnshared, Lists
<1>4. ref_count' \in [Devices -> Int]
  BY DEF Unreferenced, TypeInv
<1>5. ASSUME NEW e \in Devices
      PROVE  ref_count'[e] = ref_count[e]
         + In(e, "building")' + In(e, "ready")' + In(e, "safe")' + In(e, "old")' + In(e, "lost")'
         - In(e, "building") - In(e, "ready") - In(e, "safe") - In(e, "old") - In(e, "lost")
  <2>1. ref_count'[e] = ref_count[e] - In(e, l) /\ ref_count[e] \in Int
    BY DEF Unreferenced, TypeInv, In
  <2>2. /\ In(e, l)' = In(e, "building") /\ In(e, "building")' = 0
        /\ \A k \in Lists \ {l, "building"} : In(e, k)' = In(e, k)
    BY <1>1 DEF In
  <2>3. \A k \in Lists : In(e, k) \in {0, 1}
    BY DEF In
  <2> QED
    BY <2>1, <2>2, <2>3 DEF Lists
<1> HIDE DEF References
<1> QED
  BY <1>1, <1>2, <1>3, <1>4, <1>5, ListStep

LEMMA ScanKeeps ==
  ASSUME References, Scan
  PROVE  References'
<1>1. CASE ScanBegins
  BY <1>1, ScanBeginsKeeps
<1>2. CASE ScanAppends
  BY <1>2, ScanAppendsKeeps
<1>3. CASE ScanFails
  BY <1>3, ListFreed DEF ScanFails, Lists
<1>4. CASE ScanPublishes
  BY <1>4, ListHandedOver DEF ScanPublishes
<1>5. CASE ScanReplaces
  BY <1>5, ListHandedOver DEF ScanReplaces
<1>6. CASE ScanLoses
  BY <1>6, ListLost
<1> QED
  BY <1>1, <1>2, <1>3, <1>4, <1>5, <1>6 DEF Scan

-----------------------------------------------------------------------------
(* Flushing *)

LEMMA NothingCounted ==
  ASSUME References, UNCHANGED references
  PROVE  References'
<1>1. UNCHANGED <<ref_count, list, device>>
  BY DEF references
<1>2. \A l : DevicesOf(l)' = DevicesOf(l)
  BY <1>1 DEF DevicesOf
<1>3. \A d : Pointing(d)' = Pointing(d) /\ \A l : In(d, l)' = In(d, l)
  BY <1>1, <1>2 DEF Pointing, In
<1>4. TypeInv'
  BY <1>1, <1>2 DEF References, TypeInv
<1>5. Counted'
  BY <1>1, <1>3 DEF References, Counted
<1>6. Unshared'
  BY <1>1, <1>2 DEF References, Unshared, CountsAreUnshared
<1> QED
  BY <1>4, <1>5, <1>6 DEF References

LEMMA FlushFetchesKeeps ==
  ASSUME References, OldInCallback, FlushFetches
  PROVE  References'
<1>1. CASE list["ready"] = {}
  BY <1>1, NothingCounted DEF FlushFetches, references
<1>2. CASE list["ready"] # {}
  <2> USE DEF References
  <2>1. /\ list' = [list EXCEPT !["old"] = list["safe"],
                                !["safe"] = list["ready"], !["ready"] = {}]
        /\ UNCHANGED <<ref_count, device>>
    BY <1>2 DEF FlushFetches
  <2>2. list["old"] = {} /\ DevicesOf("old") = {}
    BY Unions DEF FlushFetches, OldInCallback, DevicesOf
  <2>3. /\ list' \in [Lists -> SUBSET SUBSET Devices]
        /\ DevicesOf("old")' = DevicesOf("safe")
        /\ DevicesOf("safe")' = DevicesOf("ready")
        /\ DevicesOf("ready")' = {}
        /\ \A k \in {"building", "lost"} : DevicesOf(k)' = DevicesOf(k)
    BY <2>1, Unions DEF TypeInv, DevicesOf, Lists
  <2>4. \A l \in Lists : list'[l] = {} \/ list'[l] = {DevicesOf(l)'}
    BY <2>1, <2>3 DEF TypeInv, Lists
  <2>5. Unshared'
    BY <2>1, <2>3 DEF Unshared, CountsAreUnshared
  <2>6. ref_count' \in [Devices -> Int]
    BY <2>1 DEF TypeInv
  <2>7. ASSUME NEW e \in Devices
        PROVE  ref_count'[e] = ref_count[e]
           + In(e, "building")' + In(e, "ready")' + In(e, "safe")' + In(e, "old")' + In(e, "lost")'
           - In(e, "building") - In(e, "ready") - In(e, "safe") - In(e, "old") - In(e, "lost")
    <3>1. ref_count'[e] = ref_count[e] /\ ref_count[e] \in Int
      BY <2>1 DEF TypeInv
    <3>2. /\ In(e, "old")' = In(e, "safe") /\ In(e, "safe")' = In(e, "ready")
          /\ In(e, "ready")' = 0 /\ In(e, "building")' = In(e, "building")
          /\ In(e, "old") = 0 /\ In(e, "lost")' = In(e, "lost")
      BY <2>2, <2>3 DEF In
    <3>3. \A l \in Lists : In(e, l) \in {0, 1}
      BY DEF In
    <3> QED
      BY <3>1, <3>2, <3>3 DEF Lists
  <2> HIDE DEF References
  <2> QED
    BY <2>1, <2>3, <2>4, <2>5, <2>6, <2>7, ListStep
<1> QED
  BY <1>1, <1>2

LEMMA FlushKeeps ==
  ASSUME References, OldInCallback, Flush
  PROVE  References'
<1>1. CASE FlushBegins
  BY <1>1, NothingCounted DEF FlushBegins
<1>2. CASE FlushFetches
  BY <1>2, FlushFetchesKeeps
<1>3. CASE FlushEnds
  BY <1>3, ListFreed DEF FlushEnds, Lists
<1> QED
  BY <1>1, <1>2, <1>3 DEF Flush

-----------------------------------------------------------------------------
(* The client's handles and streams *)

LEMMA HoldKeeps ==
  ASSUME References, NEW h \in Holders, NEW d \in Devices, Hold(h, d),
         d \notin DevicesOf("building") \cup DevicesOf("ready")
  PROVE  References'
<1> USE DEF References
<1>1. /\ device[h] = NoDevice /\ device' = [device EXCEPT ![h] = d]
      /\ ref_count' = Referenced(d) /\ UNCHANGED list
  BY DEF Hold
<1>2. \A l : DevicesOf(l)' = DevicesOf(l) /\ \A e : In(e, l)' = In(e, l)
  BY <1>1 DEF DevicesOf, In
<1>3. /\ device' \in [Holders -> Devices \cup {NoDevice}]
      /\ \A e \in Devices :
           Cardinality(Pointing(e))' =
             IF e = d THEN Cardinality(Pointing(e)) + 1 ELSE Cardinality(Pointing(e))
  BY <1>1, HoldCount
<1>4. TypeInv'
  BY <1>1, <1>2, <1>3 DEF TypeInv, Referenced
<1>5. ASSUME NEW e \in Devices
      PROVE  (ref_count[e] = Cardinality(Pointing(e)) + In(e, "building")
                + In(e, "ready") + In(e, "safe") + In(e, "old") + In(e, "lost"))'
  <2>1. ref_count'[e] = IF e = d THEN ref_count[e] + 1 ELSE ref_count[e]
    BY <1>1 DEF Referenced, TypeInv
  <2>2. ref_count[e] = Cardinality(Pointing(e)) + In(e, "building")
                + In(e, "ready") + In(e, "safe") + In(e, "old") + In(e, "lost")
    BY DEF Counted
  <2>3. Cardinality(Pointing(e)) \in Nat /\ \A l : In(e, l) \in {0, 1}
    BY PointingIsFinite DEF In
  <2> QED
    BY <1>2, <1>3, <2>1, <2>2, <2>3
<1>6. Counted'
  BY <1>5 DEF Counted
<1>7. Unshared'
  BY <1>1, <1>2 DEF Unshared, CountsAreUnshared, TypeInv
<1> QED
  BY <1>4, <1>6, <1>7

LEMMA ReleaseKeeps ==
  ASSUME References, NEW h \in Holders, Release(h)
  PROVE  References'
<1> USE DEF References
<1>1. /\ device[h] # NoDevice /\ device' = [device EXCEPT ![h] = NoDevice]
      /\ ref_count' = Unreferenced({device[h]}) /\ UNCHANGED list
  BY DEF Release
<1>2. \A l : DevicesOf(l)' = DevicesOf(l) /\ \A e : In(e, l)' = In(e, l)
  BY <1>1 DEF DevicesOf, In
<1>3. /\ device' \in [Holders -> Devices \cup {NoDevice}]
      /\ \A e \in Devices :
           Cardinality(Pointing(e))' =
             IF e = device[h] THEN Cardinality(Pointing(e)) - 1
                              ELSE Cardinality(Pointing(e))
  BY <1>1, ReleaseCount
<1>4. TypeInv'
  BY <1>1, <1>2, <1>3 DEF TypeInv, Unreferenced
<1>5. ASSUME NEW e \in Devices
      PROVE  (ref_count[e] = Cardinality(Pointing(e)) + In(e, "building")
                + In(e, "ready") + In(e, "safe") + In(e, "old") + In(e, "lost"))'
  <2>1. ref_count'[e] = IF e = device[h] THEN ref_count[e] - 1 ELSE ref_count[e] - 0
    BY <1>1 DEF Unreferenced, TypeInv
  <2>2. ref_count[e] = Cardinality(Pointing(e)) + In(e, "building")
                + In(e, "ready") + In(e, "safe") + In(e, "old") + In(e, "lost")
    BY DEF Counted
  <2>3. Cardinality(Pointing(e)) \in Nat /\ \A l : In(e, l) \in {0, 1}
    BY PointingIsFinite DEF In
  <2> QED
    BY <1>2, <1>3, <2>1, <2>2, <2>3
<1>6. Counted'
  BY <1>5 DEF Counted
<1>7. NoDevice \notin DevicesOf("building") \cup DevicesOf("ready")
  BY ListsAreSets, SoundIoAssumption DEF Lists
<1>8. Unshared'
  BY <1>1, <1>2, <1>7 DEF Unshared, CountsAreUnshared, TypeInv
<1> QED
  BY <1>4, <1>6, <1>8

LEMMA ClientKeeps ==
  ASSUME References, Client
  PROVE  References'
<1>1. CASE GetDevice
  <2>1. PICK h \in Handles, d \in DevicesOf("safe") : Hold(h, d)
    BY <1>1 DEF GetDevice
  <2>2. h \in Holders /\ d \in Devices
    BY ListsAreSets DEF Holders, References, Lists
  <2>3. d \notin DevicesOf("building") \cup DevicesOf("ready")
    BY DEF References, Unshared, CountsAreUnshared
  <2> QED
    BY <2>1, <2>2, <2>3, HoldKeeps
<1>2. ASSUME NEW h \in Holders, NEW g \in Handles, device[g] # NoDevice,
             Hold(h, device[g])
      PROVE  References'
  <2>1. device[g] \in Devices
    BY <1>2 DEF Holders, References, TypeInv
  <2>2. device[g] \notin DevicesOf("building") \cup DevicesOf("ready")
    BY DEF Holders, References, Unshared, CountsAreUnshared
  <2> QED
    BY <1>2, <2>1, <2>2, HoldKeeps
<1>3. CASE soundio_device_ref
  BY <1>2, <1>3 DEF soundio_device_ref, Holders
<1>4. CASE soundio_device_unref
  BY <1>4, ReleaseKeeps DEF soundio_device_unref, Holders
<1>5. CASE StreamCreate
  BY <1>2, <1>5 DEF StreamCreate, Holders
<1>6. CASE soundio_outstream_open
  BY <1>6, NothingCounted DEF soundio_outstream_open
<1>7. CASE soundio_instream_open
  BY <1>7, NothingCounted DEF soundio_instream_open
<1>8. CASE StreamDestroy
  BY <1>8, ReleaseKeeps DEF StreamDestroy, Holders
<1> QED
  BY <1>1, <1>3, <1>4, <1>5, <1>6, <1>7, <1>8 DEF Client

-----------------------------------------------------------------------------
(* Connecting *)

LEMMA InitFns ==
  /\ Len(jack_init) = 6 /\ Len(pulseaudio_init) = 7
  /\ Len(alsa_init) = 6 /\ Len(dummy_init) = 5
  /\ backend_init_fns["jack"] = jack_init
  /\ backend_init_fns["pulseaudio"] = pulseaudio_init
  /\ backend_init_fns["alsa"] = alsa_init
  /\ backend_init_fns["dummy"] = dummy_init
<1>1. /\ Len(jack_init) = 6 /\ Len(pulseaudio_init) = 7
      /\ Len(alsa_init) = 6 /\ Len(dummy_init) = 5
  BY DEF jack_init, pulseaudio_init, alsa_init, dummy_init
<1>2. /\ backend_init_fns["jack"] = jack_init
      /\ backend_init_fns["pulseaudio"] = pulseaudio_init
      /\ backend_init_fns["alsa"] = alsa_init
      /\ backend_init_fns["dummy"] = dummy_init
  BY DEF backend_init_fns
<1> QED
  BY <1>1, <1>2

\* Which step of which init function makes a list, or undoes nothing.
LEMMA StepIsKnown ==
  ASSUME Trying, step <= Len(backend_init_fns[backend])
  PROVE  /\ TheStep.gets = "info" => backend = "dummy" /\ step = 3
         /\ TheStep.gets \in {"output_device", "input_device"} =>
              backend = "dummy" /\ step \in {4, 5}
         /\ TheStep.gets = "devices" => backend = "jack" /\ step = 6
         /\ TheStep.undo = "nothing" => backend = "alsa" /\ step = 5
<1> DEFINE Lasting == {"info", "output_device", "input_device", "devices"}
<1>1. backend \in Names /\ step \in Nat \ {0}
  BY DEF Trying, backend
<1>2. CASE backend = "jack"
  <2>0. backend_init_fns[backend] = jack_init
    BY <1>2, InitFns
  <2>1. TheStep = jack_init[step] /\ step \in 1..6
    <3>1. step <= Len(jack_init) /\ Len(jack_init) = 6
      BY <2>0, InitFns
    <3> QED
      BY <1>1, <2>0, <3>1 DEF TheStep
  <2>2. \A i \in 1..6 : /\ jack_init[i].gets \in Lasting => jack_init[i].gets = "devices" /\ i = 6
                        /\ jack_init[i].undo # "nothing"
    BY DEF jack_init, Step
  <2> QED
    BY <1>2, <2>1, <2>2
<1>3. CASE backend = "pulseaudio"
  <2>0. backend_init_fns[backend] = pulseaudio_init
    BY <1>3, InitFns
  <2>1. TheStep = pulseaudio_init[step] /\ step \in 1..7
    <3>1. step <= Len(pulseaudio_init) /\ Len(pulseaudio_init) = 7
      BY <2>0, InitFns
    <3> QED
      BY <1>1, <2>0, <3>1 DEF TheStep
  <2>2. \A i \in 1..7 : /\ pulseaudio_init[i].gets \notin Lasting
                        /\ pulseaudio_init[i].undo # "nothing"
    BY DEF pulseaudio_init, Step, Contextless
  <2> QED
    BY <2>1, <2>2
<1>4. CASE backend = "alsa"
  <2>0. backend_init_fns[backend] = alsa_init
    BY <1>4, InitFns
  <2>1. TheStep = alsa_init[step] /\ step \in 1..6
    <3>1. step <= Len(alsa_init) /\ Len(alsa_init) = 6
      BY <2>0, InitFns
    <3> QED
      BY <1>1, <2>0, <3>1 DEF TheStep
  <2>2. \A i \in 1..6 : /\ alsa_init[i].gets \notin Lasting
                        /\ alsa_init[i].undo = "nothing" => i = 5
    BY DEF alsa_init, Step
  <2> QED
    BY <1>4, <2>1, <2>2
<1>5. CASE backend = "dummy"
  <2>0. backend_init_fns[backend] = dummy_init
    BY <1>5, InitFns
  <2>1. TheStep = dummy_init[step] /\ step \in 1..5
    <3>1. step <= Len(dummy_init) /\ Len(dummy_init) = 5
      BY <2>0, InitFns
    <3> QED
      BY <1>1, <2>0, <3>1 DEF TheStep
  <2>2. \A i \in 1..5 : /\ dummy_init[i].gets = "info" => i = 3
                        /\ dummy_init[i].gets \in {"output_device", "input_device"} => i \in {4, 5}
                        /\ dummy_init[i].gets # "devices" /\ dummy_init[i].undo # "nothing"
    BY DEF dummy_init, Step
  <2> QED
    BY <1>5, <2>1, <2>2
<1> QED
  BY <1>1, <1>2, <1>3, <1>4, <1>5 DEF Names

\* A first list of new devices, or one more device in it.
LEMMA FirstList ==
  ASSUME References, UNCHANGED device, NEW S \in SUBSET Devices,
         S \cap DevicesOf("safe") = {}, \A d \in S : IsFree(d),
         ref_count' = [d \in Devices |-> IF d \in S THEN 1 ELSE ref_count[d]],
         list' = [list EXCEPT !["safe"] = {DevicesOf("safe") \cup S}]
  PROVE  References'
<1> USE DEF References
<1>1. DevicesOf("safe") \cup S \in SUBSET Devices
  BY ListsAreSets DEF Lists
<1>2. /\ list' \in [Lists -> SUBSET SUBSET Devices]
      /\ \A k \in Lists : list'[k] = {} \/ list'[k] = {DevicesOf(k)'}
      /\ DevicesOf("safe")' = DevicesOf("safe") \cup S
      /\ \A k \in Lists \ {"safe"} : DevicesOf(k)' = DevicesOf(k)
  BY <1>1, FilledList DEF Lists
<1>3. \A d \in S, l \in Lists : d \notin DevicesOf(l)
  BY FreeIsNowhere
<1>4. Unshared'
  BY <1>2, <1>3 DEF Unshared, CountsAreUnshared, Lists
<1>5. ref_count' \in [Devices -> Int]
  BY DEF TypeInv
<1>6. ASSUME NEW e \in Devices
      PROVE  ref_count'[e] = ref_count[e]
         + In(e, "building")' + In(e, "ready")' + In(e, "safe")' + In(e, "old")' + In(e, "lost")'
         - In(e, "building") - In(e, "ready") - In(e, "safe") - In(e, "old") - In(e, "lost")
  <2>1. ref_count'[e] = IF e \in S THEN ref_count[e] + 1 ELSE ref_count[e]
    BY DEF IsFree
  <2>2. In(e, "safe")' = IF e \in S THEN In(e, "safe") + 1 ELSE In(e, "safe")
    BY <1>2, <1>3 DEF In, Lists
  <2>3. \A k \in Lists \ {"safe"} : In(e, k)' = In(e, k)
    BY <1>2 DEF In
  <2>4. ref_count[e] \in Int /\ \A k \in Lists : In(e, k) \in {0, 1}
    BY DEF In, TypeInv
  <2> QED
    BY <2>1, <2>2, <2>3, <2>4 DEF Lists
<1> HIDE DEF References
<1> QED
  BY <1>2, <1>4, <1>5, <1>6, ListStep

LEMMA InitStepKeeps ==
  ASSUME References, Trying, InitStep
  PROVE  References'
<1>1. step <= Len(backend_init_fns[backend]) /\ UNCHANGED device
  BY DEF InitStep, Initializing
<1>2. TypeInv /\ DevicesOf("safe") \in SUBSET Devices
  BY ListsAreSets DEF References, Lists
<1>3. CASE TheStep.gets = "info"
  <2>1. list["safe"] = {} /\ DevicesOf("safe") = {}
    BY <1>1, <1>3, StepIsKnown, Unions DEF Trying, DevicesOf
  <2>2. list' = [list EXCEPT !["safe"] = {DevicesOf("safe") \cup {}}] /\ UNCHANGED ref_count
    BY <1>3, <2>1 DEF InitStep
  <2>3. ref_count' = [d \in Devices |-> IF d \in {} THEN 1 ELSE ref_count[d]]
    BY <1>2, <2>2 DEF TypeInv
  <2>4. {} \in SUBSET Devices /\ {} \cap DevicesOf("safe") = {} /\ \A d \in {} : IsFree(d)
    OBVIOUS
  <2> QED
    BY <1>1, <2>2, <2>3, <2>4, FirstList
<1>4. CASE TheStep.gets \in {"output_device", "input_device"}
  <2>1. PICK d \in Devices :
          /\ IsFree(d)
          /\ ref_count' = Referenced(d)
          /\ list' = [list EXCEPT !["safe"] = {DevicesOf("safe") \cup {d}}]
    BY <1>4 DEF InitStep
  <2>2. d \notin DevicesOf("safe")
    BY <2>1, FreeIsNowhere DEF References, Lists
  <2>3. ref_count' = [e \in Devices |-> IF e \in {d} THEN 1 ELSE ref_count[e]]
    <3>1. ref_count' = [ref_count EXCEPT ![d] = 1]
      BY <2>1 DEF Referenced, IsFree
    <3> QED
      BY <1>2, <3>1 DEF TypeInv
  <2>4. /\ {d} \in SUBSET Devices /\ {d} \cap DevicesOf("safe") = {}
        /\ \A e \in {d} : IsFree(e)
    BY <2>1, <2>2
  <2> QED
    BY <1>1, <2>1, <2>3, <2>4, FirstList
<1>5. CASE TheStep.gets = "devices"
  <2>1. list["safe"] = {} /\ DevicesOf("safe") = {}
    BY <1>1, <1>5, StepIsKnown, Unions DEF Trying, DevicesOf
  <2>2. PICK S \in SUBSET {d \in Devices : IsFree(d)} :
          /\ ref_count' = [d \in Devices |-> IF d \in S THEN 1 ELSE ref_count[d]]
          /\ list' = [list EXCEPT !["safe"] = {S}]
    BY <1>5 DEF InitStep
  <2>3. DevicesOf("safe") \cup S = S
    BY <2>1
  <2> QED
    BY <1>1, <2>1, <2>2, <2>3, FirstList
<1>6. CASE TheStep.gets \notin {"info", "output_device", "input_device", "devices"}
  BY <1>1, <1>6, NothingCounted DEF InitStep, references
<1> QED
  BY <1>3, <1>4, <1>5, <1>6

LEMMA DisconnectKeeps ==
  ASSUME References, UNCHANGED device, Disconnect
  PROVE  References'
<1> USE DEF References
<1>1. /\ ref_count' = [d \in Devices |-> ref_count[d]
                         - (IF d \in DevicesOf("ready") THEN 1 ELSE 0)
                         - (IF d \in DevicesOf("safe") THEN 1 ELSE 0)]
      /\ list' = [list EXCEPT !["ready"] = {}, !["safe"] = {}]
  BY DEF Disconnect
<1>2. /\ list' \in [Lists -> SUBSET SUBSET Devices]
      /\ DevicesOf("ready")' = {} /\ DevicesOf("safe")' = {}
      /\ \A k \in {"building", "old", "lost"} : DevicesOf(k)' = DevicesOf(k)
  BY <1>1, Unions DEF TypeInv, DevicesOf, Lists
<1>3. \A l \in Lists : list'[l] = {} \/ list'[l] = {DevicesOf(l)'}
  BY <1>1, <1>2 DEF TypeInv, Lists
<1>4. Unshared'
  BY <1>2 DEF Unshared, CountsAreUnshared
<1>5. ref_count' \in [Devices -> Int]
  BY <1>1 DEF TypeInv
<1>6. ASSUME NEW e \in Devices
      PROVE  ref_count'[e] = ref_count[e]
         + In(e, "building")' + In(e, "ready")' + In(e, "safe")' + In(e, "old")' + In(e, "lost")'
         - In(e, "building") - In(e, "ready") - In(e, "safe") - In(e, "old") - In(e, "lost")
  <2>1. ref_count'[e] = ref_count[e] - In(e, "ready") - In(e, "safe")
    BY <1>1 DEF In
  <2>2. In(e, "ready")' = 0 /\ In(e, "safe")' = 0
    BY <1>2 DEF In
  <2>3. \A k \in {"building", "old", "lost"} : In(e, k)' = In(e, k)
    BY <1>2 DEF In
  <2>4. ref_count[e] \in Int /\ \A k \in Lists : In(e, k) \in {0, 1}
    BY DEF In, TypeInv
  <2> QED
    BY <2>1, <2>2, <2>3, <2>4 DEF Lists
<1> HIDE DEF References
<1> QED
  BY <1>2, <1>3, <1>4, <1>5, <1>6, ListStep

LEMMA ConnectingKeeps ==
  ASSUME References, Connections, Connecting
  PROVE  References'
<1>1. CASE soundio_create
  BY <1>1, NothingCounted DEF soundio_create
<1>2. CASE soundio_connect
  BY <1>2, NothingCounted DEF soundio_connect, Try
<1>3. CASE soundio_connect_backend
  BY <1>3, NothingCounted DEF soundio_connect_backend, Try
<1>4. CASE InitStep
  BY <1>4, InitStepKeeps DEF Connections, InitStep, Initializing
<1>5. CASE InitFails
  BY <1>5, DisconnectKeeps DEF InitFails
<1>6. CASE InitEnds \/ InitAborts
  BY <1>6, NothingCounted DEF InitEnds, InitAborts
<1>7. CASE soundio_disconnect
  BY <1>7, DisconnectKeeps DEF soundio_disconnect
<1>8. CASE soundio_destroy
  BY <1>8, DisconnectKeeps DEF soundio_destroy
<1> QED
  BY <1>1, <1>2, <1>3, <1>4, <1>5, <1>6, <1>7, <1>8 DEF Connecting

LEMMA ReferencesStep ==
  ASSUME IInv, Next
  PROVE  References'
BY ConnectingKeeps, ScanKeeps, FlushKeeps, ClientKeeps DEF IInv, Next

-----------------------------------------------------------------------------
(* The flow of a connection *)

LEMMA OldStep ==
  ASSUME IInv, Next
  PROVE  OldInCallback'
<1> USE DEF IInv, References, OldInCallback
<1>1. ASSUME pc' = pc, list'["old"] = list["old"]
      PROVE  OldInCallback'
  BY <1>1
<1>2. CASE Connecting
  <2>1. pc # "callback" => list'["old"] = list["old"]
    BY <1>2 DEF Connecting, soundio_create, soundio_connect, soundio_connect_backend,
         Try, InitStep, InitFails, InitAborts, InitEnds, soundio_disconnect, soundio_destroy,
         Disconnect, TypeInv, Lists, references
  <2>2. pc # "callback"
    BY <1>2 DEF Connecting, soundio_create, soundio_connect, soundio_connect_backend,
         Try, InitStep, InitFails, InitAborts, InitEnds, Initializing, soundio_disconnect,
         soundio_destroy
  <2> QED
    BY <2>1, <2>2
<1>3. CASE Scan
  <2>1. list'["old"] = list["old"] /\ (pc' = "callback" \/ pc # "callback" \/ pc' = pc)
    BY <1>3 DEF Scan, ScanBegins, ScanAppends, ScanFails, ScanLoses, ScanPublishes, ScanReplaces,
         TypeInv, Lists
  <2> QED
    BY <2>1
<1>4. CASE Flush
  BY <1>4 DEF Flush, FlushBegins, FlushFetches, FlushEnds, TypeInv, Lists, references
<1>5. CASE Client
  <2>1. UNCHANGED <<pc, list>>
    BY <1>5 DEF Client, GetDevice, soundio_device_ref, soundio_device_unref, Hold,
         Release, StreamCreate, soundio_outstream_open, soundio_instream_open,
         StreamDestroy, references
  <2> QED
    BY <2>1
<1> QED
  BY <1>2, <1>3, <1>4, <1>5 DEF Next

LEMMA TryKeeps ==
  ASSUME Connections, NEW backends \in Seq(Names), backends # <<>>, Try(backends)
  PROVE  Connections'
<1>1. /\ current_backend = None /\ pc = "idle" /\ pc' = "init"
      /\ tries' = backends /\ step' = 1
      /\ UNCHANGED <<backend_data, leaked, methods, current_backend, list>>
  BY DEF Try, references
<1>2. Unconnected /\ Unconnected'
  BY <1>1 DEF Connections, Unconnected
<1>3. Len(backend_init_fns[backend])' \in Nat
  <2>1. backend' \in Names
    BY <1>1 DEF backend
  <2> QED
    BY <2>1, InitFns DEF Names
<1>4. Trying'
  BY <1>1, <1>2, <1>3 DEF Trying, Unconnected
<1> QED
  BY <1>1, <1>2, <1>4 DEF Connections

LEMMA InitStepConnects ==
  ASSUME References, Connections, InitStep
  PROVE  Connections'
<1>1. /\ pc = "init" /\ step <= Len(backend_init_fns[backend])
      /\ step' = step + 1 /\ backend_data' = backend_data \cup {TheStep.gets}
      /\ UNCHANGED <<pc, tries, leaked, methods, current_backend>>
  BY DEF InitStep, Initializing
<1>2. Trying /\ Unconnected /\ step \in Nat \ {0} /\ backend \in Names
  BY <1>1 DEF Connections, Trying, backend
<1>3. backend' = backend
  BY <1>1 DEF backend
<1>4. backend_data' \subseteq Acquired'
  <2>1. \A i \in 1..(step - 1) : i \in 1..(step' - 1)
    BY <1>1, <1>2
  <2>2. step \in 1..(step' - 1)
    BY <1>1, <1>2
  <2> QED
    BY <1>1, <1>2, <1>3, <2>1, <2>2 DEF Trying, Acquired, TheStep
<1>5. /\ list'["building"] = list["building"] /\ list'["ready"] = list["ready"]
      /\ list'["lost"] = list["lost"]
  BY DEF InitStep, References, TypeInv, Lists
<1>6. list'["safe"] # {} =>
        \/ backend = "jack" /\ step' = 7
        \/ backend = "dummy" /\ step' \in 4..6
  <2>1. CASE TheStep.gets \in {"info", "output_device", "input_device", "devices"}
    BY <1>1, <1>2, <2>1, StepIsKnown
  <2>2. CASE TheStep.gets \notin {"info", "output_device", "input_device", "devices"}
    <3>1. UNCHANGED list
      BY <2>2 DEF InitStep
    <3>2. backend = "jack" => step <= 6
      BY <1>1, InitFns
    <3>3. backend = "dummy" => step <= 5
      BY <1>1, InitFns
    <3> QED
      BY <1>1, <1>2, <3>1, <3>2, <3>3 DEF Trying
  <2> QED
    BY <2>1, <2>2
<1>7. step' \in 1..(Len(backend_init_fns[backend]) + 1)
  <2>1. Len(backend_init_fns[backend]) \in Nat
    BY <1>2, InitFns DEF Names
  <2> QED
    BY <1>1, <1>2, <2>1
<1>8. Trying'
  BY <1>1, <1>2, <1>3, <1>4, <1>6, <1>7 DEF Trying
<1>9. Unconnected'
  BY <1>1, <1>2, <1>5 DEF Unconnected
<1> QED
  BY <1>1, <1>5, <1>8, <1>9 DEF Connections

\* The steps before the pipe.
LEMMA BeforeThePipe ==
  ASSUME Trying, step <= Len(backend_init_fns[backend]), TheStep.undo = "nothing"
  PROVE  {<<backend, r>> : r \in backend_data} \subseteq Leakable
<1>1. backend = "alsa" /\ step = 5
  BY StepIsKnown
<1>2. \A i \in 1..4 : alsa_init[i].gets \in {"mutex", "cond", "notify_fd", "notify_wd"}
  BY DEF alsa_init, Step
<1>3. backend_init_fns[backend] = alsa_init
  BY <1>1, InitFns
<1>4. Acquired \subseteq {"mutex", "cond", "notify_fd", "notify_wd"}
  BY <1>1, <1>2, <1>3 DEF Acquired
<1> QED
  BY <1>1, <1>4 DEF Trying, Leakable

LEMMA InitFailsConnects ==
  ASSUME References, Connections, InitFails
  PROVE  Connections'
<1>1. pc = "init" /\ step <= Len(backend_init_fns[backend]) /\ step' = 1
  BY DEF InitFails, Initializing
<1>2. Trying /\ Unconnected
  BY <1>1 DEF Connections, Trying
<1>3. /\ list' = [list EXCEPT !["ready"] = {}, !["safe"] = {}]
      /\ backend_data' = {} /\ methods' = FALSE /\ current_backend' = None
  BY DEF InitFails, Disconnect
<1>4. Unconnected' /\ list'["safe"] = {}
  BY <1>2, <1>3 DEF Unconnected, References, TypeInv, Lists
<1>5. leaked' \subseteq Leakable
  BY <1>1, <1>2, BeforeThePipe DEF InitFails, Connections
<1>6. pc' = "init" => Trying'
  <2>1. SUFFICES ASSUME pc' = "init" PROVE Trying'
    OBVIOUS
  <2>2. tries' = Tail(tries) /\ Len(tries) # 1
    BY <2>1 DEF InitFails, GivesUp
  <2>3. tries' \in Seq(Names) /\ tries' # <<>>
    BY <1>2, <2>2, HeadTail DEF Trying
  <2>4. Len(backend_init_fns[backend])' \in Nat
    <3>1. backend' \in Names
      BY <2>3, HeadTail DEF backend
    <3> QED
      BY <3>1, InitFns DEF Names
  <2>5. /\ current_backend' = None /\ step' = 1 /\ backend_data' = {}
        /\ list'["safe"] = {}
    BY <1>1, <1>3, <1>4
  <2>6. step' \in 1..(Len(backend_init_fns[backend])' + 1)
    BY <2>4, <2>5
  <2> QED
    BY <2>3, <2>5, <2>6 DEF Trying
<1>7. list'["lost"] # {} => <<"alsa", "devices_info">> \in leaked'
  <2>1. list'["lost"] = list["lost"] /\ leaked \subseteq leaked'
    BY <1>3 DEF InitFails, References, TypeInv, Lists
  <2> QED
    BY <2>1 DEF Connections
<1> QED
  BY <1>4, <1>5, <1>6, <1>7 DEF Connections

LEMMA DisconnectConnects ==
  ASSUME References, Connections, list["building"] = {}, Disconnect,
         pc' # "init", UNCHANGED leaked
  PROVE  Connections'
BY DEF Connections, Unconnected, Disconnect, References, TypeInv, Lists

LEMMA ConnectionsStep ==
  ASSUME IInv, Next
  PROVE  Connections'
<1> USE DEF IInv, References
<1>1. CASE soundio_create
  BY <1>1 DEF soundio_create, Connections, Unconnected, connection, references
<1>2. CASE soundio_connect
  BY <1>2, TryKeeps, SoundIoAssumption DEF soundio_connect, Names
<1>3. CASE soundio_connect_backend
  <2>1. PICK i \in 1..Len(available_backends) : Try(<<available_backends[i]>>)
    BY <1>3 DEF soundio_connect_backend
  <2>2. <<available_backends[i]>> \in Seq(Names) /\ <<available_backends[i]>> # <<>>
    BY SoundIoAssumption DEF Names
  <2> QED
    BY <2>1, <2>2, TryKeeps
<1>4. CASE InitStep
  BY <1>4, InitStepConnects
<1>5. CASE InitFails
  BY <1>5, InitFailsConnects
<1>12. CASE InitAborts
  BY <1>12 DEF InitAborts, Connections, Unconnected, connection, references
<1>6. CASE InitEnds
  <2>1. /\ pc' = "idle" /\ current_backend' = backend /\ UNCHANGED leaked
        /\ pc = "init"
    BY <1>6 DEF InitEnds
  <2>2. backend \in Names
    BY <2>1 DEF Connections, Trying, backend
  <2>3. current_backend' # None /\ UNCHANGED list
    BY <1>6, <2>1, <2>2 DEF InitEnds, Names, None, references
  <2> QED
    BY <2>1, <2>3 DEF Connections
<1>7. CASE soundio_disconnect
  BY <1>7, DisconnectConnects DEF soundio_disconnect
<1>8. CASE soundio_destroy
  BY <1>8, DisconnectConnects DEF soundio_destroy
<1>9. CASE Scan
  <2>1. UNCHANGED current_backend /\ current_backend # None
    <3>1. list["building"] # {} => current_backend # None
      BY DEF Connections, Unconnected
    <3> QED
      BY <1>9, <3>1 DEF Scan, ScanBegins, ScanAppends, ScanFails, ScanLoses, ScanPublishes,
           ScanReplaces, None, connection
  <2>2. pc # "init"
    BY <2>1 DEF Connections, Trying
  <2>3. pc' # "init"
    BY <1>9, <2>2 DEF Scan, ScanBegins, ScanAppends, ScanFails, ScanLoses,
         ScanPublishes, ScanReplaces
  <2>4. CASE ScanLoses
    <3>1. leaked' = leaked \cup {<<"alsa", "devices_info">>}
      BY <2>4 DEF ScanLoses
    <3>2. leaked' \subseteq Leakable
      BY <3>1 DEF Connections, Leakable
    <3> QED
      BY <2>1, <2>3, <3>1, <3>2 DEF Connections
  <2>5. CASE ~ScanLoses
    <3>1. UNCHANGED leaked /\ list'["lost"] = list["lost"]
      BY <1>9, <2>5 DEF Scan, ScanBegins, ScanAppends, ScanFails, ScanPublishes,
           ScanReplaces, connection, TypeInv, Lists
    <3> QED
      BY <2>1, <2>3, <3>1 DEF Connections
  <2> QED
    BY <2>4, <2>5
<1>10. CASE Flush
  <2>1. /\ UNCHANGED connection /\ pc' \notin {"init", "aborted"}
        /\ pc \notin {"init", "aborted"}
    BY <1>10 DEF Flush, FlushBegins, FlushFetches, FlushEnds
  <2>5. list'["lost"] = list["lost"]
    BY <1>10 DEF Flush, FlushBegins, FlushFetches, FlushEnds, TypeInv, Lists, references
  <2>2. list["ready"] = {} => \A l \in Lists \ {"old"} : list'[l] = list[l]
    BY <1>10 DEF Flush, FlushBegins, FlushFetches, FlushEnds, TypeInv, Lists, references
  <2>3. UNCHANGED <<leaked, methods, backend_data, current_backend>>
    BY <2>1 DEF connection
  <2>4. Unconnected => Unconnected'
    BY <2>1, <2>2, <2>3 DEF Unconnected, Lists
  <2> QED
    BY <2>1, <2>3, <2>4, <2>5 DEF Connections
<1>11. CASE Client
  <2>1. UNCHANGED <<pc, connection, list>>
    BY <1>11 DEF Client, GetDevice, soundio_device_ref, soundio_device_unref, Hold,
         Release, StreamCreate, soundio_outstream_open, soundio_instream_open,
         StreamDestroy, references
  <2>2. UNCHANGED <<tries, step, backend_data, leaked, methods, current_backend>>
    BY <2>1 DEF connection
  <2>3. Trying => Trying'
    BY <2>1, <2>2 DEF Trying, Acquired, backend
  <2>4. Unconnected => Unconnected'
    BY <2>1, <2>2 DEF Unconnected
  <2> QED
    BY <2>1, <2>2, <2>3, <2>4 DEF Connections
<1> QED
  BY <1>1, <1>2, <1>3, <1>4, <1>5, <1>6, <1>7, <1>8, <1>9, <1>10, <1>11, <1>12
     DEF Next, Connecting

-----------------------------------------------------------------------------
(* Theorems *)

LEMMA Initially ==
  ASSUME Init
  PROVE  IInv
<1>1. TypeInv
  BY DEF Init, TypeInv, Lists
<1>2. \A l \in Lists : DevicesOf(l) = {} /\ \A d : In(d, l) = 0
  BY Unions DEF Init, DevicesOf, In
<1>3. ASSUME NEW d \in Devices
      PROVE  ref_count[d] = Cardinality(Pointing(d)) + In(d, "building")
               + In(d, "ready") + In(d, "safe") + In(d, "old") + In(d, "lost")
  <2>1. Pointing(d) = {}
    BY SoundIoAssumption DEF Init, Pointing
  <2> QED
    BY <1>2, <2>1, FS_EmptySet DEF Init, Lists
<1>4. Counted
  BY <1>3 DEF Counted
<1>5. Unshared
  BY <1>2 DEF Unshared, CountsAreUnshared, Lists
<1>6. OldInCallback
  BY DEF Init, OldInCallback, Lists
<1>7. Connections
  BY DEF Init, Connections, Unconnected, Lists, None
<1> QED
  BY <1>1, <1>4, <1>5, <1>6, <1>7 DEF IInv, References

LEMMA Inductive ==
  ASSUME IInv, [Next]_vars
  PROVE  IInv'
<1>1. CASE Next
  BY <1>1, ReferencesStep, OldStep, ConnectionsStep DEF IInv
<1>2. CASE UNCHANGED vars
  <2>1. UNCHANGED <<pc, tries, step, backend_data, leaked, methods, current_backend,
                    list, references>>
    BY <1>2 DEF vars, connection, references
  <2>2. References'
    BY <2>1, NothingCounted DEF IInv
  <2>3. OldInCallback' /\ (Trying => Trying') /\ (Unconnected => Unconnected')
    BY <2>1 DEF IInv, OldInCallback, Trying, Acquired, Unconnected, backend
  <2>4. Connections'
    BY <2>1, <2>3 DEF IInv, Connections
  <2> QED
    BY <2>2, <2>3, <2>4 DEF IInv
<1> QED
  BY <1>1, <1>2

LEMMA IInvHolds == Spec => []IInv
BY Initially, Inductive, PTL DEF Spec

(***************************************************************************)
(* soundio_device_ref and soundio_device_unref are balanced along every    *)
(* path of scans, flushes, failures of the init functions, disconnections  *)
(* and calls of the client, for any number of devices, handles and         *)
(* streams: ref_count is the number of those that point to the device, no  *)
(* device is freed that somebody points to, and none stays that nobody     *)
(* does, but for the devices of lists that ALSA's scans lose.              *)
(***************************************************************************)
THEOREM DevicesAreCounted == Spec => []RefsAreHeld
<1>1. IInv => RefsAreHeld
  BY HoldersAreCounted DEF IInv, References, TypeInv, Counted, RefsAreHeld
<1> QED
  BY <1>1, IInvHolds, PTL

(***************************************************************************)
(* The plain int ref_count needs no lock: ALSA's thread counts no device   *)
(* that the thread of the client counts, whatever the backends and however *)
(* many devices there are.                                                 *)
(***************************************************************************)
THEOREM CountsNeedNoLock == Spec => []CountsAreUnshared
<1>1. IInv => CountsAreUnshared
  BY DEF IInv, References, Unshared
<1> QED
  BY <1>1, IInvHolds, PTL

(***************************************************************************)
(* After a failure of any step of any init function, in any order of       *)
(* backends, and after soundio_disconnect and soundio_destroy, no list and *)
(* no pointer to a function is left: in memory remain only what alsa_init  *)
(* had before the pipe, and the lists that ALSA's scans lost.  Of the      *)
(* first three steps of pulseaudio_init it says nothing: their failure     *)
(* does not return.                                                        *)
(***************************************************************************)
THEOREM ConnectionsEndCleanly == Spec => []NothingLeftBehind
<1>1. IInv => NothingLeftBehind
  BY DEF IInv, OldInCallback, Connections, Unconnected, NothingLeftBehind, Leakable, Lists
<1> QED
  BY <1>1, IInvHolds, PTL

-----------------------------------------------------------------------------
(* The rate that is chosen *)

HasRates(d) ==
  /\ d.sample_rates \in Seq(Nat \X Nat) /\ d.sample_rates # <<>>
  /\ \A range \in Range(d.sample_rates) : range[1] <= range[2]

Candidate(d, rate, i) ==
  soundio_int_clamp(d.sample_rates[i][1], rate, d.sample_rates[i][2])

\* best is what IsNearestAbove says, of the first n ranges.
NearestOf(d, rate, n, best) ==
  /\ \E i \in 1..n : best = Candidate(d, rate, i)
  /\ \A i \in 1..n :
       IF Candidate(d, rate, i) >= rate
       THEN best >= rate /\ best <= Candidate(d, rate, i)
       ELSE best >= rate \/ best >= Candidate(d, rate, i)

LEMMA ClampIsNearest ==
  ASSUME NEW d, HasRates(d), NEW rate \in Nat, NEW i \in 1..Len(d.sample_rates)
  PROVE  /\ Candidate(d, rate, i) \in d.sample_rates[i][1]..d.sample_rates[i][2]
         /\ Candidate(d, rate, i) \in Nat
         /\ IF d.sample_rates[i][2] >= rate THEN Candidate(d, rate, i) >= rate
            ELSE Candidate(d, rate, i) = d.sample_rates[i][2]
<1> DEFINE rates == d.sample_rates
           low == rates[i][1]
           high == rates[i][2]
<1>1. low \in Nat /\ high \in Nat /\ low <= high
  <2>1. rates \in Seq(Nat \X Nat) /\ i \in DOMAIN rates
    BY DEF HasRates
  <2> HIDE DEF rates
  <2>2. rates[i] \in Nat \X Nat
    BY <2>1
  <2>3. rates[i] \in Range(rates)
    BY <2>1 DEF Range
  <2> QED
    BY <2>2, <2>3 DEF HasRates, rates
<1>2. Candidate(d, rate, i) = soundio_int_clamp(low, rate, high)
  BY DEF Candidate
<1> HIDE DEF low, high
<1>3. /\ soundio_int_clamp(low, rate, high) \in low..high
      /\ IF high >= rate THEN soundio_int_clamp(low, rate, high) >= rate
         ELSE soundio_int_clamp(low, rate, high) = high
  BY <1>1 DEF soundio_int_clamp
<1> QED
  BY <1>1, <1>2, <1>3 DEF low, high

\* One round of the loop.
LEMMA BetterIsNearest ==
  ASSUME NEW d, HasRates(d), NEW rate \in Nat, NEW n \in 1..Len(d.sample_rates),
         NEW best \in Nat \cup {-1},
         (n = 1 /\ best = -1) \/ NearestOf(d, rate, n - 1, best)
  PROVE  LET candidate == Candidate(d, rate, n)
         IN  NearestOf(d, rate, n, IF IsBetter(rate, best, candidate) THEN candidate
                                   ELSE best)
<1> DEFINE candidate == Candidate(d, rate, n)
           new == IF IsBetter(rate, best, candidate) THEN candidate ELSE best
<1>1. \A i \in 1..n : Candidate(d, rate, i) \in Nat
  <2>1. \A i \in 1..n : i \in 1..Len(d.sample_rates)
    BY DEF HasRates
  <2> QED
    BY <2>1, ClampIsNearest
<1>2. candidate \in Nat
  BY <1>1
<1>3. CASE n = 1 /\ best = -1
  BY <1>2, <1>3 DEF NearestOf, IsBetter
<1>4. CASE NearestOf(d, rate, n - 1, best)
  <2>1. best \in Nat
    BY <1>1, <1>4 DEF NearestOf
  <2> HIDE DEF candidate
  <2>2. new \in {candidate, best}
    OBVIOUS
  <2>3. \E i \in 1..n : new = Candidate(d, rate, i)
    BY <1>4, <2>2 DEF NearestOf, candidate
  <2>4. IF candidate >= rate THEN new >= rate /\ new <= candidate
        ELSE new >= rate \/ new >= candidate
    BY <1>2, <2>1 DEF IsBetter, abs_diff_int
  <2>5. /\ best >= rate => new >= rate /\ new <= best
        /\ best < rate => new >= rate \/ new >= best
    BY <1>2, <2>1 DEF IsBetter, abs_diff_int
  <2>6. new \in Nat
    BY <1>2, <2>1
  <2> HIDE DEF new
  <2>7. ASSUME NEW i \in 1..(n - 1)
        PROVE  IF Candidate(d, rate, i) >= rate
               THEN new >= rate /\ new <= Candidate(d, rate, i)
               ELSE new >= rate \/ new >= Candidate(d, rate, i)
    <3>1. Candidate(d, rate, i) \in Nat
      BY <1>1
    <3> QED
      BY <1>4, <2>1, <2>5, <2>6, <3>1 DEF NearestOf
  <2>8. NearestOf(d, rate, n, new)
    BY <2>3, <2>4, <2>7 DEF NearestOf, candidate
  <2> QED
    BY <2>8 DEF new, candidate
<1> QED
  BY <1>3, <1>4

LEMMA RateIsNearest ==
  ASSUME NEW d, HasRates(d), NEW rate \in Nat
  PROVE  IsNearestAbove(d, rate, soundio_device_nearest_sample_rate(d, rate))
<1> DEFINE n == Len(d.sample_rates)
           Chosen(i, best) ==
             IF IsBetter(rate, best, Candidate(d, rate, i)) THEN Candidate(d, rate, i)
             ELSE best
           Loop(f) == [i \in 0..n |-> IF i = 0 THEN -1 ELSE Chosen(i, f[i - 1])]
           f == CHOOSE f : f = Loop(f)
           result == soundio_device_nearest_sample_rate(d, rate)
           Rates == Nat \cup {-1}
<1>1. n \in Nat /\ n >= 1 /\ DOMAIN d.sample_rates = 1..n
  BY DEF HasRates
<1>2. \A i \in 1..n : Candidate(d, rate, i) \in Nat
  BY ClampIsNearest
<1>3. PICK g \in [0..n -> Rates] : g[0] = -1 /\ \A i \in 1..n : g[i] = Chosen(i, g[i - 1])
  <2> DEFINE next == [i \in 1..n |-> [best \in Rates |-> Chosen(i, best)]]
             base == -1
  <2>1. next \in [1..n -> [Rates -> Rates]]
    <3> HIDE DEF n
    <3> QED
      BY <1>2
  <2>2. base \in Rates /\ n \in Nat
    BY <1>1
  <2> HIDE DEF next, base, n, Rates
  <2>3. \E g \in [0..n -> Rates] : Computes(g, n, base, next)
    BY ONLY <2>1, <2>2, Recursion
  <2>4. PICK g \in [0..n -> Rates] :
          g[0] = -1 /\ \A i \in 1..n : g[i] = next[i][g[i - 1]]
    BY <2>3 DEF base, Computes
  <2>5. \A i \in 1..n : g[i - 1] \in Rates
    BY <1>1
  <2> QED
    BY <2>4, <2>5 DEF next
<1>4. g = Loop(g)
  <2> HIDE DEF n, Chosen
  <2> QED
    BY <1>1, <1>3
<1>5. f = Loop(f)
  <2> HIDE DEF Loop
  <2> QED
    BY <1>4
<1>6. result = f[n]
  BY DEF soundio_device_nearest_sample_rate, Candidate
<1> HIDE DEF f, result
<1> DEFINE T == {i \in Nat : i \in 1..n => f[i] \in Rates /\ NearestOf(d, rate, i, f[i])}
<1>7. ASSUME NEW i \in Nat, i \in T PROVE i + 1 \in T
  <2> SUFFICES ASSUME i + 1 \in 1..n
               PROVE  f[i + 1] \in Rates /\ NearestOf(d, rate, i + 1, f[i + 1])
    OBVIOUS
  <2>1. f[i + 1] = Chosen(i + 1, f[i]) /\ f[0] = -1
    BY <1>1, <1>5
  <2>2. f[i] \in Rates /\ (i = 0 \/ NearestOf(d, rate, i, f[i]))
    BY <1>1, <1>7, <2>1
  <2>3. Candidate(d, rate, i + 1) \in Nat
    BY <1>2
  <2>4. NearestOf(d, rate, i + 1, Chosen(i + 1, f[i]))
    <3>1. i + 1 - 1 = i
      OBVIOUS
    <3>2. (i + 1 = 1 /\ f[i] = -1) \/ NearestOf(d, rate, i + 1 - 1, f[i])
      BY <2>1, <2>2, <3>1
    <3> QED
      BY <2>2, <3>2, BetterIsNearest
  <2> QED
    BY <2>1, <2>2, <2>3, <2>4
<1>8. n \in T
  <2>1. 0 \in T
    OBVIOUS
  <2> HIDE DEF T
  <2> QED
    BY <1>1, <1>7, <2>1, SetInduction
<1>9. NearestOf(d, rate, n, result) /\ result \in Nat
  BY <1>1, <1>2, <1>6, <1>8 DEF NearestOf
<1> QED
  <2> HIDE DEF n
  <2>1. soundio_device_supports_sample_rate(d, result)
    <3>1. PICK i \in 1..n : result = Candidate(d, rate, i)
      BY <1>9 DEF NearestOf
    <3>2. result \in d.sample_rates[i][1]..d.sample_rates[i][2] /\ i \in DOMAIN d.sample_rates
      BY <1>1, <3>1, ClampIsNearest DEF n
    <3> QED
      BY <3>2 DEF soundio_device_supports_sample_rate
  <2>2. \A r \in Range(d.sample_rates) : \E i \in 1..n : r = d.sample_rates[i]
    BY <1>1 DEF Range
  <2>3. ASSUME NEW i \in 1..n, d.sample_rates[i][2] >= rate
        PROVE  result >= rate /\ result <= Candidate(d, rate, i)
    BY <1>9, <2>3, ClampIsNearest DEF NearestOf, n
  <2>4. ASSUME NEW i \in 1..n, ~(d.sample_rates[i][2] >= rate)
        PROVE  result >= rate \/ d.sample_rates[i][2] <= result
    BY <1>9, <2>4, ClampIsNearest DEF NearestOf, n
  <2> DEFINE rates == Range(d.sample_rates)
             above == {r \in rates : r[2] >= rate}
  <2>5. ASSUME NEW r \in above
        PROVE  result >= rate /\ result <= soundio_int_clamp(r[1], rate, r[2])
    BY <2>2, <2>3 DEF Candidate
  <2>6. ASSUME above = {}, NEW r \in rates
        PROVE  r[2] <= result
    <3>1. PICK i \in 1..n : r = d.sample_rates[i]
      BY <2>2
    <3>2. \A j \in 1..n : ~(d.sample_rates[j][2] >= rate)
      BY <1>1, <2>6 DEF Range
    <3>3. PICK j \in 1..n : result = Candidate(d, rate, j)
      BY <1>9 DEF NearestOf
    <3>4. result = d.sample_rates[j][2]
      BY <3>2, <3>3, ClampIsNearest DEF n
    <3> QED
      BY <1>1, <2>4, <3>1, <3>2, <3>4
  <2>7. ASSUME above # {}
        PROVE  result >= rate /\ \A r \in above : result <= soundio_int_clamp(r[1], rate, r[2])
    BY <2>5, <2>7
  <2> QED
    BY <2>1, <2>6, <2>7 DEF IsNearestAbove, result

-----------------------------------------------------------------------------
(* What streams open with *)

LEMMA DefaultsAreOfDevice ==
  ASSUME NEW d, NEW asked \in Asked,
         d.formats \in Seq(STRING), d.formats # <<>>,
         d.layouts \in Seq(Seq(STRING)), d.layouts # <<>>, HasRates(d)
  PROVE  AsPromised(d, Resolved(d, asked))
<1> DEFINE given == Resolved(d, asked)
<1>1. \A e : Contains(d.formats, e) <=> e \in Range(d.formats)
  BY DEF Contains, Range
<1>2. \A e : Contains(d.layouts, e) <=> e \in Range(d.layouts)
  BY DEF Contains, Range
<1>3. Head(d.formats) \in Range(d.formats) /\ Head(d.layouts) \in Range(d.layouts)
  BY DEF Range
<1>4. \/ given.format = asked.format /\ asked.format # "Invalid"
      \/ given.format = DefaultFormat(d)
  BY DEF Resolved
<1>5. \/ given.layout = asked.layout /\ asked.layout # <<>>
      \/ given.layout = DefaultLayout(d)
  BY DEF Resolved
<1>6. \/ given.sample_rate = asked.sample_rate /\ asked.sample_rate # 0
      \/ given.sample_rate = soundio_device_nearest_sample_rate(d, 48000)
  BY DEF Resolved
<1> HIDE DEF given
<1>7. \/ given.format \in {a.format : a \in Asked} \ {"Invalid"}
      \/ /\ given.format \in Range(d.formats)
         /\ "Float32NE" \in Range(d.formats) => given.format = "Float32NE"
  BY <1>1, <1>3, <1>4 DEF DefaultFormat, soundio_device_supports_format
<1>8. \/ given.layout \in {a.layout : a \in Asked} \ {<<>>}
      \/ /\ given.layout \in Range(d.layouts)
         /\ Builtin("Stereo") \in Range(d.layouts) => given.layout = Builtin("Stereo")
  BY <1>2, <1>3, <1>5 DEF DefaultLayout, soundio_device_supports_layout
<1>9. \/ given.sample_rate \in {a.sample_rate : a \in Asked} \ {0}
      \/ IsNearestAbove(d, 48000, given.sample_rate)
  BY <1>6, RateIsNearest
<1> QED
  BY <1>7, <1>8, <1>9 DEF AsPromised, given

\* A stream has a device from its creation until it is destroyed.
Opening ==
  /\ stream \in [Streams -> {"none", "created", "failed", "opened"}]
  /\ settings = [s \in Streams |-> settings[s]]
  /\ \A s \in Streams : stream[s] # "none" => device[s] \in Devices
  /\ OpensAsPromised

LEMMA OtherStreams ==
  ASSUME Opening, UNCHANGED streams, \A s \in Streams : device'[s] = device[s]
  PROVE  Opening'
BY DEF Opening, OpensAsPromised, AsPromised, streams

\* A stream that is not opened promises nothing.
LEMMA NotOpened ==
  ASSUME Opening, NEW s \in Streams, NEW now \in {"none", "created", "failed"},
         stream' = [stream EXCEPT ![s] = now],
         settings' = settings \/ settings' = [settings EXCEPT ![s] = Unset],
         now # "none" => device'[s] \in Devices,
         \A r \in Streams \ {s} : device'[r] = device[r]
  PROVE  Opening'
<1>1. /\ stream' \in [Streams -> {"none", "created", "failed", "opened"}]
      /\ settings' = [r \in Streams |-> settings'[r]]
      /\ stream'[s] = now
      /\ \A r \in Streams \ {s} : stream'[r] = stream[r] /\ settings'[r] = settings[r]
  BY DEF Opening
<1>2. \A r \in Streams : stream'[r] # "none" => device'[r] \in Devices
  BY <1>1 DEF Opening
<1>3. OpensAsPromised'
  BY <1>1 DEF Opening, OpensAsPromised, AsPromised
<1> QED
  BY <1>1, <1>2, <1>3 DEF Opening

LEMMA OpenKeeps ==
  ASSUME Opening, NEW s \in Streams, NEW aim, NEW asked \in Asked,
         stream[s] = "created", UNCHANGED device,
         CanOpen(capability[device[s]], aim, asked),
         aim = IF s \in OutStreams THEN "output" ELSE "input",
         Opened(s),
         settings' = [settings EXCEPT ![s] = Resolved(capability[device[s]], asked)]
  PROVE  Opening'
<1> DEFINE d == capability[device[s]]
<1>1. device[s] \in Devices /\ ~d.probe_error /\ d.aim = aim
  BY DEF Opening, CanOpen
<1>2. AsPromised(d, Resolved(d, asked))
  BY <1>1, DevicesAssumption, DefaultsAreOfDevice DEF HasRates
<1>3. /\ stream' \in [Streams -> {"none", "created", "failed", "opened"}]
      /\ settings' = [r \in Streams |-> settings'[r]]
      /\ settings'[s] = Resolved(d, asked)
      /\ \A r \in Streams \ {s} : stream'[r] = stream[r] /\ settings'[r] = settings[r]
  BY DEF Opening, Opened
<1>4. \A r \in Streams : stream'[r] # "none" => device'[r] \in Devices
  BY <1>1, <1>3 DEF Opening
<1>5. ASSUME NEW r \in Streams, stream'[r] = "opened"
      PROVE  /\ capability[device'[r]].aim = IF r \in OutStreams THEN "output" ELSE "input"
             /\ AsPromised(capability[device'[r]], settings'[r])
  <2>1. CASE r = s
    BY <1>1, <1>2, <1>3, <2>1
  <2>2. CASE r # s
    BY <1>3, <1>5, <2>2 DEF Opening, OpensAsPromised
  <2> QED
    BY <2>1, <2>2
<1>6. OpensAsPromised'
  BY <1>5 DEF OpensAsPromised, AsPromised
<1> QED
  BY <1>3, <1>4, <1>6 DEF Opening

LEMMA OpeningStep ==
  ASSUME TypeInv, Opening, [Next]_vars
  PROVE  Opening'
<1>1. /\ device \in [Holders -> Devices \cup {NoDevice}]
      /\ Handles \cap Streams = {} /\ OutStreams \cap InStreams = {}
      /\ Streams = OutStreams \cup InStreams
      /\ Holders = Handles \cup Streams
  BY SoundIoAssumption DEF TypeInv, Holders, Streams
<1>2. CASE UNCHANGED vars
  BY <1>2, OtherStreams DEF vars, references, streams
<1>3. CASE Connecting \/ Scan \/ Flush
  <2>1. UNCHANGED <<device, streams>>
    BY <1>3 DEF Connecting, soundio_create, soundio_connect, soundio_connect_backend, Try,
                InitStep, InitFails, InitAborts, InitEnds, soundio_disconnect, soundio_destroy,
                Scan, ScanBegins, ScanAppends, ScanFails, ScanLoses, ScanPublishes, ScanReplaces,
                Flush, FlushBegins, FlushFetches, FlushEnds, references
  <2> QED
    BY <2>1, OtherStreams
<1>4. ASSUME NEW h \in Handles, UNCHANGED streams,
             (\E d \in Devices : Hold(h, d)) \/ Release(h)
      PROVE  Opening'
  <2>1. \A s \in Streams : device'[s] = device[s]
    BY <1>1, <1>4 DEF Hold, Release
  <2> QED
    BY <1>4, <2>1, OtherStreams
<1>5. CASE GetDevice \/ soundio_device_ref \/ soundio_device_unref
  <2>1. DevicesOf("safe") \subseteq Devices
    BY DEF TypeInv, DevicesOf, Lists
  <2>2. \A h \in Handles : device[h] # NoDevice => device[h] \in Devices
    BY <1>1
  <2> QED
    BY <1>4, <1>5, <2>1, <2>2 DEF GetDevice, soundio_device_ref, soundio_device_unref
<1>6. CASE StreamCreate
  <2>1. PICK s \in Streams, h \in Handles :
          /\ device[h] # NoDevice /\ Hold(s, device[h])
          /\ stream' = [stream EXCEPT ![s] = "created"]
    BY <1>6 DEF StreamCreate
  <2>2. device'[s] \in Devices /\ \A r \in Streams \ {s} : device'[r] = device[r]
    BY <1>1, <2>1 DEF Hold
  <2> QED
    BY <1>6, <2>1, <2>2, NotOpened DEF StreamCreate
<1>7. CASE soundio_outstream_open
  <2>1. PICK s \in OutStreams, asked \in Asked :
          /\ stream[s] = "created"
          /\ LET d == capability[device[s]]
             IN  IF CanOpen(d, "output", asked)
                 THEN Opened(s) /\ settings' = [settings EXCEPT ![s] = Resolved(d, asked)]
                 ELSE stream' = [stream EXCEPT ![s] = "failed"] /\ UNCHANGED settings
    BY <1>7 DEF soundio_outstream_open
  <2>2. s \in Streams /\ UNCHANGED device /\ device[s] \in Devices
    BY <1>1, <1>7, <2>1 DEF soundio_outstream_open, references, Opening
  <2> QED
    BY <2>1, <2>2, OpenKeeps, NotOpened
<1>8. CASE soundio_instream_open
  <2>1. PICK s \in InStreams, asked \in Asked :
          /\ stream[s] = "created"
          /\ LET d == capability[device[s]]
             IN  IF CanOpen(d, "input", asked) /\ asked.format # "Invalid"
                 THEN Opened(s) /\ settings' = [settings EXCEPT ![s] = Resolved(d, asked)]
                 ELSE stream' = [stream EXCEPT ![s] = "failed"] /\ UNCHANGED settings
    BY <1>8 DEF soundio_instream_open
  <2>2. s \in Streams /\ s \notin OutStreams /\ UNCHANGED device /\ device[s] \in Devices
    BY <1>1, <1>8, <2>1 DEF soundio_instream_open, references, Opening
  <2> QED
    BY <2>1, <2>2, OpenKeeps, NotOpened
<1>9. CASE StreamDestroy
  <2>1. PICK s \in Streams :
          /\ Release(s)
          /\ stream' = [stream EXCEPT ![s] = "none"]
          /\ settings' = [settings EXCEPT ![s] = Unset]
    BY <1>9 DEF StreamDestroy
  <2>2. \A r \in Streams \ {s} : device'[r] = device[r]
    BY <1>1, <2>1 DEF Release
  <2> QED
    BY <2>1, <2>2, NotOpened
<1> QED
  BY <1>2, <1>3, <1>5, <1>6, <1>7, <1>8, <1>9 DEF Next, Client

(***************************************************************************)
(* Every stream that opens, of any device and whatever the client has set, *)
(* has what soundio.h says: for all lists of formats, layouts and ranges   *)
(* of rates, of any length.                                                *)
(***************************************************************************)
THEOREM StreamsOpenAsPromised == Spec => []OpensAsPromised
<1>1. Init => Opening
  BY DEF Init, Opening, OpensAsPromised
<1>2. TypeInv /\ Opening /\ [Next]_vars => Opening'
  BY OpeningStep
<1>3. IInv => TypeInv
  BY DEF IInv, References
<1>4. Opening => OpensAsPromised
  BY DEF Opening
<1> QED
  BY <1>1, <1>2, <1>3, <1>4, IInvHolds, PTL DEF Spec
=============================================================================
