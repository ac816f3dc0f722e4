------------------------- MODULE DeviceWatchProofs -------------------------
(***************************************************************************)
(* The test program for any devices, handle values and heap blocks, with   *)
(* devices that are opened once at a time: it owns the handles it will     *)
(* close, loses none to a device, and finds the right entry by the value   *)
(* of a handle that it has closed and that may have been given out again.  *)
(***************************************************************************)
EXTENDS DeviceWatch, SequenceTheorems, TLAPS

USE WatchAssumption, NullAssumption

\* A registration belongs to the entry it was made by, and has its handle value.
NoteInv ==
    /\ \A r \in registered :
          /\ r.by \in Listed /\ info[r.by].hHandleNotification = r
          /\ info[r.by].hDevice = r.handle /\ info[r.by].DevicePath = r.device
    /\ \A e \in Listed :
          /\ info[e].DevicePath \in Devices
          /\ info[e].hHandleNotification # Null =>
                /\ info[e].hHandleNotification \in registered
                /\ info[e].hHandleNotification.by = e

\* Plug and play deals with one registration, and who was queried is told the
\* outcome before it goes on.
RemovalInv ==
    /\ removal.todo \cup removal.queried \subseteq OfDevice(removal.device)
    /\ \A r, s \in removal.todo \cup removal.queried : r = s
    /\ removal.phase = "query" => removal.todo \cap removal.queried = {}
    /\ removal.phase \in {"failed", "pending"} => removal.todo = removal.queried
    /\ removal.phase \in {"none", "complete"} => removal.queried = {}
    /\ removal.phase = "none" => removal.todo = {}

\* A device has one handle, and handles of the control device belong to one entry.
OpenInv ==
    /\ \A g, h \in Handles : opens[g] \in Devices /\ opens[g] = opens[h] => g = h
    /\ ControlHandlesOwned

\* Element a comes before b in the list L.
Before(L, a, b) == \E i, j \in DOMAIN L : i < j /\ L[i] = a /\ L[j] = b

\* Of two entries with the same value in hDevice the first one waits.
OrderInv ==
    \A e, f \in Listed :
        /\ Before(ListHead, e, f)
        /\ info[e].hDevice \in Handles /\ info[e].hDevice = info[f].hDevice
        => e \in Waiting

\* The conjuncts of the type invariant that a handler can disturb.
CoreType ==
    /\ ListHead \in Seq(Entries) /\ IsInjective(ListHead)
    /\ info \in [Entries -> DEVICE_INFO]
    /\ \A e \in Entries \ Listed : info[e] = Zeroed
    /\ opens \in [Handles -> Devices \cup {Control, Null}]
    /\ registered \subseteq Registration
    /\ removal \in [phase : Phase, device : Devices \cup {Null},
                    todo : SUBSET Registration, queried : SUBSET Registration]

\* The rest, and the ioctl command is the only one to go on with places of the list.
AppInv ==
    /\ app \in AppPC /\ watching \in BOOLEAN
    /\ toEnum \subseteq Devices /\ toSend \subseteq DOMAIN ListHead
    /\ app # "ioctl" => toSend = {}
    /\ present \subseteq Devices /\ arrivals \subseteq Devices

Core == /\ CoreType /\ NoteInv /\ RemovalInv /\ OpenInv
        /\ HandlesOwned /\ NoDeviceHandleLeaks /\ OrderInv

core == <<ListHead, info, opens, registered, removal>>

Inv == AppInv /\ Core

----------------------------------------------------------------------------
(* Lists *)

LEMMA AppendList ==
    ASSUME NEW S, NEW L \in Seq(S), IsInjective(L), NEW e \in S, e \notin ToSet(L),
           NEW M \in {Append(L, e)}
    PROVE  /\ M \in Seq(S) /\ IsInjective(M) /\ ToSet(M) = ToSet(L) \cup {e}
           /\ \A a, b : Before(M, a, b) =>
                 Before(L, a, b) \/ (a \in ToSet(L) /\ b = e)
<1>1. /\ M \in Seq(S) /\ Len(M) = Len(L) + 1 /\ M[Len(L) + 1] = e
      /\ \A i \in 1 .. Len(L) : M[i] = L[i]
      /\ Len(L) \in Nat
    BY AppendProperties
<1>2. DOMAIN L = 1 .. Len(L) /\ DOMAIN M = 1 .. (Len(L) + 1)
    BY <1>1
<1>3. IsInjective(M)
    BY <1>1, <1>2 DEF IsInjective, ToSet
<1>4. ToSet(M) = ToSet(L) \cup {e}
    BY <1>1, <1>2 DEF ToSet
<1>5. ASSUME NEW a, NEW b, Before(M, a, b)
      PROVE  Before(L, a, b) \/ (a \in ToSet(L) /\ b = e)
    <2>1. PICK i, j \in DOMAIN M : i < j /\ M[i] = a /\ M[j] = b
        BY <1>5 DEF Before
    <2>2. i \in DOMAIN L /\ L[i] = a
        BY <2>1, <1>1, <1>2
    <2>3. CASE j \in DOMAIN L
        BY <2>1, <2>2, <2>3, <1>1, <1>2 DEF Before
    <2>4. CASE j \notin DOMAIN L
        BY <2>1, <2>2, <2>4, <1>1, <1>2 DEF ToSet
    <2>5. QED
        BY <2>3, <2>4
<1>6. QED
    BY <1>1, <1>3, <1>4, <1>5

LEMMA RemoveList ==
    ASSUME NEW S, NEW L \in Seq(S), IsInjective(L), NEW i \in DOMAIN L,
           NEW M, M = RemoveAt(L, i)
    PROVE  /\ M \in Seq(S) /\ IsInjective(M) /\ ToSet(M) = ToSet(L) \ {L[i]}
           /\ \A k, m \in DOMAIN M : k < m => \E i1, i2 \in DOMAIN L :
                 i1 < i2 /\ L[i1] = M[k] /\ L[i2] = M[m]
<1> DEFINE P == SubSeq(L, 1, i - 1)
           Q == SubSeq(L, i + 1, Len(L))
           Old(k) == IF k < i THEN k ELSE k + 1
<1>1. DOMAIN L = 1 .. Len(L) /\ Len(L) \in Nat /\ i \in 1 .. Len(L)
    OBVIOUS
<1>2. P \in Seq(S) /\ Len(P) = i - 1 /\ \A k \in 1 .. (i - 1) : P[k] = L[k]
    <2>1. \A k \in 1 .. (i - 1) : L[k] \in S
        BY <1>1
    <2>2. /\ P \in Seq(S)
          /\ Len(P) = IF 1 <= i - 1 THEN (i - 1) - 1 + 1 ELSE 0
          /\ \A k \in 1 .. (i - 1) - 1 + 1 : P[k] = L[1 + k - 1]
        BY <1>1, <2>1, SubSeqProperties
    <2>3. QED
        BY <1>1, <2>2
<1>3. /\ Q \in Seq(S) /\ Len(Q) = Len(L) - i
      /\ \A k \in 1 .. (Len(L) - i) : Q[k] = L[i + k]
    <2>1. \A k \in (i + 1) .. Len(L) : L[k] \in S
        BY <1>1
    <2>2. /\ Q \in Seq(S)
          /\ Len(Q) = IF i + 1 <= Len(L) THEN Len(L) - (i + 1) + 1 ELSE 0
          /\ \A k \in 1 .. Len(L) - (i + 1) + 1 : Q[k] = L[(i + 1) + k - 1]
        BY <1>1, <2>1, SubSeqProperties
    <2>3. QED
        BY <1>1, <2>2
<1>4. M = P \o Q
    BY DEF RemoveAt
<1> HIDE DEF P, Q
<1>5. /\ M \in Seq(S) /\ Len(M) = Len(L) - 1
      /\ \A k \in 1 .. (Len(L) - 1) : M[k] = IF k <= i - 1 THEN P[k] ELSE Q[k - (i - 1)]
    <2>1. /\ P \o Q \in Seq(S)
          /\ Len(P \o Q) = Len(P) + Len(Q)
          /\ \A k \in 1 .. Len(P) + Len(Q) : (P \o Q)[k] =
                IF k <= Len(P) THEN P[k] ELSE Q[k - Len(P)]
        <3>1. P \in Seq(S) /\ Q \in Seq(S)
            BY <1>2, <1>3
        <3>2. QED
            BY <3>1, ConcatProperties
    <2>2. Len(P) = i - 1 /\ Len(P) + Len(Q) = Len(L) - 1
        BY <1>1, <1>2, <1>3
    <2>3. QED
        BY <1>4, <2>1, <2>2, SMTT(40)
<1>6. DOMAIN M = 1 .. (Len(L) - 1)
    BY <1>5, <1>1
<1>7. \A k \in DOMAIN M : Old(k) \in DOMAIN L \ {i} /\ M[k] = L[Old(k)]
    <2> SUFFICES ASSUME NEW k \in DOMAIN M
                 PROVE  Old(k) \in DOMAIN L \ {i} /\ M[k] = L[Old(k)]
        OBVIOUS
    <2>1. CASE k < i
        <3>1. M[k] = P[k] /\ k \in 1 .. (i - 1)
            BY <1>1, <1>5, <1>6, <2>1
        <3>2. QED
            BY <3>1, <1>1, <1>2, <1>6, <2>1
    <2>2. CASE k >= i
        <3>1. M[k] = Q[k - (i - 1)] /\ k - (i - 1) \in 1 .. (Len(L) - i)
            BY <1>1, <1>5, <1>6, <2>2
        <3>2. Q[k - (i - 1)] = L[i + (k - (i - 1))]
            BY <3>1, <1>3
        <3>3. i + (k - (i - 1)) = k + 1
            BY <1>1, <1>6
        <3>4. QED
            BY <3>1, <3>2, <3>3, <1>1, <1>6, <2>2
    <2>3. QED
        BY <2>1, <2>2, <1>1, <1>6
<1>8. \A k \in DOMAIN L \ {i} : \E m \in DOMAIN M : Old(m) = k
    <2>1. ASSUME NEW k \in DOMAIN L \ {i}
          PROVE  \E m \in DOMAIN M : Old(m) = k
        <3>1. CASE k < i
            BY <1>1, <1>6, <3>1
        <3>2. CASE k > i
            <4>1. k - 1 \in DOMAIN M /\ Old(k - 1) = k
                BY <1>1, <1>6, <3>2
            <4>2. QED
                BY <4>1
        <3>3. QED
            BY <3>1, <3>2, <1>1
    <2>2. QED
        BY <2>1
<1>9. \A j, k \in DOMAIN M : j < k => Old(j) < Old(k)
    BY <1>1, <1>6
<1>10. \A j, k \in DOMAIN M : Old(j) = Old(k) => j = k
    BY <1>1, <1>6
<1> HIDE DEF Old
<1>11. IsInjective(M)
    BY <1>7, <1>10 DEF IsInjective
<1>12. ToSet(M) = ToSet(L) \ {L[i]}
    <2>1. ASSUME NEW x \in ToSet(M) PROVE x \in ToSet(L) \ {L[i]}
        BY <1>7, <2>1 DEF ToSet, IsInjective
    <2>2. ASSUME NEW x \in ToSet(L) \ {L[i]} PROVE x \in ToSet(M)
        BY <1>7, <1>8, <2>2 DEF ToSet
    <2>3. QED
        BY <2>1, <2>2
<1>13. \A k, m \in DOMAIN M : k < m => \E i1, i2 \in DOMAIN L :
           i1 < i2 /\ L[i1] = M[k] /\ L[i2] = M[m]
    BY <1>7, <1>9
<1>14. QED
    BY <1>5, <1>11, <1>12, <1>13

----------------------------------------------------------------------------
(* What the invariant says of the entries *)

LEMMA EntryTypes ==
    ASSUME Core
    PROVE  /\ Listed \subseteq Entries /\ Waiting \subseteq Listed
           /\ \A i \in DOMAIN ListHead : ListHead[i] \in Listed
           /\ \A e \in Listed : \E i \in DOMAIN ListHead : ListHead[i] = e
           /\ \A e \in Entries : info[e] \in DEVICE_INFO
           /\ removal.todo \subseteq registered /\ removal.queried \subseteq registered
    BY DEF Core, CoreType, Listed, Waiting, ToSet, RemovalInv, OfDevice

\* While nobody waits, a device has at most one registration.
LEMMA OneNote ==
    ASSUME Core, removal.queried = {}, NEW d
    PROVE  \A r, s \in OfDevice(d) : r = s
<1> SUFFICES ASSUME NEW r \in OfDevice(d), NEW s \in OfDevice(d) PROVE r = s
    OBVIOUS
<1>1. Waiting = {}
    BY DEF Waiting
<1>2. /\ r \in Registration /\ s \in Registration
      /\ r \in registered /\ s \in registered /\ r.device = d /\ s.device = d
    BY DEF OfDevice, Core, CoreType
<1>3. d \in Devices /\ r.handle \in Handles /\ s.handle \in Handles
    BY <1>2 DEF Registration
<1>4. /\ r.by \in Listed /\ info[r.by].hDevice = r.handle /\ info[r.by].DevicePath = d
      /\ s.by \in Listed /\ info[s.by].hDevice = s.handle /\ info[s.by].DevicePath = d
      /\ info[r.by].hHandleNotification = r /\ info[s.by].hHandleNotification = s
    BY <1>2 DEF Core, NoteInv
<1>5. opens[r.handle] = d /\ opens[s.handle] = d
    BY <1>1, <1>3, <1>4 DEF Core, HandlesOwned
<1>6. r.handle = s.handle
    BY <1>3, <1>5 DEF Core, OpenInv, ControlHandlesOwned
<1>7. r.by = s.by
    BY <1>1, <1>3, <1>4, <1>6 DEF Core, HandlesOwned
<1>8. QED
    BY <1>4, <1>7

\* A message finds the entry it is about.
LEMMA FindsEntry ==
    ASSUME Core, NEW r \in removal.todo
    PROVE  Match(r.handle) = {r.by}
<1>1. r \in registered /\ r \in Registration
    BY EntryTypes DEF Core, CoreType
<1>2. r.by \in Listed /\ info[r.by].hDevice = r.handle /\ r.handle \in Handles
      /\ info[r.by].hHandleNotification = r
    BY <1>1 DEF Core, NoteInv, Registration
<1>3. PICK k \in DOMAIN ListHead : ListHead[k] = r.by
    BY <1>2, EntryTypes
<1>4. Len(ListHead) \in Nat /\ DOMAIN ListHead = 1 .. Len(ListHead)
    BY DEF Core, CoreType
<1>5. \A j \in 1 .. (k - 1) : info[ListHead[j]].hDevice # r.handle
    <2> SUFFICES ASSUME NEW j \in 1 .. (k - 1), info[ListHead[j]].hDevice = r.handle
                 PROVE  FALSE
        OBVIOUS
    <2>1. j \in DOMAIN ListHead /\ j < k /\ j # k
        BY <1>4
    <2>2. ListHead[j] \in Listed /\ ListHead[j] # ListHead[k]
        BY <2>1, EntryTypes DEF Core, CoreType, IsInjective
    <2>3. Before(ListHead, ListHead[j], r.by)
        BY <2>1, <1>3 DEF Before
    <2>4. ListHead[j] \in Waiting
        BY <1>2, <2>2, <2>3 DEF Core, OrderInv
    <2>5. info[ListHead[j]].hHandleNotification \in removal.queried
        BY <2>4 DEF Waiting
    <2>6. info[ListHead[j]].hHandleNotification = r
        BY <2>5 DEF Core, RemovalInv
    <2>7. r.by = ListHead[j]
        BY <1>1, <2>2, <2>6 DEF Core, NoteInv
    <2>8. QED
        BY <2>2, <2>7, <1>3
<1>6. r.by \in Match(r.handle)
    BY <1>2, <1>3, <1>5 DEF Match
<1>7. ASSUME NEW f \in Match(r.handle) PROVE f = r.by
    <2>1. PICK m \in DOMAIN ListHead :
              /\ ListHead[m] = f /\ info[ListHead[m]].hDevice = r.handle
              /\ \A j \in 1 .. (m - 1) : info[ListHead[j]].hDevice # r.handle
        BY <1>7 DEF Match
    <2>2. ~ k < m
        BY <1>2, <1>3, <1>4, <2>1
    <2>3. ~ m < k
        BY <1>4, <1>5, <2>1
    <2>4. QED
        BY <1>3, <1>4, <2>1, <2>2, <2>3
<1>8. QED
    BY <1>6, <1>7

----------------------------------------------------------------------------
(* The handlers *)

LEMMA AddDeviceKeeps ==
    ASSUME Exclusive, Core, NEW d \in Devices, NEW described \in BOOLEAN,
           AddDevice(d, described), UNCHANGED removal
    PROVE  Core'
<1> PICK e \in Entries \ Listed, h \in CreateFile(d) :
        /\ Insert(e)
        /\ opens' = Opened(opens, h, d)
        /\ \E note \in IF h = Invalid THEN {Null} ELSE RegisterDeviceNotification(h, d, e) :
              /\ registered' = registered \cup ({note} \ {Null})
              /\ info' = [info EXCEPT ![e] =
                    [hDevice |-> h, hControlDevice |-> Null, hHandleNotification |-> note,
                     DeviceName |-> described /\ d \in SaitDevices, DevicePath |-> d]]
    BY DEF AddDevice
<1> PICK note \in IF h = Invalid THEN {Null} ELSE RegisterDeviceNotification(h, d, e) :
              /\ registered' = registered \cup ({note} \ {Null})
              /\ info' = [info EXCEPT ![e] =
                    [hDevice |-> h, hControlDevice |-> Null, hHandleNotification |-> note,
                     DeviceName |-> described /\ d \in SaitDevices, DevicePath |-> d]]
    OBVIOUS
<1>1. /\ h \in Handles \cup {Invalid}
      /\ h \in Handles => opens[h] = Null /\ \A g \in Handles : opens[g] # d
    BY DEF CreateFile
<1>2. note = Null \/ (h \in Handles /\ note = [handle |-> h, device |-> d, by |-> e])
    BY <1>1 DEF RegisterDeviceNotification
<1>3. /\ ListHead' \in Seq(Entries) /\ IsInjective(ListHead') /\ Listed' = Listed \cup {e}
      /\ \A a, b : Before(ListHead', a, b) =>
            Before(ListHead, a, b) \/ (a \in Listed /\ b = e)
    <2>1. ListHead \in Seq(Entries) /\ IsInjective(ListHead) /\ e \notin ToSet(ListHead)
        BY DEF Core, CoreType, Listed
    <2>2. ListHead' \in {Append(ListHead, e)} /\ e \in Entries
        BY DEF Insert
    <2>3. /\ ListHead' \in Seq(Entries) /\ IsInjective(ListHead')
          /\ ToSet(ListHead') = ToSet(ListHead) \cup {e}
          /\ \A a, b : Before(ListHead', a, b) =>
                Before(ListHead, a, b) \/ (a \in ToSet(ListHead) /\ b = e)
        <3>1. ListHead' \in Seq(Entries)
            BY <2>1, <2>2, AppendList
        <3>2. IsInjective(ListHead')
            BY <2>1, <2>2, AppendList DEF IsInjective
        <3>3. ToSet(ListHead') = ToSet(ListHead) \cup {e}
            BY <2>1, <2>2, AppendList
        <3>4. \A a, b : Before(ListHead', a, b) =>
                Before(ListHead, a, b) \/ (a \in ToSet(ListHead) /\ b = e)
            BY <2>1, <2>2, AppendList DEF Before, IsInjective
        <3>5. QED
            BY <3>1, <3>2, <3>3, <3>4
    <2>4. QED
        BY <2>3 DEF Listed
<1>4. /\ info' \in [Entries -> DEVICE_INFO]
      /\ \A f \in Entries \ {e} : info'[f] = info[f]
      /\ info'[e].hDevice = h /\ info'[e].hHandleNotification = note
      /\ info'[e].DevicePath = d /\ info'[e].hControlDevice = Null
    <2>1. PICK b \in BOOLEAN : b = (described /\ d \in SaitDevices)
        OBVIOUS
    <2>2. info' = [info EXCEPT ![e] =
                    [hDevice |-> h, hControlDevice |-> Null, hHandleNotification |-> note,
                     DeviceName |-> b, DevicePath |-> d]]
        BY <2>1, Zenon
    <2>3. /\ h \in HandleValue /\ note \in Registration \cup {Null}
          /\ Null \in HandleValue /\ e \in Entries
        BY <1>1, <1>2 DEF HandleValue, Registration
    <2>4. [hDevice |-> h, hControlDevice |-> Null, hHandleNotification |-> note,
           DeviceName |-> b, DevicePath |-> d] \in DEVICE_INFO
        BY <2>3 DEF DEVICE_INFO
    <2>5. info \in [Entries -> DEVICE_INFO]
        BY DEF Core, CoreType
    <2> HIDE DEF DEVICE_INFO
    <2>6. QED
        BY <2>2, <2>3, <2>4, <2>5
<1>5. /\ opens' \in [Handles -> Devices \cup {Control, Null}]
      /\ h \in Handles => opens'[h] = d
      /\ \A g \in Handles \ {h} : opens'[g] = opens[g]
    BY <1>1 DEF Core, CoreType, Opened
<1>6. /\ registered \subseteq registered' /\ registered' \subseteq Registration
      /\ note # Null => note \in registered' /\ note.by = e
      /\ \A r \in registered' : r \in registered \/ (r = note /\ note # Null)
    BY <1>2 DEF Core, CoreType, Registration
<1>7. Listed \subseteq Entries /\ e \notin Listed
    BY EntryTypes
<1> HIDE DEF Listed, CreateFile
<1>8. CoreType'
    BY <1>3, <1>4, <1>5, <1>6, <1>7 DEF Core, CoreType
<1>9. NoteInv'
    <2>1. ASSUME NEW r \in registered'
          PROVE  /\ r.by \in Listed' /\ info'[r.by].hHandleNotification = r
                 /\ info'[r.by].hDevice = r.handle /\ info'[r.by].DevicePath = r.device
        <3>1. CASE r \in registered
            BY <3>1, <1>3, <1>4, <1>7 DEF Core, NoteInv
        <3>2. CASE r = note /\ note # Null
            BY <3>2, <1>2, <1>3, <1>4
        <3>3. QED
            BY <3>1, <3>2, <1>6
    <2>2. ASSUME NEW f \in Listed'
          PROVE  /\ info'[f].DevicePath \in Devices
                 /\ info'[f].hHandleNotification # Null =>
                       /\ info'[f].hHandleNotification \in registered'
                       /\ info'[f].hHandleNotification.by = f
        <3>1. CASE f = e
            BY <3>1, <1>4, <1>6
        <3>2. CASE f # e
            BY <3>2, <1>3, <1>4, <1>6, <1>7 DEF Core, NoteInv
        <3>3. QED
            BY <3>1, <3>2
    <2>3. QED
        BY <2>1, <2>2 DEF NoteInv
<1>10. RemovalInv'
    BY <1>6 DEF Core, RemovalInv, OfDevice
<1>11. Waiting' = Waiting
    <2>1. note \notin removal.queried
        BY <1>2, <1>7, EntryTypes, NullAssumption DEF Core, NoteInv, CoreType
    <2>2. QED
        BY <1>3, <1>4, <1>7, <2>1 DEF Waiting
<1>12. OpenInv'
    <2>1. \A g, k \in Handles : opens'[g] \in Devices /\ opens'[g] = opens'[k] => g = k
        BY <1>1, <1>5 DEF Core, OpenInv, ControlHandlesOwned
    <2>2. ASSUME NEW f \in Listed', info'[f].hControlDevice \in Handles
          PROVE  /\ opens'[info'[f].hControlDevice] = Control
                 /\ \A g \in Listed' : info'[g].hControlDevice = info'[f].hControlDevice => g = f
        <3>1. f # e /\ f \in Listed /\ info'[f].hControlDevice = info[f].hControlDevice
            BY <1>3, <1>4, <1>7, <2>2
        <3>2. opens[info[f].hControlDevice] = Control
            BY <3>1, <2>2 DEF Core, OpenInv, ControlHandlesOwned
        <3>3. info[f].hControlDevice # h
            BY <1>1, <3>2, <2>2, <3>1
        <3>4. QED
            BY <1>3, <1>4, <1>5, <1>7, <2>2, <3>1, <3>2, <3>3 DEF Core, OpenInv, ControlHandlesOwned
    <2>3. QED
        BY <2>1, <2>2 DEF OpenInv, ControlHandlesOwned
<1>13. \A f \in Listed : info[f].hDevice \in Handles /\ f \notin Waiting => info[f].hDevice # h
    BY <1>1 DEF Core, HandlesOwned, NoteInv
<1>14. HandlesOwned'
    <2> SUFFICES ASSUME NEW f \in Listed' \ Waiting', info'[f].hDevice \in Handles
                 PROVE  /\ opens'[info'[f].hDevice] = info'[f].DevicePath
                        /\ \A g \in Listed' \ Waiting' :
                              info'[g].hDevice = info'[f].hDevice => g = f
        BY DEF HandlesOwned
    <2>1. CASE f = e
        BY <2>1, <1>3, <1>4, <1>5, <1>7, <1>11, <1>13
    <2>2. CASE f # e
        <3>1. f \in Listed \ Waiting /\ info'[f] = info[f]
            BY <2>2, <1>3, <1>4, <1>7, <1>11
        <3>2. /\ opens[info[f].hDevice] = info[f].DevicePath
              /\ \A g \in Listed \ Waiting : info[g].hDevice = info[f].hDevice => g = f
            BY <3>1 DEF Core, HandlesOwned
        <3>3. info[f].hDevice # h
            BY <3>1, <1>13
        <3>4. opens'[info'[f].hDevice] = info'[f].DevicePath
            BY <3>1, <3>2, <3>3, <1>5
        <3>5. ASSUME NEW g \in Listed' \ Waiting', info'[g].hDevice = info'[f].hDevice
              PROVE  g = f
            <4>1. g # e
                BY <3>1, <3>3, <3>5, <1>4
            <4>2. g \in Listed \ Waiting /\ info'[g] = info[g]
                BY <4>1, <3>5, <1>3, <1>4, <1>7, <1>11
            <4>3. QED
                BY <4>2, <3>1, <3>2, <3>5
        <3>6. QED
            BY <3>4, <3>5
    <2>3. QED
        BY <2>1, <2>2
<1>15. NoDeviceHandleLeaks'
    <2> SUFFICES ASSUME NEW g \in Handles, opens'[g] \in Devices
                 PROVE  \E f \in Listed' : info'[f].hDevice = g /\ f \notin Waiting'
        BY DEF NoDeviceHandleLeaks
    <2>1. CASE g = h
        BY <2>1, <1>3, <1>4, <1>7, <1>11, EntryTypes
    <2>2. CASE g # h
        BY <2>2, <1>3, <1>4, <1>5, <1>7, <1>11 DEF Core, NoDeviceHandleLeaks
    <2>3. QED
        BY <2>1, <2>2
<1>16. OrderInv'
    <2> SUFFICES ASSUME NEW a \in Listed', NEW b \in Listed', Before(ListHead', a, b),
                        info'[a].hDevice \in Handles, info'[a].hDevice = info'[b].hDevice
                 PROVE  a \in Waiting
        BY <1>11 DEF OrderInv
    <2>1. CASE Before(ListHead, a, b)
        <3>1. a \in Listed /\ b \in Listed
            BY <2>1, EntryTypes DEF Before
        <3>2. QED
            BY <2>1, <3>1, <1>4, <1>7 DEF Core, OrderInv
    <2>2. CASE a \in Listed /\ b = e
        BY <2>2, <1>4, <1>7, <1>13
    <2>3. QED
        BY <1>3, <2>1, <2>2
<1>17. QED
    BY <1>8, <1>9, <1>10, <1>12, <1>14, <1>15, <1>16 DEF Core

LEMMA Unlinked ==
    ASSUME Core, NEW e, Unlink(e)
    PROVE  /\ ListHead' \in Seq(Entries) /\ IsInjective(ListHead')
           /\ e \in Listed /\ Listed' = Listed \ {e}
           /\ \A a, b : Before(ListHead', a, b) => Before(ListHead, a, b)
<1>1. PICK i \in DOMAIN ListHead : ListHead[i] = e /\ ListHead' = RemoveAt(ListHead, i)
    BY DEF Unlink
<1>2. ListHead \in Seq(Entries) /\ IsInjective(ListHead)
    BY DEF Core, CoreType
<1>3. ListHead' \in Seq(Entries)
    BY <1>1, <1>2, RemoveList
<1>4. IsInjective(ListHead')
    BY <1>1, <1>2, RemoveList DEF IsInjective
<1>5. ToSet(ListHead') = ToSet(ListHead) \ {e}
    BY <1>1, <1>2, RemoveList
<1>6. \A a, b : Before(ListHead', a, b) => Before(ListHead, a, b)
    <2>1. \A k, m \in DOMAIN ListHead' : k < m => \E i1, i2 \in DOMAIN ListHead :
              i1 < i2 /\ ListHead[i1] = ListHead'[k] /\ ListHead[i2] = ListHead'[m]
        BY <1>1, <1>2, RemoveList DEF IsInjective
    <2>2. QED
        BY <2>1 DEF Before
<1>7. e \in Listed
    BY <1>1, EntryTypes
<1>8. QED
    BY <1>3, <1>4, <1>5, <1>6, <1>7 DEF Listed

\* The two entries of a Before are in the list, and differ.
LEMMA BeforeListed ==
    ASSUME Core, NEW a, NEW b, Before(ListHead, a, b)
    PROVE  a \in Listed /\ b \in Listed /\ a # b
<1>1. PICK i, j \in DOMAIN ListHead : i < j /\ ListHead[i] = a /\ ListHead[j] = b
    BY DEF Before
<1>2. i # j
    BY <1>1 DEF Core, CoreType
<1>3. QED
    BY <1>1, <1>2, EntryTypes DEF Core, CoreType, IsInjective

LEMMA CleanupKeeps ==
    ASSUME Core, Cleanup
    PROVE  Core'
<1>1. /\ registered' = Unregistered(Listed)
      /\ removal' = [removal EXCEPT !.todo = (@ \ {}) \cap registered',
                                    !.queried = (@ \ {}) \cap registered']
      /\ opens' = Closed(UNION {HandlesOf(e) : e \in Listed})
      /\ ListHead' = <<>>
      /\ info' = [e \in Entries |-> Zeroed]
    BY DEF Cleanup, Forget
<1>2. registered' = {}
    BY <1>1 DEF Core, NoteInv, Unregistered
<1>3. /\ removal' \in [phase : Phase, device : Devices \cup {Null},
                       todo : SUBSET Registration, queried : SUBSET Registration]
      /\ removal'.todo = {} /\ removal'.queried = {}
    BY <1>1, <1>2 DEF Core, CoreType
<1>4. Listed' = {} /\ \A a, b : ~ Before(ListHead', a, b)
    <2>1. ListHead' = <<>> /\ DOMAIN ListHead' = {}
        BY <1>1
    <2>2. QED
        BY <2>1 DEF Listed, ToSet, Before
<1>5. opens' \in [Handles -> Devices \cup {Control, Null}]
      /\ \A h \in Handles : opens'[h] = opens[h] \/ opens'[h] = Null
    BY <1>1 DEF Closed, Core, CoreType
<1>6. CoreType'
    <2>1. ListHead' \in Seq(Entries) /\ IsInjective(ListHead')
        BY <1>1 DEF IsInjective
    <2>2. info' \in [Entries -> DEVICE_INFO]
        BY <1>1 DEF DEVICE_INFO, Zeroed, HandleValue
    <2>3. QED
        BY <1>1, <1>2, <1>3, <1>5, <2>1, <2>2 DEF CoreType
<1>7. NoteInv' /\ RemovalInv' /\ OrderInv' /\ HandlesOwned'
    BY <1>2, <1>3, <1>4 DEF NoteInv, RemovalInv, OrderInv, HandlesOwned
<1>8. OpenInv'
    BY <1>4, <1>5 DEF Core, OpenInv, ControlHandlesOwned
<1>9. NoDeviceHandleLeaks'
    <2> SUFFICES ASSUME NEW h \in Handles, opens'[h] \in Devices PROVE FALSE
        BY DEF NoDeviceHandleLeaks
    <2>1. h \notin UNION {HandlesOf(e) : e \in Listed} /\ opens[h] \in Devices
        BY <1>1 DEF Closed
    <2>2. PICK e \in Listed : info[e].hDevice = h
        BY <2>1 DEF Core, NoDeviceHandleLeaks
    <2>3. h \in HandlesOf(e)
        BY <2>2 DEF HandlesOf
    <2>4. QED
        BY <2>1, <2>2, <2>3
<1>10. QED
    BY <1>6, <1>7, <1>8, <1>9 DEF Core

\* What closing the handles of an entry that waits for nothing leaves alone.
LEMMA OnlyOwnHandles ==
    ASSUME Core, NEW e \in Listed \ Waiting
    PROVE  /\ \A f \in Listed \ Waiting : f # e /\ info[f].hDevice \in Handles =>
                 info[f].hDevice \notin HandlesOf(e)
           /\ \A f \in Listed : f # e /\ info[f].hControlDevice \in Handles =>
                 info[f].hControlDevice \notin HandlesOf(e)
           /\ \A h \in HandlesOf(e) : h \in Handles
                 /\ (opens[h] \in Devices => h = info[e].hDevice)
           /\ info[e].hDevice \in Handles => info[e].hDevice \in HandlesOf(e)
<1>1. ASSUME NEW h \in HandlesOf(e)
      PROVE  /\ h \in Handles /\ info[e].hDevice \in Handles
             /\ h = info[e].hDevice \/ h = info[e].hControlDevice
    BY <1>1 DEF HandlesOf
<1>2. info[e].hDevice \in Handles => opens[info[e].hDevice] \in Devices
    BY DEF Core, HandlesOwned, NoteInv
<1>3. info[e].hControlDevice \in Handles => opens[info[e].hControlDevice] = Control
    BY DEF Core, OpenInv, ControlHandlesOwned
<1>4. \A f \in Listed \ Waiting : f # e /\ info[f].hDevice \in Handles =>
          /\ info[f].hDevice # info[e].hDevice
          /\ opens[info[f].hDevice] \in Devices
    BY DEF Core, HandlesOwned, NoteInv
<1>5. \A f \in Listed : f # e /\ info[f].hControlDevice \in Handles =>
          /\ info[f].hControlDevice # info[e].hControlDevice
          /\ opens[info[f].hControlDevice] = Control
    BY DEF Core, OpenInv, ControlHandlesOwned
<1>6. \A f \in Listed \ Waiting : f # e /\ info[f].hDevice \in Handles =>
          info[f].hDevice \notin HandlesOf(e)
    BY <1>1, <1>3, <1>4
<1>7. \A f \in Listed : f # e /\ info[f].hControlDevice \in Handles =>
          info[f].hControlDevice \notin HandlesOf(e)
    BY <1>1, <1>2, <1>5
<1>8. \A h \in HandlesOf(e) : h \in Handles /\ (opens[h] \in Devices => h = info[e].hDevice)
    BY <1>1, <1>3
<1>9. info[e].hDevice \in Handles => info[e].hDevice \in HandlesOf(e)
    BY DEF HandlesOf
<1>10. QED
    BY <1>6, <1>7, <1>8, <1>9

LEMMA NoteOf ==
    ASSUME Core, NEW r \in removal.todo
    PROVE  /\ r \in registered /\ r \in Registration /\ r.by \in Listed
           /\ info[r.by].hHandleNotification = r /\ info[r.by].hDevice = r.handle
           /\ info[r.by].DevicePath = r.device /\ r.device \in Devices
           /\ r.handle \in Handles
           /\ \A f \in Listed : info[f].hHandleNotification = r => f = r.by
           /\ \A s \in removal.todo \cup removal.queried : s = r
           /\ r \notin removal.queried => removal.queried = {} /\ Waiting = {}
           /\ r \in removal.queried => Waiting = {r.by}
<1>1. r \in registered /\ r \in Registration /\ r.device \in Devices /\ r.handle \in Handles
    BY EntryTypes DEF Core, CoreType, Registration
<1>2. /\ r.by \in Listed /\ info[r.by].hHandleNotification = r
      /\ info[r.by].hDevice = r.handle /\ info[r.by].DevicePath = r.device
    BY <1>1 DEF Core, NoteInv
<1>3. \A f \in Listed : info[f].hHandleNotification = r => f = r.by
    BY <1>1, NullAssumption DEF Core, NoteInv
<1>4. \A s \in removal.todo \cup removal.queried : s = r
    BY DEF Core, RemovalInv
<1>5. r \notin removal.queried => removal.queried = {} /\ Waiting = {}
    BY <1>4 DEF Waiting
<1>6. r \in removal.queried => Waiting = {r.by}
    BY <1>2, <1>3, <1>4 DEF Waiting
<1>7. QED
    BY <1>1, <1>2, <1>3, <1>4, <1>5, <1>6

LEMMA QueryRemoveKeeps ==
    ASSUME Core, NEW r \in removal.todo, removal.phase = "query", QueryRemove(r.by),
           removal' = [removal EXCEPT !.todo = @ \ {r}, !.queried = @ \cup {r}]
    PROVE  Core'
<1> DEFINE e == r.by
<1>1. /\ r \in registered /\ r \in Registration /\ e \in Listed
      /\ info[e].hHandleNotification = r /\ info[e].hDevice = r.handle /\ r.handle \in Handles
      /\ \A f \in Listed : info[f].hHandleNotification = r => f = e
      /\ \A s \in removal.todo \cup removal.queried : s = r
    BY NoteOf
<1>2. removal.queried = {} /\ Waiting = {}
    BY NoteOf DEF Core, RemovalInv
<1>3. /\ removal' \in [phase : Phase, device : Devices \cup {Null},
                       todo : SUBSET Registration, queried : SUBSET Registration]
      /\ removal'.todo = {} /\ removal'.queried = {r}
      /\ removal'.phase = "query" /\ removal'.device = removal.device
    BY <1>1, <1>2 DEF Core, CoreType
<1>4. /\ ListHead' = ListHead /\ registered' = registered /\ Listed' = Listed
      /\ opens' = Closed(HandlesOf(e))
    BY DEF QueryRemove, Listed
<1>5. /\ opens' \in [Handles -> Devices \cup {Control, Null}]
      /\ \A h \in Handles : opens'[h] = IF h \in HandlesOf(e) THEN Null ELSE opens[h]
    BY <1>4 DEF Closed, Core, CoreType
<1>6. /\ info' \in [Entries -> DEVICE_INFO]
      /\ \A f \in Entries : /\ info'[f].hDevice = info[f].hDevice
                            /\ info'[f].hHandleNotification = info[f].hHandleNotification
                            /\ info'[f].DevicePath = info[f].DevicePath
      /\ \A f \in Entries \ {e} : info'[f] = info[f]
      /\ info'[e].hControlDevice \notin Handles
    <2>1. /\ info \in [Entries -> DEVICE_INFO] /\ e \in Entries
          /\ \A f \in Entries : info[f] \in DEVICE_INFO
        BY <1>1, EntryTypes DEF Core, CoreType
    <2>2. PICK c \in HandleValue \ Handles : info' = [info EXCEPT ![e].hControlDevice = c]
        <3>1. Invalid \in HandleValue \ Handles
            BY DEF HandleValue
        <3>2. info[e].hControlDevice = Null => info[e].hControlDevice \in HandleValue \ Handles
            BY DEF HandleValue
        <3>3. info[e].hControlDevice \in HandleValue
            BY <2>1 DEF DEVICE_INFO
        <3>4. info' = [info EXCEPT ![e].hControlDevice =
                    IF info[e].hDevice \in Handles /\ info[e].hControlDevice # Null
                    THEN Invalid ELSE info[e].hControlDevice]
            BY DEF QueryRemove
        <3>5. QED
            BY <1>1, <3>1, <3>2, <3>3, <3>4
    <2>3. QED
        BY <2>1, <2>2 DEF DEVICE_INFO
<1>7. Waiting' = {e}
    BY <1>1, <1>3, <1>4, <1>6, EntryTypes DEF Waiting
<1>8. e \in Listed \ Waiting
    BY <1>1, <1>2
<1>9. CoreType'
    BY <1>1, <1>3, <1>4, <1>5, <1>6 DEF Core, CoreType
<1>10. NoteInv'
    BY <1>4, <1>6, EntryTypes DEF Core, NoteInv
<1>11. RemovalInv'
    BY <1>3, <1>4 DEF Core, RemovalInv, OfDevice
<1>12. OpenInv'
    <2>1. \A g, h \in Handles : opens'[g] \in Devices /\ opens'[g] = opens'[h] => g = h
        BY <1>5 DEF Core, OpenInv, ControlHandlesOwned
    <2>2. ASSUME NEW f \in Listed', info'[f].hControlDevice \in Handles
          PROVE  /\ opens'[info'[f].hControlDevice] = Control
                 /\ \A g \in Listed' : info'[g].hControlDevice = info'[f].hControlDevice => g = f
        <3>1. f # e /\ f \in Listed /\ info'[f] = info[f]
            BY <1>4, <1>6, <2>2, EntryTypes
        <3>2. info[f].hControlDevice \notin HandlesOf(e)
            BY <1>8, <2>2, <3>1, OnlyOwnHandles
        <3>3. \A g \in Listed' : info'[g].hControlDevice = info'[f].hControlDevice => g # e
            BY <1>6, <2>2
        <3>4. QED
            BY <1>4, <1>5, <1>6, <2>2, <3>1, <3>2, <3>3, EntryTypes DEF Core, OpenInv, ControlHandlesOwned
    <2>3. QED
        BY <2>1, <2>2 DEF OpenInv, ControlHandlesOwned
<1>13. HandlesOwned'
    BY <1>2, <1>4, <1>5, <1>6, <1>7, <1>8, EntryTypes, OnlyOwnHandles DEF Core, HandlesOwned
<1>14. NoDeviceHandleLeaks'
    <2> SUFFICES ASSUME NEW g \in Handles, opens'[g] \in Devices
                 PROVE  \E f \in Listed' : info'[f].hDevice = g /\ f \notin Waiting'
        BY DEF NoDeviceHandleLeaks
    <2>1. g \notin HandlesOf(e) /\ opens[g] \in Devices
        BY <1>5
    <2>2. PICK f \in Listed : info[f].hDevice = g
        BY <2>1 DEF Core, NoDeviceHandleLeaks
    <2>3. f # e
        BY <1>8, <2>1, <2>2, OnlyOwnHandles
    <2>4. QED
        BY <1>4, <1>6, <1>7, <2>2, <2>3, EntryTypes
<1>15. OrderInv'
    <2> SUFFICES ASSUME NEW a \in Listed', NEW b \in Listed', Before(ListHead', a, b),
                        info'[a].hDevice \in Handles, info'[a].hDevice = info'[b].hDevice
                 PROVE  FALSE
        BY DEF OrderInv
    <2>1. a \in Listed /\ b \in Listed /\ Before(ListHead, a, b)
        BY <1>4
    <2>2. a \in Waiting
        BY <2>1, <1>6, EntryTypes DEF Core, OrderInv
    <2>3. QED
        BY <2>2, <1>2
<1>16. QED
    BY <1>9, <1>10, <1>11, <1>12, <1>13, <1>14, <1>15 DEF Core

\* An entry is given up: its handles are closed, unless it waits, its registration
\* is withdrawn, and the block is freed.
LEMMA EntryGone ==
    ASSUME Core, NEW r \in removal.todo, removal.phase # "query",
           registered' = Unregistered({r.by}), Free(r.by), Forget({r}),
           \/ r.by \in Waiting /\ opens' = opens
           \/ r.by \notin Waiting /\ opens' = Closed(HandlesOf(r.by))
    PROVE  Core'
<1> DEFINE e == r.by
<1>1. /\ r \in registered /\ r \in Registration /\ e \in Listed
      /\ info[e].hHandleNotification = r /\ info[e].hDevice = r.handle /\ r.handle \in Handles
      /\ \A f \in Listed : info[f].hHandleNotification = r => f = e
      /\ \A s \in removal.todo \cup removal.queried : s = r
      /\ r \in removal.queried => Waiting = {e}
      /\ r \notin removal.queried => Waiting = {}
    BY NoteOf
<1>2. registered' = registered \ {r}
    BY <1>1 DEF Unregistered
<1>3. /\ removal' \in [phase : Phase, device : Devices \cup {Null},
                       todo : SUBSET Registration, queried : SUBSET Registration]
      /\ removal'.todo = {} /\ removal'.queried = {} /\ removal'.phase = removal.phase
    BY <1>1 DEF Core, CoreType, Forget
<1>4. /\ ListHead' \in Seq(Entries) /\ IsInjective(ListHead') /\ Listed' = Listed \ {e}
      /\ \A a, b : Before(ListHead', a, b) => Before(ListHead, a, b)
    BY Unlinked DEF Free
<1>5. /\ info' \in [Entries -> DEVICE_INFO] /\ info'[e] = Zeroed
      /\ \A f \in Entries \ {e} : info'[f] = info[f]
    <2>1. info \in [Entries -> DEVICE_INFO] /\ e \in Entries
        BY <1>1, EntryTypes DEF Core, CoreType
    <2>2. Zeroed \in DEVICE_INFO
        BY DEF DEVICE_INFO, Zeroed, HandleValue
    <2>3. QED
        BY <2>1, <2>2 DEF Free
<1>6. Waiting' = {} /\ Waiting \subseteq {e}
    BY <1>1, <1>3 DEF Waiting
<1>7. opens' \in [Handles -> Devices \cup {Control, Null}]
      /\ \A h \in Handles : opens'[h] \in {opens[h], Null}
    BY DEF Closed, Core, CoreType
<1>8. /\ \A f \in Listed \ {e} : /\ info[f].hDevice \in Handles =>
                                        opens'[info[f].hDevice] = opens[info[f].hDevice]
                                 /\ info[f].hControlDevice \in Handles =>
                                        opens'[info[f].hControlDevice] = opens[info[f].hControlDevice]
      /\ \A h \in Handles : opens'[h] \in Devices => opens[h] \in Devices
            /\ (e \notin Waiting => h # info[e].hDevice)
    <2>1. CASE e \in Waiting /\ opens' = opens
        BY <2>1
    <2>2. CASE e \notin Waiting /\ opens' = Closed(HandlesOf(e))
        <3>1. \A h \in Handles : opens'[h] = IF h \in HandlesOf(e) THEN Null ELSE opens[h]
            BY <2>2 DEF Closed
        <3>2. e \in Listed \ Waiting /\ Waiting = {}
            BY <2>2, <1>1
        <3>3. QED
            BY <2>2, <3>1, <3>2, OnlyOwnHandles
    <2>3. QED
        BY <2>1, <2>2
<1>9. \A f \in Listed' : f \in Listed \ Waiting /\ f # e /\ f \in Entries /\ info'[f] = info[f]
    BY <1>4, <1>5, <1>6, EntryTypes
<1>10. CoreType'
    BY <1>2, <1>3, <1>4, <1>5, <1>7 DEF Core, CoreType
<1>11. NoteInv'
    <2>1. ASSUME NEW s \in registered'
          PROVE  /\ s.by \in Listed' /\ info'[s.by].hHandleNotification = s
                 /\ info'[s.by].hDevice = s.handle /\ info'[s.by].DevicePath = s.device
        <3>1. /\ s \in registered /\ s # r
              /\ s.by \in Listed /\ info[s.by].hHandleNotification = s
              /\ info[s.by].hDevice = s.handle /\ info[s.by].DevicePath = s.device
            BY <1>2, <2>1 DEF Core, NoteInv
        <3>2. s.by \in Listed'
            BY <3>1, <1>1, <1>4
        <3>3. QED
            BY <3>1, <3>2, <1>9
    <2>2. ASSUME NEW f \in Listed'
          PROVE  /\ info'[f].DevicePath \in Devices
                 /\ info'[f].hHandleNotification # Null =>
                       /\ info'[f].hHandleNotification \in registered'
                       /\ info'[f].hHandleNotification.by = f
        <3>1. f \in Listed /\ f # e /\ info'[f] = info[f]
            BY <1>9
        <3>2. /\ info[f].DevicePath \in Devices
              /\ info[f].hHandleNotification # Null =>
                    /\ info[f].hHandleNotification \in registered
                    /\ info[f].hHandleNotification.by = f
            BY <3>1 DEF Core, NoteInv
        <3>3. info[f].hHandleNotification # r
            BY <3>1, <1>1
        <3>4. QED
            BY <3>1, <3>2, <3>3, <1>2
    <2>3. QED
        BY <2>1, <2>2 DEF NoteInv
<1>12. RemovalInv'
    BY <1>3 DEF Core, RemovalInv
<1>13. OpenInv'
    BY <1>7, <1>8, <1>9 DEF Core, OpenInv, ControlHandlesOwned
<1>14. HandlesOwned'
    BY <1>8, <1>9 DEF Core, HandlesOwned
<1>15. NoDeviceHandleLeaks'
    <2> SUFFICES ASSUME NEW g \in Handles, opens'[g] \in Devices
                 PROVE  \E f \in Listed' : info'[f].hDevice = g /\ f \notin Waiting'
        BY DEF NoDeviceHandleLeaks
    <2>1. PICK f \in Listed : info[f].hDevice = g /\ f \notin Waiting
        BY <1>8 DEF Core, NoDeviceHandleLeaks
    <2>2. f # e
        BY <1>8, <2>1
    <2>3. QED
        BY <1>4, <1>6, <1>9, <2>1, <2>2
<1>16. OrderInv'
    BY <1>4, <1>9 DEF Core, OrderInv
<1>17. QED
    BY <1>10, <1>11, <1>12, <1>13, <1>14, <1>15, <1>16 DEF Core

\* The device is opened again: the entry goes on with another value.
LEMMA ReopenKeeps ==
    ASSUME Exclusive, Core, NEW r \in removal.todo, removal.phase = "failed",
           NEW h \in CreateFile(r.device), h # Invalid,
           NEW note \in RegisterDeviceNotification(h, r.device, r.by),
           opens' = Opened(opens, h, r.device),
           registered' = Unregistered({r.by}) \cup ({note} \ {Null}),
           info' = [info EXCEPT ![r.by].hDevice = h, ![r.by].hHandleNotification = note],
           UNCHANGED ListHead, Forget({r})
    PROVE  Core'
<1> DEFINE e == r.by
<1>1. /\ r \in registered /\ r \in Registration /\ e \in Listed /\ e \in Entries
      /\ info[e].hHandleNotification = r /\ info[e].hDevice = r.handle /\ r.handle \in Handles
      /\ info[e].DevicePath = r.device /\ r.device \in Devices
      /\ \A f \in Listed : info[f].hHandleNotification = r => f = e
      /\ \A s \in removal.todo \cup removal.queried : s = r
      /\ Waiting = {e} /\ Listed' = Listed
    BY NoteOf, EntryTypes DEF Core, RemovalInv, Listed
<1>2. h \in Handles /\ opens[h] = Null /\ \A g \in Handles : opens[g] # r.device
    BY <1>1 DEF CreateFile
<1>3. note = Null \/ note = [handle |-> h, device |-> r.device, by |-> e]
    BY DEF RegisterDeviceNotification
<1>4. /\ registered' = (registered \ {r}) \cup ({note} \ {Null})
      /\ note \in Registration \cup {Null}
      /\ note # Null => note.by = e
    BY <1>1, <1>2, <1>3 DEF Unregistered, Registration
<1>5. /\ removal' \in [phase : Phase, device : Devices \cup {Null},
                       todo : SUBSET Registration, queried : SUBSET Registration]
      /\ removal'.todo = {} /\ removal'.queried = {} /\ removal'.phase = removal.phase
    BY <1>1 DEF Core, CoreType, Forget
<1>6. /\ info' \in [Entries -> DEVICE_INFO]
      /\ info'[e].hDevice = h /\ info'[e].hHandleNotification = note
      /\ info'[e].DevicePath = r.device /\ info'[e].hControlDevice = info[e].hControlDevice
      /\ \A f \in Entries \ {e} : info'[f] = info[f]
    <2>1. info \in [Entries -> DEVICE_INFO]
        BY DEF Core, CoreType
    <2>2. h \in HandleValue /\ note \in Registration \cup {Null}
        BY <1>2, <1>4 DEF HandleValue
    <2>3. QED
        BY <1>1, <2>1, <2>2 DEF DEVICE_INFO
<1>7. Waiting' = {}
    BY <1>5 DEF Waiting
<1>8. /\ opens' \in [Handles -> Devices \cup {Control, Null}]
      /\ opens'[h] = r.device /\ \A g \in Handles \ {h} : opens'[g] = opens[g]
    BY <1>1, <1>2 DEF Opened, Core, CoreType
<1>9. \A f \in Listed \ {e} : /\ f \notin Waiting /\ f \in Entries /\ info'[f] = info[f]
                              /\ info[f].hDevice \in Handles => info[f].hDevice # h
    BY <1>1, <1>2, <1>6, EntryTypes DEF Core, HandlesOwned, NoteInv
<1>10. CoreType'
    <2>1. ListHead' = ListHead
        OBVIOUS
    <2>2. \A f \in Entries \ Listed' : info'[f] = Zeroed
        BY <1>1, <1>6 DEF Core, CoreType
    <2>3. registered' \subseteq Registration
        BY <1>4 DEF Core, CoreType
    <2>4. QED
        BY <1>5, <1>6, <1>8, <2>1, <2>2, <2>3 DEF Core, CoreType
<1>11. NoteInv'
    <2>1. ASSUME NEW s \in registered'
          PROVE  /\ s.by \in Listed' /\ info'[s.by].hHandleNotification = s
                 /\ info'[s.by].hDevice = s.handle /\ info'[s.by].DevicePath = s.device
        <3>1. CASE s = note /\ note # Null
            BY <3>1, <1>1, <1>3, <1>6
        <3>2. CASE s \in registered \ {r}
            <4>1. /\ s.by \in Listed /\ info[s.by].hHandleNotification = s
                  /\ info[s.by].hDevice = s.handle /\ info[s.by].DevicePath = s.device
                BY <3>2 DEF Core, NoteInv
            <4>2. s.by # e
                BY <3>2, <4>1, <1>1
            <4>3. QED
                BY <4>1, <4>2, <1>1, <1>9
        <3>3. QED
            BY <3>1, <3>2, <1>4
    <2>2. ASSUME NEW f \in Listed'
          PROVE  /\ info'[f].DevicePath \in Devices
                 /\ info'[f].hHandleNotification # Null =>
                       /\ info'[f].hHandleNotification \in registered'
                       /\ info'[f].hHandleNotification.by = f
        <3>1. CASE f = e
            BY <3>1, <1>1, <1>4, <1>6
        <3>2. CASE f # e
            <4>1. f \in Listed /\ info'[f] = info[f]
                BY <3>2, <1>1, <1>9
            <4>2. /\ info[f].DevicePath \in Devices
                  /\ info[f].hHandleNotification # Null =>
                        /\ info[f].hHandleNotification \in registered
                        /\ info[f].hHandleNotification.by = f
                BY <4>1 DEF Core, NoteInv
            <4>3. info[f].hHandleNotification # r
                BY <3>2, <4>1, <1>1
            <4>4. QED
                BY <4>1, <4>2, <4>3, <1>4
        <3>3. QED
            BY <3>1, <3>2
    <2>3. QED
        BY <2>1, <2>2 DEF NoteInv
<1>12. RemovalInv'
    BY <1>5 DEF Core, RemovalInv
<1>13. OpenInv'
    <2>1. \A g, k \in Handles : opens'[g] \in Devices /\ opens'[g] = opens'[k] => g = k
        BY <1>2, <1>8 DEF Core, OpenInv, ControlHandlesOwned
    <2>2. \A f \in Listed : info'[f].hControlDevice = info[f].hControlDevice
        BY <1>6, <1>9
    <2>3. \A f \in Listed : info[f].hControlDevice \in Handles => info[f].hControlDevice # h
        BY <1>2 DEF Core, OpenInv, ControlHandlesOwned
    <2>4. ASSUME NEW f \in Listed', info'[f].hControlDevice \in Handles
          PROVE  /\ opens'[info'[f].hControlDevice] = Control
                 /\ \A g \in Listed' : info'[g].hControlDevice = info'[f].hControlDevice
                        => g = f
        <3>1. /\ f \in Listed /\ info'[f].hControlDevice = info[f].hControlDevice
              /\ info[f].hControlDevice # h
            BY <1>1, <2>2, <2>3, <2>4
        <3>2. /\ opens[info[f].hControlDevice] = Control
              /\ \A g \in Listed : info[g].hControlDevice = info[f].hControlDevice => g = f
            BY <3>1, <2>4 DEF Core, OpenInv, ControlHandlesOwned
        <3>3. QED
            BY <3>1, <3>2, <2>2, <2>4, <1>1, <1>8
    <2>5. QED
        BY <2>1, <2>4 DEF OpenInv, ControlHandlesOwned
<1>14. HandlesOwned'
    <2> SUFFICES ASSUME NEW f \in Listed', info'[f].hDevice \in Handles
                 PROVE  /\ opens'[info'[f].hDevice] = info'[f].DevicePath
                        /\ \A g \in Listed' : info'[g].hDevice = info'[f].hDevice => g = f
        BY DEF HandlesOwned
    <2>1. CASE f = e
        BY <2>1, <1>1, <1>6, <1>8, <1>9, <1>2
    <2>2. CASE f # e
        <3>1. /\ f \in Listed \ Waiting /\ info'[f] = info[f]
              /\ info[f].hDevice # h
            BY <2>2, <1>1, <1>9
        <3>2. opens'[info'[f].hDevice] = info'[f].DevicePath
            <4>1. opens[info[f].hDevice] = info[f].DevicePath /\ info[f].hDevice \in Handles
                BY <3>1 DEF Core, HandlesOwned
            <4>2. QED
                BY <4>1, <3>1, <1>8
        <3>3. ASSUME NEW g \in Listed', info'[g].hDevice = info'[f].hDevice
              PROVE  g = f
            <4>1. g # e
                BY <3>1, <3>3, <1>6
            <4>2. g \in Listed \ Waiting /\ info'[g] = info[g]
                BY <4>1, <1>1, <1>9
            <4>3. QED
                BY <3>1, <3>3, <4>2 DEF Core, HandlesOwned
        <3>4. QED
            BY <3>2, <3>3
    <2>3. QED
        BY <2>1, <2>2
<1>15. NoDeviceHandleLeaks'
    <2> SUFFICES ASSUME NEW g \in Handles, opens'[g] \in Devices
                 PROVE  \E f \in Listed' : info'[f].hDevice = g
        BY <1>7 DEF NoDeviceHandleLeaks
    <2>1. CASE g = h
        BY <2>1, <1>1, <1>6
    <2>2. CASE g # h
        <3>1. PICK f \in Listed : info[f].hDevice = g /\ f \notin Waiting
            BY <2>2, <1>8 DEF Core, NoDeviceHandleLeaks
        <3>2. QED
            BY <3>1, <1>1, <1>9
    <2>3. QED
        BY <2>1, <2>2
<1>16. OrderInv'
    <2> SUFFICES ASSUME NEW a \in Listed', NEW b \in Listed', Before(ListHead, a, b),
                        info'[a].hDevice \in Handles, info'[a].hDevice = info'[b].hDevice
                 PROVE  FALSE
        BY DEF OrderInv
    <2>1. a # b /\ a \in Listed /\ b \in Listed
        BY BeforeListed
    <2>2. CASE a = e
        BY <2>1, <2>2, <1>6, <1>9
    <2>3. CASE b = e
        BY <2>1, <2>3, <1>6, <1>9
    <2>4. CASE a # e /\ b # e
        <3>1. info'[a] = info[a] /\ info'[b] = info[b] /\ a \notin Waiting
            BY <2>1, <2>4, <1>9
        <3>2. QED
            BY <2>1, <3>1 DEF Core, OrderInv
    <2>5. QED
        BY <2>2, <2>3, <2>4
<1>17. QED
    BY <1>10, <1>11, <1>12, <1>13, <1>14, <1>15, <1>16 DEF Core

LEMMA OpenControlKeeps ==
    ASSUME Core, NEW e \in Listed, OpenControl(e),
           UNCHANGED <<ListHead, registered, removal>>
    PROVE  Core'
<1>1. CASE UNCHANGED <<opens, info>>
    BY <1>1 DEF Core, CoreType, NoteInv, RemovalInv, OpenInv, ControlHandlesOwned, HandlesOwned, OfDevice,
                NoDeviceHandleLeaks, OrderInv, Listed, Waiting
<1>2. CASE \E h \in CreateFile(Control) :
               /\ opens' = Opened(opens, h, Control)
               /\ info' = [info EXCEPT ![e].hControlDevice = h]
    <2>1. PICK h \in CreateFile(Control) :
              /\ opens' = Opened(opens, h, Control)
              /\ info' = [info EXCEPT ![e].hControlDevice = h]
        BY <1>2
    <2>2. h \in Handles \cup {Invalid} /\ (h \in Handles => opens[h] = Null)
        BY DEF CreateFile
    <2>3. /\ opens' \in [Handles -> Devices \cup {Control, Null}]
          /\ h \in Handles => opens'[h] = Control
          /\ \A g \in Handles \ {h} : opens'[g] = opens[g]
        BY <2>1, <2>2 DEF Opened, Core, CoreType
    <2>4. /\ info' \in [Entries -> DEVICE_INFO]
          /\ \A f \in Entries : /\ info'[f].hDevice = info[f].hDevice
                                /\ info'[f].hHandleNotification = info[f].hHandleNotification
                                /\ info'[f].DevicePath = info[f].DevicePath
          /\ \A f \in Entries \ {e} : info'[f] = info[f]
          /\ info'[e].hControlDevice = h
        <3>1. info \in [Entries -> DEVICE_INFO] /\ e \in Entries
            BY EntryTypes DEF Core, CoreType
        <3>2. h \in HandleValue
            BY <2>2 DEF HandleValue
        <3>3. QED
            BY <2>1, <3>1, <3>2 DEF DEVICE_INFO
    <2>5. Listed' = Listed /\ Waiting' = Waiting
        <3>1. Listed' = Listed
            BY DEF Listed
        <3>2. QED
            BY <3>1, <2>4, EntryTypes DEF Waiting
    <2>6. CoreType'
        BY <2>3, <2>4, <2>5, EntryTypes DEF Core, CoreType
    <2>7. NoteInv' /\ RemovalInv'
        BY <2>4, <2>5, EntryTypes DEF Core, NoteInv, RemovalInv, OfDevice
    <2>8. OpenInv'
        <3>1. \A f \in Listed : info[f].hControlDevice \in Handles => info[f].hControlDevice # h
            BY <2>2 DEF Core, OpenInv, ControlHandlesOwned
        <3>2. \A g, k \in Handles : opens'[g] \in Devices /\ opens'[g] = opens'[k] => g = k
            BY <2>2, <2>3 DEF Core, OpenInv, ControlHandlesOwned
        <3>3. ASSUME NEW f \in Listed', info'[f].hControlDevice \in Handles
              PROVE  /\ opens'[info'[f].hControlDevice] = Control
                     /\ \A g \in Listed' : info'[g].hControlDevice = info'[f].hControlDevice
                            => g = f
            <4>1. CASE f = e
                BY <4>1, <3>1, <3>3, <2>3, <2>4, <2>5, EntryTypes
            <4>2. CASE f # e
                <5>1. f \in Listed /\ f \in Entries /\ info'[f] = info[f]
                    BY <4>2, <3>3, <2>4, <2>5, EntryTypes
                <5>2. /\ opens[info[f].hControlDevice] = Control
                      /\ \A g \in Listed : info[g].hControlDevice = info[f].hControlDevice
                            => g = f
                    BY <3>3, <5>1 DEF Core, OpenInv, ControlHandlesOwned
                <5>3. info[f].hControlDevice # h
                    BY <3>1, <3>3, <5>1
                <5>4. ASSUME NEW g \in Listed', info'[g].hControlDevice = info'[f].hControlDevice
                      PROVE  g = f
                    <6>1. g # e
                        BY <2>4, <5>1, <5>3, <5>4
                    <6>2. g \in Listed /\ info'[g] = info[g]
                        BY <6>1, <2>4, <2>5, EntryTypes
                    <6>3. QED
                        BY <5>1, <5>2, <5>4, <6>2
                <5>5. QED
                    BY <3>3, <5>1, <5>2, <5>3, <5>4, <2>3
            <4>3. QED
                BY <4>1, <4>2
        <3>4. QED
            BY <3>2, <3>3 DEF OpenInv, ControlHandlesOwned
    <2>9. HandlesOwned'
        <3>1. \A f \in Listed \ Waiting : info[f].hDevice \in Handles => info[f].hDevice # h
            BY <2>2 DEF Core, HandlesOwned, NoteInv
        <3>2. QED
            BY <3>1, <2>3, <2>4, <2>5, EntryTypes DEF Core, HandlesOwned
    <2>10. NoDeviceHandleLeaks' /\ OrderInv'
        BY <2>2, <2>3, <2>4, <2>5, EntryTypes DEF Core, NoDeviceHandleLeaks, OrderInv
    <2>11. QED
        BY <2>6, <2>7, <2>8, <2>9, <2>10 DEF Core
<1>3. QED
    BY <1>1, <1>2 DEF OpenControl

LEMMA QueryRemoveFailedKeeps ==
    ASSUME Exclusive, Core, NEW r \in removal.todo, removal.phase = "failed",
           QueryRemoveFailed(r.by), Forget({r})
    PROVE  Core'
<1>1. info[r.by].DevicePath = r.device /\ Waiting = {r.by}
    BY NoteOf DEF Core, RemovalInv
<1>2. PICK h \in CreateFile(r.device) :
          /\ opens' = Opened(opens, h, r.device)
          /\ \/ /\ h = Invalid
                /\ registered' = Unregistered({r.by})
                /\ Free(r.by)
             \/ /\ h # Invalid
                /\ \E note \in RegisterDeviceNotification(h, r.device, r.by) :
                      /\ registered' = Unregistered({r.by}) \cup ({note} \ {Null})
                      /\ info' = [info EXCEPT ![r.by].hDevice = h,
                                              ![r.by].hHandleNotification = note]
                /\ UNCHANGED ListHead
    BY <1>1 DEF QueryRemoveFailed
<1>3. CASE h = Invalid
    <2>1. opens' = opens /\ r.by \in Waiting
        BY <1>1, <1>2, <1>3 DEF Opened
    <2>2. registered' = Unregistered({r.by}) /\ Free(r.by)
        BY <1>2, <1>3
    <2>3. QED
        BY <2>1, <2>2, EntryGone
<1>4. CASE h # Invalid
    <2>1. PICK note \in RegisterDeviceNotification(h, r.device, r.by) :
              /\ registered' = Unregistered({r.by}) \cup ({note} \ {Null})
              /\ info' = [info EXCEPT ![r.by].hDevice = h, ![r.by].hHandleNotification = note]
              /\ UNCHANGED ListHead
        BY <1>2, <1>4
    <2>2. QED
        BY <1>2, <1>4, <2>1, ReopenKeeps
<1>5. QED
    BY <1>3, <1>4

LEMMA MessageKeeps ==
    ASSUME Exclusive, Core, NEW r \in removal.todo,
           \/ DeviceQueryRemove(r)
           \/ DeviceQueryRemoveFailed(r)
           \/ DeviceRemovePending(r)
           \/ DeviceRemoveComplete(r)
    PROVE  Core'
<1>1. Match(r.handle) = {r.by} /\ ~ NoMatch(r.handle)
    BY FindsEntry DEF NoMatch
<1>2. CASE DeviceQueryRemove(r)
    <2>1. /\ removal.phase = "query" /\ QueryRemove(r.by)
          /\ removal' = [removal EXCEPT !.todo = @ \ {r}, !.queried = @ \cup {r}]
        BY <1>1, <1>2 DEF DeviceQueryRemove, DeviceMessage
    <2>2. QED
        BY <2>1, QueryRemoveKeeps
<1>3. CASE DeviceQueryRemoveFailed(r)
    <2>1. removal.phase = "failed" /\ QueryRemoveFailed(r.by) /\ Forget({r})
        BY <1>1, <1>3 DEF DeviceQueryRemoveFailed, DeviceMessage
    <2>2. QED
        BY <2>1, QueryRemoveFailedKeeps
<1>4. CASE DeviceRemovePending(r)
    <2>1. removal.phase = "pending" /\ RemovePending(r.by) /\ Forget({r})
        BY <1>1, <1>4 DEF DeviceRemovePending, DeviceMessage
    <2>2. r.by \in Waiting
        BY <2>1, NoteOf DEF Core, RemovalInv
    <2>3. QED
        BY <2>1, <2>2, EntryGone DEF RemovePending
<1>5. CASE DeviceRemoveComplete(r)
    <2>1. removal.phase = "complete" /\ RemoveComplete(r.by) /\ Forget({r})
        BY <1>1, <1>5 DEF DeviceRemoveComplete, DeviceMessage
    <2>2. r.by \notin Waiting
        BY <2>1 DEF Core, RemovalInv, Waiting
    <2>3. QED
        BY <2>1, <2>2, EntryGone DEF RemoveComplete
<1>6. QED
    BY <1>2, <1>3, <1>4, <1>5

----------------------------------------------------------------------------
(* Plug and play *)

\* All that plug and play has to respect is RemovalInv, and that who waits and who
\* does not stays the same.
LEMMA PlugAndPlayKeeps ==
    ASSUME Core, UNCHANGED <<ListHead, info, opens, registered>>,
           removal' \in [phase : Phase, device : Devices \cup {Null},
                         todo : SUBSET Registration, queried : SUBSET Registration],
           removal'.queried = removal.queried, RemovalInv'
    PROVE  Core'
<1>1. Listed' = Listed /\ Waiting' = Waiting
    BY DEF Listed, Waiting
<1>2. QED
    BY <1>1 DEF Core, CoreType, NoteInv, OpenInv, ControlHandlesOwned, HandlesOwned, NoDeviceHandleLeaks, OrderInv

LEMMA PlugAndPlayStep ==
    ASSUME Core, PlugAndPlay
    PROVE  Core'
<1>1. /\ UNCHANGED <<ListHead, info, opens, registered>>
      /\ removal \in [phase : Phase, device : Devices \cup {Null},
                      todo : SUBSET Registration, queried : SUBSET Registration]
      /\ registered \subseteq Registration
    BY DEF PlugAndPlay, Core, CoreType
<1>2. ASSUME NEW d \in Devices, Arrive(d) PROVE Core'
    <2>1. removal' = removal
        BY <1>2 DEF Arrive
    <2>2. RemovalInv'
        BY <1>1, <2>1 DEF Core, RemovalInv, OfDevice
    <2>3. QED
        BY <1>1, <2>1, <2>2, PlugAndPlayKeeps
<1>3. ASSUME NEW d \in Devices, RequestRemoval(d) PROVE Core'
    <2>1. removal.queried = {}
        BY <1>3 DEF RequestRemoval, Core, RemovalInv
    <2>2. removal' = [phase |-> "query", device |-> d, todo |-> OfDevice(d), queried |-> {}]
        BY <1>3 DEF RequestRemoval, BeginPhase
    <2>3. RemovalInv'
        BY <1>1, <2>1, <2>2, OneNote DEF RemovalInv, OfDevice
    <2>4. QED
        BY <1>1, <2>1, <2>2, <2>3, PlugAndPlayKeeps DEF Phase, OfDevice
<1>4. ASSUME NEW d \in Devices, SurpriseRemoval(d) PROVE Core'
    <2>1. removal.queried = {}
        BY <1>4 DEF SurpriseRemoval, Core, RemovalInv
    <2>2. removal' = [phase |-> "complete", device |-> d, todo |-> OfDevice(d),
                      queried |-> {}]
        BY <1>4 DEF SurpriseRemoval, BeginPhase
    <2>3. RemovalInv'
        BY <1>1, <2>1, <2>2, OneNote DEF RemovalInv, OfDevice
    <2>4. QED
        BY <1>1, <2>1, <2>2, <2>3, PlugAndPlayKeeps DEF Phase, OfDevice
<1>5. CASE QueryAnswered
    <2>1. PICK p \in {"failed", "pending"} :
              removal' = [phase |-> p, device |-> removal.device,
                          todo |-> removal.queried, queried |-> removal.queried]
        BY <1>5 DEF QueryAnswered, BeginPhase
    <2>2. RemovalInv'
        BY <1>1, <2>1 DEF Core, RemovalInv, OfDevice
    <2>3. QED
        BY <1>1, <2>1, <2>2, PlugAndPlayKeeps DEF Phase
<1>6. CASE RemovalStays
    <2>1. removal' = NoRemoval /\ removal.queried = {}
        BY <1>6 DEF RemovalStays, Core, RemovalInv
    <2>2. RemovalInv'
        BY <2>1 DEF RemovalInv, NoRemoval
    <2>3. QED
        BY <1>1, <2>1, <2>2, PlugAndPlayKeeps DEF Phase, NoRemoval
<1>7. CASE RemovalGoes
    <2>1. removal.queried = {}
        BY <1>7 DEF RemovalGoes, Core, RemovalInv
    <2>2. removal' = [phase |-> "complete", device |-> removal.device,
                      todo |-> OfDevice(removal.device), queried |-> {}]
        BY <1>7 DEF RemovalGoes, BeginPhase
    <2>3. RemovalInv'
        BY <1>1, <2>1, <2>2, OneNote DEF RemovalInv, OfDevice
    <2>4. QED
        BY <1>1, <2>1, <2>2, <2>3, PlugAndPlayKeeps DEF Phase, OfDevice
<1>8. QED
    BY <1>2, <1>3, <1>4, <1>5, <1>6, <1>7 DEF PlugAndPlay

----------------------------------------------------------------------------
(* The invariant *)

LEMMA EmptyCore ==
    ASSUME ListHead' = <<>>, info' = [e \in Entries |-> Zeroed],
           opens' = [h \in Handles |-> Null], registered' = {}, removal' = NoRemoval
    PROVE  Core'
<1>1. Listed' = {} /\ DOMAIN ListHead' = {}
    BY DEF Listed, ToSet
<1>2. CoreType'
    <2>1. ListHead' \in Seq(Entries) /\ IsInjective(ListHead')
        BY DEF IsInjective
    <2>2. info' \in [Entries -> DEVICE_INFO]
        BY DEF DEVICE_INFO, Zeroed, HandleValue
    <2>3. QED
        BY <1>1, <2>1, <2>2 DEF CoreType, NoRemoval, Phase
<1>3. NoteInv' /\ RemovalInv' /\ HandlesOwned' /\ OrderInv'
    BY <1>1 DEF NoteInv, RemovalInv, HandlesOwned, OrderInv, NoRemoval
<1>4. OpenInv' /\ NoDeviceHandleLeaks'
    BY <1>1 DEF OpenInv, ControlHandlesOwned, NoDeviceHandleLeaks
<1>5. QED
    BY <1>2, <1>3, <1>4 DEF Core

LEMMA CoreUnchanged ==
    ASSUME Core, UNCHANGED core
    PROVE  Core'
<1>1. Listed' = Listed /\ Waiting' = Waiting
    BY DEF core, Listed, Waiting
<1>2. QED
    BY <1>1 DEF core, Core, CoreType, NoteInv, RemovalInv, OpenInv, ControlHandlesOwned, OfDevice, HandlesOwned,
                NoDeviceHandleLeaks, OrderInv

LEMMA CoreStep ==
    ASSUME Exclusive, Inv, [Next]_vars
    PROVE  Core'
<1> USE DEF Inv, AppInv
<1>1. CASE UNCHANGED core
    BY <1>1, CoreUnchanged
<1>2. ASSUME NEW d \in Devices, EnumDevice(d) PROVE Core'
    BY <1>2, AddDeviceKeeps DEF EnumDevice, pnp
<1>3. CASE EnumError
    BY <1>3, CleanupKeeps DEF EnumError
<1>4. ASSUME NEW d \in Devices, DeviceArrival(d) PROVE Core'
    <2>1. CASE \E described \in BOOLEAN : AddDevice(d, described)
        BY <1>4, <2>1, AddDeviceKeeps DEF DeviceArrival
    <2>2. CASE UNCHANGED <<ListHead, info, opens, registered>>
        <3>1. UNCHANGED core
            BY <1>4, <2>2 DEF DeviceArrival, core
        <3>2. QED
            BY <3>1, CoreUnchanged
    <2>3. QED
        BY <1>4, <2>1, <2>2 DEF DeviceArrival
<1>5. ASSUME NEW r \in removal.todo,
             \/ DeviceQueryRemove(r)
             \/ DeviceQueryRemoveFailed(r)
             \/ DeviceRemovePending(r)
             \/ DeviceRemoveComplete(r)
      PROVE  Core'
    BY <1>5, MessageKeeps
<1>6. CASE CommandOpen \/ CommandClose \/ Close
    BY <1>6, CleanupKeeps DEF CommandOpen, CommandClose, Close
<1>7. CASE SendIoctl
    <2>1. PICK i \in toSend : OpenControl(ListHead[i])
        BY <1>7 DEF SendIoctl
    <2>2. ListHead[i] \in Listed
        BY EntryTypes
    <2>3. QED
        BY <1>7, <2>1, <2>2, OpenControlKeeps DEF SendIoctl, pnp
<1>8. CASE ProcessEnd
    BY <1>8, EmptyCore DEF ProcessEnd
<1>9. CASE PlugAndPlay
    BY <1>9, PlugAndPlayStep
<1>10. CASE Create \/ EnumDone \/ CommandIoctl \/ CommandExit \/ IoctlDone
    <2>1. UNCHANGED core
        BY <1>10 DEF Create, EnumDone, CommandIoctl, CommandExit, IoctlDone, core, pnp
    <2>2. QED
        BY <2>1, CoreUnchanged
<1>11. CASE UNCHANGED vars
    <2>1. UNCHANGED core
        BY <1>11 DEF vars, core, pnp
    <2>2. QED
        BY <2>1, CoreUnchanged
<1>12. CASE Message
    BY <1>4, <1>5, <1>12 DEF Message
<1>13. CASE Command
    BY <1>6, <1>10, <1>13 DEF Command
<1>14. QED
    BY <1>2, <1>3, <1>7, <1>8, <1>9, <1>10, <1>11, <1>12, <1>13 DEF Next

LEMMA AppStep ==
    ASSUME Inv, [Next]_vars
    PROVE  AppInv'
<1> USE DEF Inv, AppInv, AppPC
<1>1. CASE Create \/ EnumDone \/ CommandIoctl \/ CommandExit \/ IoctlDone
    BY <1>1 DEF Create, BeginEnum, EnumDone, CommandIoctl, CommandExit, IoctlDone, pnp
<1>2. ASSUME NEW d \in Devices, EnumDevice(d) PROVE AppInv'
    BY <1>2 DEF EnumDevice, pnp
<1>3. CASE EnumError
    BY <1>3 DEF EnumError
<1>4. ASSUME NEW d \in Devices, DeviceArrival(d) PROVE AppInv'
    BY <1>4 DEF DeviceArrival, program
<1>5. ASSUME NEW r \in removal.todo,
             \/ DeviceQueryRemove(r)
             \/ DeviceQueryRemoveFailed(r)
             \/ DeviceRemovePending(r)
             \/ DeviceRemoveComplete(r)
      PROVE  AppInv'
    BY <1>5 DEF DeviceQueryRemove, DeviceQueryRemoveFailed, DeviceRemovePending,
                DeviceRemoveComplete, DeviceMessage, program
<1>6. CASE CommandOpen \/ CommandClose \/ Close
    BY <1>6 DEF CommandOpen, CommandClose, Close, BeginEnum, program
<1>7. CASE SendIoctl
    BY <1>7 DEF SendIoctl, pnp
<1>8. CASE ProcessEnd
    BY <1>8 DEF ProcessEnd
<1>9. CASE PlugAndPlay
    <2>1. UNCHANGED <<program, ListHead>>
        BY <1>9 DEF PlugAndPlay
    <2>2. present' \subseteq Devices /\ arrivals' \subseteq Devices
        BY <1>9 DEF PlugAndPlay, Arrive, RequestRemoval, SurpriseRemoval, QueryAnswered,
                    RemovalStays, RemovalGoes
    <2>3. QED
        BY <2>1, <2>2 DEF program
<1>10. CASE UNCHANGED vars
    BY <1>10 DEF vars, program, pnp
<1>11. CASE Message
    BY <1>4, <1>5, <1>11 DEF Message
<1>12. CASE Command
    BY <1>1, <1>6, <1>12 DEF Command
<1>13. QED
    BY <1>1, <1>2, <1>3, <1>7, <1>8, <1>9, <1>10, <1>11, <1>12 DEF Next

LEMMA InitInv ==
    ASSUME Init
    PROVE  Inv
<1>1. Listed = {} /\ DOMAIN ListHead = {}
    BY DEF Init, Listed, ToSet
<1>2. CoreType
    <2>1. ListHead \in Seq(Entries) /\ IsInjective(ListHead)
        BY DEF Init, IsInjective
    <2>2. info \in [Entries -> DEVICE_INFO]
        BY DEF Init, DEVICE_INFO, Zeroed, HandleValue
    <2>3. QED
        BY <1>1, <2>1, <2>2 DEF Init, CoreType, NoRemoval, Phase
<1>3. NoteInv /\ RemovalInv /\ HandlesOwned /\ OrderInv
    BY <1>1 DEF Init, NoteInv, RemovalInv, HandlesOwned, OrderInv, NoRemoval
<1>4. OpenInv /\ NoDeviceHandleLeaks
    BY <1>1 DEF Init, OpenInv, ControlHandlesOwned, NoDeviceHandleLeaks
<1>5. AppInv
    BY DEF Init, AppInv, AppPC
<1>6. QED
    BY <1>2, <1>3, <1>4, <1>5 DEF Inv, Core

LEMMA Invariance ==
    ASSUME Exclusive
    PROVE  Spec => []Inv
<1>1. Init => Inv
    BY InitInv
<1>2. Inv /\ [Next]_vars => Inv'
    BY CoreStep, AppStep DEF Inv
<1>3. QED
    BY <1>1, <1>2, PTL DEF Spec

----------------------------------------------------------------------------
(* The theorems *)

\* Whatever arrives, goes and is asked for (testapp.c), the list links no block
\* twice, and a block that is not linked is free memory.
THEOREM TypeCorrect ==
    ASSUME Exclusive
    PROVE  Spec => []TypeOK
<1>1. Inv => TypeOK
    BY DEF Inv, Core, AppInv, CoreType, TypeOK
<1>2. QED
    BY <1>1, Invariance, PTL

\* An entry that does not wait for the outcome of a query owns its handle, so
\* CloseDeviceHandles never closes one that belongs to another entry.
THEOREM EntriesOwnHandles ==
    ASSUME Exclusive
    PROVE  Spec => []HandlesOwned
<1>1. Inv => HandlesOwned
    BY DEF Inv, Core
<1>2. QED
    BY <1>1, Invariance, PTL

\* Every open handle to a device is in an entry that will close it.
THEOREM DeviceHandlesKept ==
    ASSUME Exclusive
    PROVE  Spec => []NoDeviceHandleLeaks
<1>1. Inv => NoDeviceHandleLeaks
    BY DEF Inv, Core
<1>2. QED
    BY <1>1, Invariance, PTL

\* HandleDeviceChange finds the entry a message is about, although the value in
\* the message may be closed and belong to a younger entry as well.
THEOREM MessagesFindEntries ==
    ASSUME Exclusive
    PROVE  Spec => []NotificationFindsEntry
<1>1. Inv => NotificationFindsEntry
    BY FindsEntry DEF Inv, NotificationFindsEntry
<1>2. QED
    BY <1>1, Invariance, PTL

\* CloseDeviceHandles closes no handle of the control device but the entry's own.
THEOREM EntriesOwnControlHandles ==
    ASSUME Exclusive
    PROVE  Spec => []ControlHandlesOwned
<1>1. Inv => ControlHandlesOwned
    BY DEF Inv, Core, OpenInv
<1>2. QED
    BY <1>1, Invariance, PTL

----------------------------------------------------------------------------
(* The control device, and the inverted test before it is opened           *)

\* All a step can do to the control device of an entry that stays in the list is to
\* give it up, or to open it where it had not been given up.
LEMMA ControlStep ==
    ASSUME Inv, [Next]_vars, NEW e \in Listed \cap Listed'
    PROVE  \/ info'[e].hControlDevice \in {info[e].hControlDevice, Invalid}
           \/ /\ info[e].hControlDevice # Invalid
              /\ OpenControl(e) /\ UNCHANGED ListHead
<1> USE DEF Inv, Core, CoreType
<1>e. e \in Entries
    BY EntryTypes
<1>1. ASSUME NEW d \in Devices, NEW described, AddDevice(d, described)
      PROVE  info'[e] = info[e]
    <2>1. PICK f \in Entries \ Listed : \E x : info' = [info EXCEPT ![f] = x]
        BY <1>1 DEF AddDevice
    <2>2. QED
        BY <1>e, <2>1
<1>2. ~Cleanup
    BY DEF Cleanup, Listed, ToSet
<1>3. ASSUME NEW f, Free(f)
      PROVE  info'[e] = info[e]
    <2>1. f \in Listed /\ Listed' = Listed \ {f}
        BY <1>3, Unlinked DEF Free
    <2>2. QED
        BY <1>3, <1>e, <2>1 DEF Free
<1>4. CASE Message
    <2>1. CASE \E d \in Devices : DeviceArrival(d)
        BY <1>1, <2>1 DEF DeviceArrival
    <2>2. ASSUME NEW r \in removal.todo,
                 \/ DeviceQueryRemove(r) \/ DeviceQueryRemoveFailed(r)
                 \/ DeviceRemovePending(r) \/ DeviceRemoveComplete(r)
          PROVE  info'[e].hControlDevice \in {info[e].hControlDevice, Invalid}
        <3>1. ASSUME NEW f, QueryRemove(f)
              PROVE  info'[e].hControlDevice \in {info[e].hControlDevice, Invalid}
            BY <1>e, <3>1 DEF QueryRemove, DEVICE_INFO
        <3>2. ASSUME NEW f, QueryRemoveFailed(f)
              PROVE  info'[e].hControlDevice = info[e].hControlDevice
            <4>1. CASE Free(f)
                BY <1>3, <4>1
            <4>2. CASE ~Free(f)
                <5>1. \E h, note : info' = [info EXCEPT ![f].hDevice = h,
                                                        ![f].hHandleNotification = note]
                    BY <3>2, <4>2 DEF QueryRemoveFailed
                <5>2. QED
                    BY <1>e, <5>1 DEF DEVICE_INFO
            <4>3. QED
                BY <4>1, <4>2
        <3>3. ASSUME NEW f, RemovePending(f) \/ RemoveComplete(f)
              PROVE  info'[e] = info[e]
            BY <1>3, <3>3 DEF RemovePending, RemoveComplete
        <3>4. QED
            BY <2>2, <3>1, <3>2, <3>3
               DEF DeviceQueryRemove, DeviceQueryRemoveFailed, DeviceRemovePending,
                   DeviceRemoveComplete, NoMatch
    <2>3. QED
        BY <1>4, <2>1, <2>2 DEF Message
<1>5. CASE SendIoctl
    <2>1. PICK i \in toSend : OpenControl(ListHead[i])
        BY <1>5 DEF SendIoctl
    <2>2. UNCHANGED ListHead
        BY <1>5 DEF SendIoctl
    <2>3. CASE ListHead[i] = e
        BY <2>1, <2>2, <2>3 DEF OpenControl
    <2>4. CASE ListHead[i] # e
        BY <1>e, <2>1, <2>4 DEF OpenControl
    <2>5. QED
        BY <2>3, <2>4
<1>6. CASE ProcessEnd
    BY <1>6 DEF ProcessEnd, Listed, ToSet
<1>7. CASE \E d \in Devices : EnumDevice(d)
    BY <1>1, <1>7 DEF EnumDevice
<1>8. CASE EnumError \/ CommandOpen \/ CommandClose \/ Close
    BY <1>2, <1>8 DEF EnumError, CommandOpen, CommandClose, Close
<1>9. CASE \/ UNCHANGED vars \/ Create \/ EnumDone \/ IoctlDone \/ PlugAndPlay
           \/ CommandIoctl \/ CommandExit
    <2>1. UNCHANGED info
        BY <1>9 DEF vars, Create, EnumDone, IoctlDone, PlugAndPlay, CommandIoctl,
                    CommandExit
    <2>2. QED
        BY <2>1
<1>10. QED
    BY <1>4, <1>5, <1>6, <1>7, <1>8, <1>9 DEF Next, Command

\* An entry whose control device was closed with its device, or could not be opened,
\* never opens it again: testapp.c:788 tests for the opposite of what it says.
THEOREM ControlStaysClosed ==
    ASSUME Exclusive
    PROVE  Spec => ControlNotTriedAgain
<1>1. Inv /\ [Next]_vars =>
          \A e \in Listed \cap Listed' :
              info[e].hControlDevice = Invalid => info'[e].hControlDevice = Invalid
    BY ControlStep
<1>2. QED
    BY <1>1, Invariance, PTL DEF Spec, ControlNotTriedAgain

\* A handle of the control device that the next command replaces stays open, and no
\* entry has it any more: nothing but the end of the program closes it on purpose.
THEOREM ReplacedIsLost ==
    ASSUME Exclusive
    PROVE  Spec => ReplacedControlIsLost
<1>1. ASSUME Inv, [Next]_vars, NEW e \in Listed \cap Listed', NEW h \in Handles,
             info[e].hControlDevice = h, info'[e].hControlDevice \in Handles \ {h}
      PROVE  opens'[h] = Control /\ \A f \in Listed' : info'[f].hControlDevice # h
    <2>1. OpenControl(e) /\ UNCHANGED ListHead
        BY <1>1, ControlStep
    <2>2. /\ opens[h] = Control
          /\ \A f \in Listed : info[f].hControlDevice = h => f = e
        BY <1>1 DEF Inv, Core, OpenInv, ControlHandlesOwned
    <2>3. PICK g \in Handles : /\ opens' = Opened(opens, g, Control)
                               /\ info' = [info EXCEPT ![e].hControlDevice = g]
        BY <1>1, <2>1 DEF OpenControl, CreateFile, Inv, Core, CoreType, DEVICE_INFO
    <2>4. /\ e \in Entries /\ info \in [Entries -> DEVICE_INFO]
          /\ Listed' = Listed /\ Listed \subseteq Entries
        <3>1. Core
            BY <1>1 DEF Inv
        <3>2. Listed' = Listed
            BY <2>1 DEF Listed
        <3>3. QED
            BY <3>1, <3>2, EntryTypes DEF Core, CoreType
    <2>5. info'[e].hControlDevice = g
        BY <2>3, <2>4 DEF DEVICE_INFO
    <2>6. \A f \in Entries \ {e} : info'[f] = info[f]
        BY <2>3, <2>4
    <2>7. opens'[h] = Control
        BY <1>1, <2>2, <2>3, <2>5 DEF Opened, Inv, Core, CoreType
    <2>8. QED
        BY <1>1, <2>2, <2>4, <2>5, <2>6, <2>7
<1>2. Inv /\ [Next]_vars =>
          \A e \in Listed \cap Listed', h \in Handles :
              info[e].hControlDevice = h /\ info'[e].hControlDevice \in Handles \ {h} =>
                  /\ opens'[h] = Control
                  /\ \A f \in Listed' : info'[f].hControlDevice # h
    BY <1>1
<1>3. QED
    BY <1>2, Invariance, PTL DEF Spec, ReplacedControlIsLost

============================================================================
