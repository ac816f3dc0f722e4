---------------------------- MODULE DeviceWatch ----------------------------
(***************************************************************************)
(* The test program (src/exe/testapp.c): a window procedure that keeps one *)
(* DEVICE_INFO per network device, with an open handle to the device and a *)
(* registration for the notifications about that handle, and follows the   *)
(* plug-and-play messages of the system.                                   *)
(*                                                                         *)
(* A message finds its DEVICE_INFO by the value of the handle it carries.  *)
(* The program closes the handle on DBT_DEVICEQUERYREMOVE, so that the     *)
(* device can go, and puts the closed value back into hDevice, to find the *)
(* entry again when the outcome is announced.  Until then the menu works,  *)
(* devices arrive, and the system hands the closed value out again.        *)
(*                                                                         *)
(* A handler runs in the one thread of the program.  EnumExistingDevices   *)
(* and the ioctl command loop over devices while plug and play goes on, so *)
(* they are one step per device; the others are one step.  A message box   *)
(* has a message loop of its own but disables the window: only device      *)
(* messages get in, and a handler that shows one uses no entry they could  *)
(* free.                                                                   *)
(*                                                                         *)
(* External, as the program uses it: handles are values the system chooses *)
(* among the free ones; device events are delivered one removal at a time, *)
(* the outcome of a query to those who were queried.                       *)
(***************************************************************************)
EXTENDS Integers, Sequences, FiniteSets, SequencesExt

CONSTANTS
    Devices,        \* network devices, each with one interface (a path)
    SaitDevices,    \* those with "saitNic Device" in their name
    Handles,        \* bound: the handle values there are
    Entries,        \* bound: the DEVICE_INFO blocks the heap can hold
    Exclusive,      \* are devices opened once at a time, as share mode 0 asks?
    Control,        \* the control device, \\.\NETVMINI
    Null,           \* NULL, in zeroed memory
    Invalid         \* INVALID_HANDLE_VALUE

ASSUME WatchAssumption ==
    /\ SaitDevices \subseteq Devices
    /\ Control \notin Devices /\ Exclusive \in BOOLEAN
    /\ Null \notin Handles /\ Invalid \notin Handles /\ Null # Invalid
    /\ Null \notin Devices /\ Null # Control

VARIABLES
    app,            \* where the program's thread is
    watching,       \* hInterfaceNotification is registered
    ListHead,       \* the entries in the order of the list
    info,           \* the DEVICE_INFO in each block
    toEnum,         \* devices EnumExistingDevices has still to look at
    toSend,         \* places in the list that the ioctl command has still to go to
    opens,          \* what each handle value refers to
    registered,     \* registrations for handle notifications
    present, arrivals,  \* devices there are; arrivals not yet announced
    removal         \* the removal plug and play is at work on

program == <<app, watching, toEnum, toSend>>
pnp == <<present, arrivals, removal>>
vars == <<program, ListHead, info, opens, registered, pnp>>

AppPC == {"created", "enumerating", "running", "ioctl", "closing", "closed"}
Phase == {"none", "query", "failed", "pending", "complete"}

\* A registration is made for a handle, and so for the device behind it.
Registration == [handle : Handles, device : Devices, by : Entries]

ASSUME NullAssumption == Null \notin Registration

HandleValue == Handles \cup {Null, Invalid}

DEVICE_INFO == [hDevice : HandleValue, hControlDevice : HandleValue,
                hHandleNotification : Registration \cup {Null},
                DeviceName : BOOLEAN,               \* is it a Sait device?
                DevicePath : Devices \cup {Null}]

\* HEAP_ZERO_MEMORY
Zeroed == [hDevice |-> Null, hControlDevice |-> Null, hHandleNotification |-> Null,
           DeviceName |-> FALSE, DevicePath |-> Null]

Listed == ToSet(ListHead)

NoRemoval == [phase |-> "none", device |-> Null, todo |-> {}, queried |-> {}]

Init ==
    /\ app = "created" /\ watching \in BOOLEAN
    /\ ListHead = <<>> /\ info = [e \in Entries |-> Zeroed]
    /\ toEnum = {} /\ toSend = {}
    /\ opens = [h \in Handles |-> Null]
    /\ registered = {}
    /\ present \in SUBSET Devices /\ arrivals = {}
    /\ removal = NoRemoval

----------------------------------------------------------------------------
(* What the system offers *)

\* The results of CreateFile, and what it does to the handle table.
CreateFile(target) ==
    {Invalid} \cup {h \in Handles :
        /\ target \in present \cup {Control}
        /\ opens[h] = Null
        /\ Exclusive /\ target \in Devices => \A g \in Handles : opens[g] # target}

Opened(table, h, target) == IF h = Invalid THEN table ELSE [table EXCEPT ![h] = target]

\* CloseHandle for each value of H; one that is closed already stays so.
Closed(H) == [h \in Handles |-> IF h \in H THEN Null ELSE opens[h]]

\* RegisterDeviceNotification fails, or returns a registration.
RegisterDeviceNotification(h, d, e) ==
    {Null, [handle |-> h, device |-> d, by |-> e]}

----------------------------------------------------------------------------
(* The list of devices *)

\* The values CloseDeviceHandles closes: the control device's only together
\* with a device's.
HandlesOf(e) ==
    IF info[e].hDevice \in Handles
    THEN {info[e].hDevice, info[e].hControlDevice} \cap Handles
    ELSE {}

\* UnregisterDeviceNotification, if there is one.
Unregistered(E) == registered \ {info[e].hHandleNotification : e \in E}

\* Who is no longer registered gets no message any more; nor does R.
Forget(R) == removal' = [removal EXCEPT
    !.todo = (@ \ R) \cap registered', !.queried = (@ \ R) \cap registered']

Unlink(e) == \E i \in DOMAIN ListHead : ListHead[i] = e /\ ListHead' = RemoveAt(ListHead, i)

\* RemoveEntryList and HeapFree.
Free(e) == Unlink(e) /\ info' = [info EXCEPT ![e] = Zeroed]

\* Mutant: InsertHeadList.
Insert_Head(e) == ListHead' = <<e>> \o ListHead

\* InsertTailList
Insert(e) == ListHead' = Append(ListHead, e)

Cleanup ==
    /\ registered' = Unregistered(Listed)
    /\ Forget({})
    /\ opens' = Closed(UNION {HandlesOf(e) : e \in Listed})
    /\ ListHead' = <<>>
    /\ info' = [e \in Entries |-> Zeroed]

\* A new entry for device d: zeroed, linked, described, opened, registered.  An
\* open that fails leaves the entry in the list without a registration.
AddDevice(d, described) ==
    \E e \in Entries \ Listed, h \in CreateFile(d) :
        /\ Insert(e)
        /\ opens' = Opened(opens, h, d)
        /\ \E note \in IF h = Invalid THEN {Null} ELSE RegisterDeviceNotification(h, d, e) :
              /\ registered' = registered \cup ({note} \ {Null})
              /\ info' = [info EXCEPT ![e] =
                    [hDevice |-> h, hControlDevice |-> Null, hHandleNotification |-> note,
                     DeviceName |-> described /\ d \in SaitDevices, DevicePath |-> d]]

----------------------------------------------------------------------------
(* EnumExistingDevices *)

\* SetupDiGetClassDevs: the devices present now.
BeginEnum == toEnum' = present /\ app' = "enumerating"

\* WM_CREATE: hInterfaceNotification is registered before the enumeration.
Create ==
    /\ app = "created"
    /\ BeginEnum
    /\ UNCHANGED <<watching, toSend, ListHead, info, opens, registered, pnp>>

EnumDevice(d) ==
    /\ app = "enumerating" /\ d \in toEnum
    /\ toEnum' = toEnum \ {d}
    /\ AddDevice(d, TRUE)
    /\ UNCHANGED <<app, watching, toSend, pnp>>

\* No details, no memory or no description: the label Error.
EnumError ==
    /\ app = "enumerating" /\ toEnum # {}
    /\ toEnum' = {} /\ app' = "running"
    /\ Cleanup
    /\ UNCHANGED <<watching, toSend, present, arrivals>>

EnumDone ==
    /\ app = "enumerating" /\ toEnum = {}
    /\ app' = "running"
    /\ UNCHANGED <<watching, toEnum, toSend, ListHead, info, opens, registered, pnp>>

----------------------------------------------------------------------------
(* HandleDeviceInterfaceChange: only DBT_DEVICEARRIVAL does anything *)

\* The allocation or the description may fail.
DeviceArrival(d) ==
    /\ app = "running" /\ watching /\ d \in arrivals
    /\ arrivals' = arrivals \ {d}
    /\ \/ \E described \in BOOLEAN : AddDevice(d, described)
       \/ UNCHANGED <<ListHead, info, opens, registered>>
    /\ UNCHANGED <<program, present, removal>>

(* HandleDeviceChange *)

\* The first entry with the handle of the message, if there is one.
Match(h) == {ListHead[i] : i \in {k \in DOMAIN ListHead :
    /\ info[ListHead[k]].hDevice = h
    /\ \A j \in 1 .. (k - 1) : info[ListHead[j]].hDevice # h}}

\* Mutant: the handle is not closed.
QueryRemove_KeepsOpen(e) ==
    UNCHANGED <<ListHead, info, opens, registered>>

\* Mutant: CloseDeviceHandles leaves the closed value in hControlDevice.
QueryRemove_KeepsControl(e) ==
    /\ opens' = Closed(HandlesOf(e))
    /\ UNCHANGED <<ListHead, info, registered>>

\* CloseDeviceHandles, and hDevice gets its closed value back.
QueryRemove(e) ==
    /\ opens' = Closed(HandlesOf(e))
    /\ info' = [info EXCEPT ![e].hControlDevice =
                    IF info[e].hDevice \in Handles /\ @ # Null THEN Invalid ELSE @]
    /\ UNCHANGED <<ListHead, registered>>

RemovePending(e) ==
    /\ registered' = Unregistered({e})
    /\ Free(e)
    /\ UNCHANGED opens

RemoveComplete(e) ==
    /\ registered' = Unregistered({e})
    /\ opens' = Closed(HandlesOf(e))
    /\ Free(e)

\* Mutant: the entry goes on with the closed value.
QueryRemoveFailed_NotReopened(e) ==
    UNCHANGED <<ListHead, info, opens, registered>>

\* The device is opened again, or the entry is given up.
QueryRemoveFailed(e) ==
    LET d == info[e].DevicePath IN
    \E h \in CreateFile(d) :
        /\ opens' = Opened(opens, h, d)
        /\ \/ /\ h = Invalid
              /\ registered' = Unregistered({e})
              /\ Free(e)
           \/ /\ h # Invalid
              /\ \E note \in RegisterDeviceNotification(h, d, e) :
                    /\ registered' = Unregistered({e}) \cup ({note} \ {Null})
                    /\ info' = [info EXCEPT ![e].hDevice = h,
                                            ![e].hHandleNotification = note]
              /\ UNCHANGED ListHead

\* "Unknown Device"
NoMatch(h) == Match(h) = {} /\ UNCHANGED <<ListHead, info, opens, registered>>

DeviceMessage(phase, r) ==
    /\ app = "running" /\ removal.phase = phase /\ r \in removal.todo
    /\ UNCHANGED <<program, present, arrivals>>

DeviceQueryRemove(r) ==
    /\ DeviceMessage("query", r)
    /\ NoMatch(r.handle) \/ \E e \in Match(r.handle) : QueryRemove(e)
    /\ removal' = [removal EXCEPT !.todo = @ \ {r}, !.queried = @ \cup {r}]

DeviceRemovePending(r) ==
    /\ DeviceMessage("pending", r)
    /\ NoMatch(r.handle) \/ \E e \in Match(r.handle) : RemovePending(e)
    /\ Forget({r})

DeviceQueryRemoveFailed(r) ==
    /\ DeviceMessage("failed", r)
    /\ NoMatch(r.handle) \/ \E e \in Match(r.handle) : QueryRemoveFailed(e)
    /\ Forget({r})

DeviceRemoveComplete(r) ==
    /\ DeviceMessage("complete", r)
    /\ NoMatch(r.handle) \/ \E e \in Match(r.handle) : RemoveComplete(e)
    /\ Forget({r})

----------------------------------------------------------------------------
(* HandleCommands and WM_CLOSE *)

CommandOpen ==
    /\ app = "running"
    /\ Cleanup /\ BeginEnum
    /\ UNCHANGED <<watching, toSend, present, arrivals>>

CommandClose ==
    /\ app = "running"
    /\ Cleanup
    /\ UNCHANGED <<program, present, arrivals>>

\* IDM_CTL_IOCTL goes through the list.
CommandIoctl ==
    /\ app = "running"
    /\ toSend' = {i \in DOMAIN ListHead :
            info[ListHead[i]].hDevice # Invalid /\ info[ListHead[i]].DeviceName}
    /\ app' = "ioctl"
    /\ UNCHANGED <<watching, toEnum, ListHead, info, opens, registered, pnp>>

\* SendIoctlToControlDevice: it opens the control device unless hControlDevice is
\* INVALID_HANDLE_VALUE; then, or after an open that worked, the request is sent.
OpenControl(e) ==
    \/ /\ info[e].hControlDevice # Invalid
       /\ \E h \in CreateFile(Control) :
             /\ opens' = Opened(opens, h, Control)
             /\ info' = [info EXCEPT ![e].hControlDevice = h]
    \/ info[e].hControlDevice = Invalid /\ UNCHANGED <<opens, info>>

SendIoctl ==
    /\ app = "ioctl"
    /\ \E i \in toSend :
          /\ \A j \in toSend : i <= j
          /\ toSend' = toSend \ {i}
          /\ OpenControl(ListHead[i])
    /\ UNCHANGED <<app, watching, toEnum, ListHead, registered, pnp>>

IoctlDone ==
    /\ app = "ioctl" /\ toSend = {}
    /\ app' = "running"
    /\ UNCHANGED <<watching, toEnum, toSend, ListHead, info, opens, registered, pnp>>

\* WM_CLOSE, and then WM_DESTROY.
Close ==
    /\ app = "running"
    /\ Cleanup
    /\ watching' = FALSE /\ app' = "closing"
    /\ UNCHANGED <<toEnum, toSend, present, arrivals>>

\* IDM_EXIT: nothing is cleaned up.
CommandExit ==
    /\ app = "running"
    /\ app' = "closing"
    /\ UNCHANGED <<watching, toEnum, toSend, ListHead, info, opens, registered, pnp>>

\* The system takes back what the process had.
ProcessEnd ==
    /\ app = "closing"
    /\ app' = "closed" /\ watching' = FALSE
    /\ ListHead' = <<>> /\ info' = [e \in Entries |-> Zeroed]
    /\ opens' = [h \in Handles |-> Null] /\ registered' = {}
    /\ arrivals' = {} /\ removal' = NoRemoval
    /\ UNCHANGED <<toEnum, toSend, present>>

----------------------------------------------------------------------------
(* Plug and play, external *)

OfDevice(d) == {r \in registered : r.device = d}

BeginPhase(p, d, R, Q) == removal' = [phase |-> p, device |-> d, todo |-> R, queried |-> Q]

Arrive(d) ==
    /\ d \notin present /\ removal.device # d
    /\ present' = present \cup {d}
    /\ arrivals' = IF watching THEN arrivals \cup {d} ELSE arrivals
    /\ UNCHANGED removal

RequestRemoval(d) ==
    /\ removal.phase = "none" /\ d \in present
    /\ BeginPhase("query", d, OfDevice(d), {})
    /\ UNCHANGED <<present, arrivals>>

SurpriseRemoval(d) ==
    /\ removal.phase = "none" /\ d \in present
    /\ present' = present \ {d}
    /\ BeginPhase("complete", d, OfDevice(d), {})
    /\ UNCHANGED arrivals

\* A device somebody has open stays; others may object as well.
QueryAnswered ==
    /\ removal.phase = "query" /\ removal.todo = {}
    /\ \E p \in {"failed", "pending"} :
          /\ p = "pending" => \A h \in Handles : opens[h] # removal.device
          /\ BeginPhase(p, removal.device, removal.queried, removal.queried)
    /\ UNCHANGED <<present, arrivals>>

RemovalStays ==
    /\ removal.phase \in {"failed", "complete"} /\ removal.todo = {}
    /\ removal' = NoRemoval
    /\ UNCHANGED <<present, arrivals>>

RemovalGoes ==
    /\ removal.phase = "pending" /\ removal.todo = {}
    /\ present' = present \ {removal.device}
    /\ BeginPhase("complete", removal.device, OfDevice(removal.device), {})
    /\ UNCHANGED arrivals

PlugAndPlay ==
    /\ app # "closed"
    /\ \/ \E d \in Devices : Arrive(d) \/ RequestRemoval(d) \/ SurpriseRemoval(d)
       \/ QueryAnswered \/ RemovalStays \/ RemovalGoes
    /\ UNCHANGED <<program, ListHead, info, opens, registered>>

----------------------------------------------------------------------------
Message ==
    \/ \E d \in Devices : DeviceArrival(d)
    \/ \E r \in removal.todo :
          \/ DeviceQueryRemove(r) \/ DeviceQueryRemoveFailed(r)
          \/ DeviceRemovePending(r) \/ DeviceRemoveComplete(r)

Command == CommandOpen \/ CommandClose \/ CommandIoctl \/ CommandExit \/ Close

Next ==
    \/ Create \/ EnumError \/ EnumDone \/ \E d \in Devices : EnumDevice(d)
    \/ Message \/ Command
    \/ SendIoctl \/ IoctlDone
    \/ ProcessEnd
    \/ PlugAndPlay

Spec == Init /\ [][Next]_vars

----------------------------------------------------------------------------
(* Properties *)

\* Besides the types: the list links no block twice, what is not linked is free
\* memory, and the ioctl command looks at places of the list.
TypeOK ==
    /\ app \in AppPC /\ watching \in BOOLEAN
    /\ ListHead \in Seq(Entries) /\ IsInjective(ListHead)
    /\ info \in [Entries -> DEVICE_INFO]
    /\ \A e \in Entries \ Listed : info[e] = Zeroed
    /\ toEnum \subseteq Devices /\ toSend \subseteq DOMAIN ListHead
    /\ opens \in [Handles -> Devices \cup {Control, Null}]
    /\ registered \subseteq Registration
    /\ present \subseteq Devices /\ arrivals \subseteq Devices
    /\ removal \in [phase : Phase, device : Devices \cup {Null},
                    todo : SUBSET Registration, queried : SUBSET Registration]

\* Entries that wait for the outcome of a query: their hDevice is a closed value.
Waiting == {e \in Listed : info[e].hHandleNotification \in removal.queried}

\* Every other entry owns the handle it has: the handle is open, on the entry's
\* device, and in no other such entry.  This is what CloseDeviceHandles relies on.
HandlesOwned ==
    \A e \in Listed \ Waiting : info[e].hDevice \in Handles =>
        /\ opens[info[e].hDevice] = info[e].DevicePath
        /\ \A f \in Listed \ Waiting : info[f].hDevice = info[e].hDevice => f = e

\* No handle to a device is ever lost, although hDevice is overwritten when a
\* removal fails and dropped when one is pending: a lost one would keep the device
\* from being removed until the program ends.
NoDeviceHandleLeaks ==
    \A h \in Handles : opens[h] \in Devices =>
        \E e \in Listed : info[e].hDevice = h /\ e \notin Waiting

\* What CloseDeviceHandles closes besides is its own, too: an entry's handle of the
\* control device is open, on the control device, and in no other entry, although
\* every ioctl command overwrites it and closed values are given out again.
ControlHandlesOwned ==
    \A e \in Listed : info[e].hControlDevice \in Handles =>
        /\ opens[info[e].hControlDevice] = Control
        /\ \A f \in Listed : info[f].hControlDevice = info[e].hControlDevice => f = e

\* What the inverted test of SendIoctlToControlDevice (testapp.c:788) amounts to: an
\* entry whose control device was closed, or could not be opened, never opens it again,
ControlNotTriedAgain ==
    [][\A e \in Listed \cap Listed' :
          info[e].hControlDevice = Invalid => info'[e].hControlDevice = Invalid]_vars

\* and a handle that is replaced by another one stays open in no entry.
ReplacedControlIsLost ==
    [][\A e \in Listed \cap Listed', h \in Handles :
          info[e].hControlDevice = h /\ info'[e].hControlDevice \in Handles \ {h} =>
              /\ opens'[h] = Control
              /\ \A f \in Listed' : info'[f].hControlDevice # h]_vars

\* A message finds the entry it is about by the value of the handle, although
\* that value may have been closed and have been given to another entry since:
\* the search goes from the head of the list, where the older entry is.
NotificationFindsEntry ==
    app = "running" => \A r \in removal.todo :
        Match(r.handle) = {r.by}

=============================================================================
