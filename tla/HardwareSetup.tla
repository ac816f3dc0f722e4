--------------------------- MODULE HardwareSetup ---------------------------
(***************************************************************************)
(* One adapter from SaitInitialize to the end of SaitFreeResources, as a   *)
(* sequence of allocations and USB requests each of which may fail.        *)
(* SaitFindHardware reads the descriptors of the device, selects its       *)
(* configuration and keeps what the rest of the driver needs; every early  *)
(* exit goes through one clean-up, and through SaitFreeResources.          *)
(*                                                                         *)
(* Memory is a set of live blocks; ptr says what each pointer variable     *)
(* holds.  The other initialisations are one step each: their own errors   *)
(* either leave nothing allocated or set the flag that SaitFreeResources   *)
(* tests.                                                                  *)
(***************************************************************************)
EXTENDS Integers, Sequences, FiniteSets

CONSTANT Devices    \* endpoints of the interface of the devices there are, each
                    \* "out" (0x02, bulk, 64), "in" (0x86, bulk, 64) or "other"

ASSUME DevicesAssumption == Devices \subseteq Seq({"out", "in", "other"})

VARIABLES
    device,         \* the device plugged in
    configured,     \* has it a configuration selected?
    live,           \* blocks of memory that are allocated
    badFree,        \* history: was something freed that was not live?
    ptr,            \* block each pointer variable points to, or "null"
    inPipe, outPipe,    \* hUsbInPipe, hUsbOutPipe: number of the pipe, 0 for none
    status,         \* of SaitInitialize
    lastUrb,        \* history: what SaitFreeHardware's request came to
    pc

outside == <<device, configured>>
memory == <<live, badFree, ptr>>
pipes == <<inPipe, outPipe>>
vars == <<outside, memory, pipes, status, lastUrb, pc>>

Locals == {"urb", "deviceDescriptor", "configDescriptor", "interfaceBuffer"}
Fields == {"ConfigDescriptor", "InterfaceInformation", "Send", "Receive"}
Pointers == Locals \cup Fields \cup {"adapter"}
Blocks == {"adapterBlock", "urb1", "urb2", "device", "config1", "config2", "interfaces",
           "information", "send", "receive"}

\* What the bus driver answers: NT_SUCCESS holds for the first two, but only the
\* first is NDIS_STATUS_SUCCESS.
Answers == {"success", "information", "error"}
NTSuccess(answer) == answer \in {"success", "information"}

PC == {"medium", "allocAdapter",
       "allocUrb", "allocDevice", "getDevice", "allocHeader", "getHeader", "allocConfig",
       "getConfig", "allocInterfaces", "buildRequest", "checkEndpoints", "select",
       "keepInformation", "storePipes", "cleanup",
       "registry", "send", "receive", "tail",
       "returned", "crashed", "freeSend", "freeReceive", "deselect", "freeHardware",
       "freeAdapter", "over"}

Init ==
    /\ device \in Devices /\ configured = FALSE
    /\ live = {} /\ badFree = FALSE
    /\ ptr = [p \in Pointers |-> "null"]
    /\ inPipe = 0 /\ outPipe = 0
    /\ status = "success" /\ lastUrb = "none"
    /\ pc = "medium"

----------------------------------------------------------------------------
(* Kinds of steps *)

\* ptr[p] = ExAllocatePoolWithTag(...), or NULL and on to the failure exit.
Allocate(from, p, block, next, exit) ==
    /\ pc = from
    /\ \/ /\ live' = live \cup {block}
          /\ ptr' = [ptr EXCEPT ![p] = block]
          /\ pc' = next
          /\ UNCHANGED status
       \/ /\ ptr' = [ptr EXCEPT ![p] = "null"]
          /\ status' = "error"
          /\ pc' = exit
          /\ UNCHANGED live
    /\ UNCHANGED <<outside, badFree, pipes, lastUrb>>

\* Free a block and allocate another in the same variable.
Replace(from, p, block, next) ==
    /\ pc = from
    /\ badFree' = (badFree \/ ptr[p] \notin live)
    /\ \/ /\ live' = (live \ {ptr[p]}) \cup {block}
          /\ ptr' = [ptr EXCEPT ![p] = block]
          /\ pc' = next
          /\ UNCHANGED status
       \/ /\ live' = live \ {ptr[p]}
          /\ ptr' = [ptr EXCEPT ![p] = "null"]
          /\ status' = "error"
          /\ pc' = "cleanup"
    /\ UNCHANGED <<outside, pipes, lastUrb>>

\* SaitSubmitUrbSynch for one of SaitFindHardware's requests.
Submit(from, next) ==
    /\ pc = from
    /\ \E answer \in Answers :
          /\ status' = answer
          /\ pc' = IF NTSuccess(answer) THEN next ELSE "cleanup"
    /\ UNCHANGED <<outside, memory, pipes, lastUrb>>

\* if (p != NULL) ExFreePool(p), for each p of a set.
Release(ps) ==
    LET blocks == {ptr[p] : p \in ps} \ {"null"}
    IN /\ live' = live \ blocks
       /\ badFree' = (badFree \/ ~(blocks \subseteq live))
       /\ ptr' = [p \in Pointers |-> IF p \in ps THEN "null" ELSE ptr[p]]

----------------------------------------------------------------------------
(* SaitInitialize, first part *)

CheckMedium ==
    /\ pc = "medium"
    /\ \/ pc' = "allocAdapter" /\ UNCHANGED status
       \/ pc' = "tail" /\ status' = "error"
    /\ UNCHANGED <<outside, memory, pipes, lastUrb>>

AllocAdapter == Allocate("allocAdapter", "adapter", "adapterBlock", "allocUrb", "tail")

----------------------------------------------------------------------------
(* SaitFindHardware *)

AllocUrb == Allocate("allocUrb", "urb", "urb1", "allocDevice", "cleanup")
AllocDevice ==
    Allocate("allocDevice", "deviceDescriptor", "device", "getDevice", "cleanup")
GetDevice == Submit("getDevice", "allocHeader")
AllocHeader ==
    Allocate("allocHeader", "configDescriptor", "config1", "getHeader", "cleanup")
GetHeader == Submit("getHeader", "allocConfig")
AllocConfig == Replace("allocConfig", "configDescriptor", "config2", "getConfig")
GetConfig == Submit("getConfig", "allocInterfaces")
AllocInterfaces ==
    Allocate("allocInterfaces", "interfaceBuffer", "interfaces", "buildRequest", "cleanup")
BuildRequest == Replace("buildRequest", "urb", "urb2", "checkEndpoints")

\* Mutant: the order of the endpoints is not checked.
CheckEndpoints_AnyOrder ==
    /\ pc = "checkEndpoints"
    /\ IF Len(device) = 2 /\ {device[1], device[2]} = {"out", "in"}
       THEN pc' = "select" /\ UNCHANGED status
       ELSE pc' = "cleanup" /\ status' = "error"
    /\ UNCHANGED <<outside, memory, pipes, lastUrb>>

\* bNumEndpoints, then the first and the second endpoint.
CheckEndpoints ==
    /\ pc = "checkEndpoints"
    /\ IF Len(device) = 2 /\ device[1] = "out" /\ device[2] = "in"
       THEN pc' = "select" /\ UNCHANGED status
       ELSE pc' = "cleanup" /\ status' = "error"
    /\ UNCHANGED <<outside, memory, pipes, lastUrb>>

SelectConfiguration ==
    /\ pc = "select"
    /\ \E answer \in Answers :
          /\ status' = answer
          /\ configured' = NTSuccess(answer)
          /\ pc' = IF NTSuccess(answer) THEN "keepInformation" ELSE "cleanup"
    /\ UNCHANGED <<device, memory, pipes, lastUrb>>

KeepInformation ==
    Allocate("keepInformation", "InterfaceInformation", "information", "storePipes",
             "cleanup")

\* Mutant: the local variable still points to the kept descriptor.
StorePipes_KeepsLocal ==
    /\ pc = "storePipes"
    /\ outPipe' = 1 /\ inPipe' = 2
    /\ ptr' = [ptr EXCEPT !["ConfigDescriptor"] = ptr["configDescriptor"]]
    /\ pc' = "cleanup"
    /\ UNCHANGED <<outside, live, badFree, status, lastUrb>>

\* Mutant: the descriptor is not handed over.
StorePipes_NotKept ==
    /\ pc = "storePipes"
    /\ outPipe' = 1 /\ inPipe' = 2
    /\ pc' = "cleanup"
    /\ UNCHANGED <<outside, memory, status, lastUrb>>

\* What the loop over the pipes of the selected interface, one for each endpoint,
\* leaves in a handle: the last pipe of that direction, or what was there before.
\* All of them are bulk pipes, as CheckEndpoints saw to it.
LastPipe(direction, before) ==
    LET matching == {i \in 1 .. Len(device) : device[i] = direction}
    IN IF matching = {} THEN before ELSE CHOOSE i \in matching : \A j \in matching : j <= i

\* The loop; then the descriptor passes from the local variable to the adapter.
StorePipes ==
    /\ pc = "storePipes"
    /\ outPipe' = LastPipe("out", outPipe)
    /\ inPipe' = LastPipe("in", inPipe)
    /\ ptr' = [ptr EXCEPT !["ConfigDescriptor"] = ptr["configDescriptor"],
                          !["configDescriptor"] = "null"]
    /\ pc' = "cleanup"
    /\ UNCHANGED <<outside, live, badFree, status, lastUrb>>

\* Mutant: one local buffer is forgotten.
Cleanup_ForgetsInterfaces ==
    /\ pc = "cleanup"
    /\ Release(Locals \ {"interfaceBuffer"})
    /\ pc' = IF status = "success" THEN "registry" ELSE "freeSend"
    /\ UNCHANGED <<outside, pipes, status, lastUrb>>

\* The frees after the loop, and SaitInitialize's test of the status.
Cleanup ==
    /\ pc = "cleanup"
    /\ Release(Locals)
    /\ pc' = IF status = "success" THEN "registry" ELSE "freeSend"
    /\ UNCHANGED <<outside, pipes, status, lastUrb>>

----------------------------------------------------------------------------
(* SaitInitialize, second part *)

\* Which address the registry gives, if any, is not an error.
ReadRegistry ==
    /\ pc = "registry"
    /\ pc' = "send"
    /\ UNCHANGED <<outside, memory, pipes, status, lastUrb>>

\* SaitInitializeSend cannot fail: contexts it does not get are left out.
InitializeSend ==
    /\ pc = "send"
    /\ live' = live \cup {"send"}
    /\ ptr' = [ptr EXCEPT !["Send"] = "send"]
    /\ pc' = "receive"
    /\ UNCHANGED <<outside, badFree, pipes, status, lastUrb>>

\* SaitInitializeReceive: success; no pool, nothing kept; or the last descriptor
\* or the thread failed, with bReceiveAllocated set.
InitializeReceive ==
    /\ pc = "receive"
    /\ \/ /\ live' = live \cup {"receive"}
          /\ ptr' = [ptr EXCEPT !["Receive"] = "receive"]
          /\ status' \in {"success", "error"}
       \/ status' = "error" /\ UNCHANGED <<live, ptr>>
    /\ pc' = IF status' = "success" THEN "tail" ELSE "freeSend"
    /\ UNCHANGED <<outside, badFree, pipes, lastUrb>>

\* bRunningPollingThread = TRUE, through whatever `adapter' holds.
EnableTail ==
    /\ pc = "tail"
    /\ pc' = IF ptr["adapter"] = "null" THEN "crashed" ELSE "returned"
    /\ UNCHANGED <<outside, memory, pipes, status, lastUrb>>

Halt ==
    /\ pc = "returned"
    /\ status = "success"
    /\ pc' = "freeSend"
    /\ UNCHANGED <<outside, memory, pipes, status, lastUrb>>

----------------------------------------------------------------------------
(* SaitFreeResources, for a failed initialisation and for SaitHalt *)

FreeSend ==
    /\ pc = "freeSend"
    /\ Release({"Send"})
    /\ pc' = "freeReceive"
    /\ UNCHANGED <<outside, pipes, status, lastUrb>>

FreeReceive ==
    /\ pc = "freeReceive"
    /\ Release({"Receive"})
    /\ pc' = IF ptr["ConfigDescriptor"] # "null" THEN "deselect" ELSE "freeHardware"
    /\ UNCHANGED <<outside, pipes, status, lastUrb>>

\* SaitFreeHardware selects no configuration; no memory for the URB, or an error
\* of the bus driver, and the device keeps the one it has.
Deselect ==
    /\ pc = "deselect"
    /\ \E answer \in Answers \cup {"noMemory"} :
          /\ lastUrb' = answer
          /\ configured' = (configured /\ ~NTSuccess(answer))
    /\ pc' = "freeHardware"
    /\ UNCHANGED <<device, memory, pipes, status>>

FreeHardware ==
    /\ pc = "freeHardware"
    /\ Release({"ConfigDescriptor", "InterfaceInformation"})
    /\ pc' = "freeAdapter"
    /\ UNCHANGED <<outside, pipes, status, lastUrb>>

\* NdisFreeMemory of the adapter.  SaitInitialize still has its pointer, and writes
\* through it in EnableTail.
FreeAdapter ==
    /\ pc = "freeAdapter"
    /\ live' = live \ {ptr["adapter"]}
    /\ badFree' = (badFree \/ ptr["adapter"] \notin live)
    /\ pc' = IF status = "success" THEN "over" ELSE "tail"
    /\ UNCHANGED <<outside, ptr, pipes, status, lastUrb>>

FindHardware ==
    \/ AllocUrb \/ AllocDevice \/ GetDevice \/ AllocHeader \/ GetHeader
    \/ AllocConfig \/ GetConfig \/ AllocInterfaces \/ BuildRequest
    \/ CheckEndpoints \/ SelectConfiguration \/ KeepInformation \/ StorePipes
    \/ Cleanup

FreeResources == FreeSend \/ FreeReceive \/ Deselect \/ FreeHardware \/ FreeAdapter

Next ==
    \/ CheckMedium \/ AllocAdapter
    \/ FindHardware
    \/ ReadRegistry \/ InitializeSend \/ InitializeReceive \/ EnableTail
    \/ Halt
    \/ FreeResources

Spec == Init /\ [][Next]_vars

----------------------------------------------------------------------------
(* Properties *)

Ended == pc = "over" \/ (pc = "returned" /\ status # "success")

\* The type of the state: among others, the pipe handles are those of the two pipes
\* that the descriptor of the interface has room for.
TypeOK ==
    /\ device \in Devices /\ configured \in BOOLEAN
    /\ live \subseteq Blocks /\ badFree \in BOOLEAN
    /\ ptr \in [Pointers -> Blocks \cup {"null"}]
    /\ inPipe \in 0 .. 2 /\ outPipe \in 0 .. 2
    /\ status \in Answers
    /\ lastUrb \in Answers \cup {"none", "noMemory"}
    /\ pc \in PC

\* SaitFindHardware hands blocks from its local variables to the adapter, and frees
\* and reallocates two of them half-way.  At each point every allocated block is
\* owned by exactly one variable, so whichever exit is taken frees it once, and
\* nothing has been freed that was not allocated.
OneOwner ==
    /\ ~badFree
    /\ \A block \in live : \E p \in Pointers :
           ptr[p] = block /\ \A q \in Pointers : ptr[q] = block => q = p

\* When SaitInitialize has failed, wherever it did, and when SaitHalt has returned,
\* no memory of the adapter is left.
NothingLeaks == Ended => live = {}

\* SaitInitialize succeeds only on a device whose configuration is selected, with
\* everything that the other parts use allocated and nothing temporary left; and the
\* pipes the driver reads from and writes to are an in and an out endpoint.  SaitWrite
\* takes its packet size from the first pipe of the interface (send.c:589).
RunningIsComplete ==
    pc = "returned" /\ status = "success" =>
        /\ configured
        /\ live = {"adapterBlock", "config2", "information", "send", "receive"}
        /\ device[inPipe] = "in" /\ device[outPipe] = "out" /\ outPipe = 1

\* Once SaitFindHardware has handed the configuration over, every end deselects it, a
\* failed initialisation as well as a halt, unless the bus driver refuses or there is
\* no memory to ask it.  A failure between the selection and the hand-over does not.
EndDeselects ==
    Ended /\ outPipe # 0 /\ configured => lastUrb \in {"error", "noMemory"}

=============================================================================
