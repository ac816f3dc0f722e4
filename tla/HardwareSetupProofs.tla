------------------------ MODULE HardwareSetupProofs ------------------------
(***************************************************************************)
(* The set-up and the clean-up of the hardware, for every interface a      *)
(* device may describe and every answer of the bus driver: each block has  *)
(* one owner, whichever exit is taken frees everything once, an adapter    *)
(* that runs is complete, and the end deselects the configuration.         *)
(***************************************************************************)
EXTENDS HardwareSetup, TLAPS

(* Memory *)

\* The blocks a pointer variable may point to.  The descriptor of the configuration
\* is the only thing that passes from one variable to another.
Home(p) ==
    CASE p = "urb" -> {"urb1", "urb2"}
      [] p = "deviceDescriptor" -> {"device"}
      [] p \in {"configDescriptor", "ConfigDescriptor"} -> {"config1", "config2"}
      [] p = "interfaceBuffer" -> {"interfaces"}
      [] p = "InterfaceInformation" -> {"information"}
      [] p = "Send" -> {"send"}
      [] p = "Receive" -> {"receive"}
      [] p = "adapter" -> {"adapterBlock"}

NonNull == {p \in Pointers : ptr[p] # "null"}
Config == {"configDescriptor", "ConfigDescriptor"}

\* What is allocated is exactly what the variables point to, one variable to a block.
Sound ==
    /\ badFree = FALSE
    /\ ptr \in [Pointers -> Blocks \cup {"null"}]
    /\ \A p \in NonNull : ptr[p] \in Home(p)
    /\ live = {ptr[p] : p \in NonNull} /\ live \subseteq Blocks
    /\ ~(Config \subseteq NonNull)

\* Two variables never have a block in common, but for the descriptor.
LEMMA Homes ==
  ASSUME NEW p \in Pointers, NEW q \in Pointers, p # q, ~(p \in Config /\ q \in Config)
  PROVE  Home(p) \cap Home(q) = {}
  BY DEF Home, Pointers, Locals, Fields, Config

\* A block is not "null".
LEMMA HomesAreBlocks ==
  ASSUME NEW p \in Pointers
  PROVE  Home(p) \subseteq Blocks /\ "null" \notin Home(p) /\ "null" \notin Blocks
  BY DEF Home, Pointers, Locals, Fields, Blocks

\* So a block tells the variable that owns it.
LEMMA Distinct ==
  ASSUME Sound, NEW p \in NonNull, NEW q \in NonNull, ptr[p] = ptr[q]
  PROVE  p = q
  <1>1. p \in Pointers /\ q \in Pointers
    BY DEF NonNull
  <1>2. ptr[p] \in Home(p) \cap Home(q)
    BY DEF Sound
  <1>3. ~(p # q /\ p \in Config /\ q \in Config)
    BY DEF Sound, Config
  <1> QED
    BY <1>1, <1>2, <1>3, Homes

\* An allocation into a variable that is NULL.
LEMMA AllocateSound ==
  ASSUME Sound, NEW p \in Pointers \ NonNull, NEW block \in Home(p),
         p \in Config => Config \cap NonNull = {},
         live' = live \cup {block}, ptr' = [ptr EXCEPT ![p] = block], badFree' = badFree
  PROVE  Sound' /\ NonNull' = NonNull \cup {p}
  <1>1. block # "null" /\ block \in Blocks
    BY HomesAreBlocks
  <1>2. NonNull' = NonNull \cup {p}
    BY <1>1 DEF Sound, NonNull
  <1>3. \A q \in NonNull : ptr'[q] = ptr[q]
    BY DEF Sound, NonNull
  <1>4. live' = {ptr'[q] : q \in NonNull'}
    BY <1>2, <1>3 DEF Sound, NonNull
  <1>5. \A q \in NonNull' : ptr'[q] \in Home(q)
    BY <1>2, <1>3 DEF Sound, NonNull
  <1>6. ptr' \in [Pointers -> Blocks \cup {"null"}]
    BY <1>1 DEF Sound
  <1>7. ~(Config \subseteq NonNull')
    BY <1>2 DEF Sound, Config
  <1>8. live' \subseteq Blocks
    BY <1>1 DEF Sound
  <1> QED
    BY <1>2, <1>4, <1>5, <1>6, <1>7, <1>8 DEF Sound

\* A block freed, and another allocated in the same variable or not.
LEMMA ReplaceSound ==
  ASSUME Sound, NEW p \in NonNull, NEW block \in Home(p) \cup {"null"},
         live' = (live \ {ptr[p]}) \cup ({block} \ {"null"}),
         ptr' = [ptr EXCEPT ![p] = block],
         badFree' = (badFree \/ ptr[p] \notin live)
  PROVE  /\ Sound'
         /\ NonNull' = IF block = "null" THEN NonNull \ {p} ELSE NonNull
  <1>0. p \in Pointers
    BY DEF NonNull
  <1>1. badFree' = FALSE
    BY DEF Sound
  <1>2. NonNull' = IF block = "null" THEN NonNull \ {p} ELSE NonNull
    BY <1>0 DEF Sound, NonNull
  <1>3. \A q \in Pointers \ {p} : ptr'[q] = ptr[q]
    BY DEF Sound
  <1>4. live \ {ptr[p]} = {ptr[q] : q \in NonNull \ {p}}
    <2>1. \A q \in NonNull \ {p} : ptr[q] # ptr[p]
      BY Distinct
    <2> QED
      BY <2>1 DEF Sound
  <1>5. live' = {ptr'[q] : q \in NonNull'}
    <2>1. {ptr[q] : q \in NonNull \ {p}} = {ptr'[q] : q \in NonNull \ {p}}
      BY <1>3 DEF NonNull
    <2>2. CASE block = "null"
      BY <1>2, <1>4, <2>1, <2>2
    <2>3. CASE block # "null"
      <3>1. ptr'[p] = block /\ NonNull' = (NonNull \ {p}) \cup {p}
        BY <1>0, <1>2, <2>3 DEF Sound
      <3> QED
        BY <1>4, <2>1, <2>3, <3>1
    <2> QED
      BY <2>2, <2>3
  <1>6. \A q \in NonNull' : ptr'[q] \in Home(q)
    BY <1>0, <1>2, <1>3 DEF Sound, NonNull
  <1>7. ptr' \in [Pointers -> Blocks \cup {"null"}]
    BY <1>0, HomesAreBlocks DEF Sound
  <1>8. live' \subseteq Blocks
    BY <1>0, HomesAreBlocks DEF Sound
  <1> QED
    BY <1>1, <1>2, <1>5, <1>6, <1>7, <1>8 DEF Sound

\* Freeing the variables of a set, NULL or not.
LEMMA ReleaseSound ==
  ASSUME Sound, NEW ps \in SUBSET Pointers, Release(ps)
  PROVE  Sound' /\ NonNull' = NonNull \ ps
  <1> DEFINE blocks == {ptr[p] : p \in ps} \ {"null"}
  <1>1. NonNull' = NonNull \ ps
    BY DEF Sound, Release, NonNull
  <1>2. \A q \in NonNull' : q \in NonNull /\ q \notin ps /\ ptr'[q] = ptr[q]
    BY <1>1 DEF Release, NonNull
  <1>3. ptr' \in [Pointers -> Blocks \cup {"null"}]
    BY DEF Sound, Release
  <1>4. blocks = {ptr[q] : q \in NonNull \cap ps}
    BY DEF NonNull
  <1>5. badFree' = FALSE
    BY <1>4 DEF Sound, Release
  <1>6. live \ blocks = {ptr[q] : q \in NonNull \ ps}
    <2>1. \A q \in NonNull \ ps, r \in NonNull \cap ps : ptr[q] # ptr[r]
      BY Distinct
    <2> QED
      BY <1>4, <2>1 DEF Sound
  <1>7. live' = {ptr'[q] : q \in NonNull'}
    <2>1. {ptr[q] : q \in NonNull \ ps} = {ptr'[q] : q \in NonNull \ ps}
      BY <1>1, <1>2
    <2> QED
      BY <1>1, <1>6, <2>1 DEF Release
  <1>8. \A q \in NonNull' : ptr'[q] \in Home(q)
    BY <1>2 DEF Sound
  <1>9. ~(Config \subseteq NonNull')
    BY <1>1 DEF Sound
  <1>10. live' \subseteq Blocks
    BY DEF Sound, Release
  <1> QED
    BY <1>1, <1>3, <1>5, <1>7, <1>8, <1>9, <1>10 DEF Sound

----------------------------------------------------------------------------
(* What each step of the set-up has allocated *)

\* The variables that are not NULL at each point before the clean-up, where the code
\* runs straight on, and at the points after it.
Owns(at) ==
    CASE at \in {"medium", "allocAdapter"} -> {}
      [] at = "allocUrb" -> {"adapter"}
      [] at = "allocDevice" -> {"adapter", "urb"}
      [] at \in {"getDevice", "allocHeader"} -> {"adapter", "urb", "deviceDescriptor"}
      [] at \in {"getHeader", "allocConfig", "getConfig", "allocInterfaces"} ->
            {"adapter", "urb", "deviceDescriptor", "configDescriptor"}
      [] at \in {"buildRequest", "checkEndpoints", "select", "keepInformation"} ->
            {"adapter"} \cup Locals
      [] at = "storePipes" -> {"adapter", "InterfaceInformation"} \cup Locals
      [] at \in {"registry", "send"} -> {"adapter", "ConfigDescriptor", "InterfaceInformation"}
      [] at = "receive" -> {"adapter", "ConfigDescriptor", "InterfaceInformation", "Send"}

BeforeSelect ==
    {"medium", "allocAdapter", "allocUrb", "allocDevice", "getDevice", "allocHeader",
     "getHeader", "allocConfig", "getConfig", "allocInterfaces", "buildRequest",
     "checkEndpoints", "select"}
InFindHardware == BeforeSelect \cup {"keepInformation", "storePipes"}
AfterFound == {"registry", "send", "receive"}

\* The variables that may still be set at each step of SaitFreeResources.
MayOwn(at) ==
    CASE at = "freeSend" -> {"adapter"} \cup Fields
      [] at = "freeReceive" -> {"adapter"} \cup (Fields \ {"Send"})
      [] at \in {"deselect", "freeHardware"} ->
            {"adapter", "ConfigDescriptor", "InterfaceInformation"}
      [] at = "freeAdapter" -> {"adapter"}
      [] at = "cleanup" -> {"adapter", "ConfigDescriptor", "InterfaceInformation"} \cup Locals
Freeing == {"cleanup", "freeSend", "freeReceive", "deselect", "freeHardware", "freeAdapter"}

\* The adapter was freed, or never allocated.
Failed == status # "success" /\ pc \in {"tail", "returned", "crashed"}
Gone == pc = "over" \/ Failed

Endpoints == Len(device) = 2 /\ device[1] = "out" /\ device[2] = "in"

\* SaitFindHardware has succeeded.
Found ==
    /\ Endpoints /\ outPipe = 1 /\ inPipe = 2
    /\ configured
    /\ ptr["ConfigDescriptor"] = "config2"
    /\ "InterfaceInformation" \in NonNull

Runs == pc \in {"tail", "returned"} /\ status = "success"

MemoryInv ==
    /\ Gone => live = {} /\ badFree = FALSE
               /\ \A p \in Pointers \ {"adapter"} : ptr[p] = "null"
    /\ ~Gone => Sound
    /\ pc \in InFindHardware \cup AfterFound => NonNull = Owns(pc)
    /\ pc \in Freeing => "adapter" \in NonNull /\ NonNull \subseteq MayOwn(pc)
    /\ Runs => NonNull = {"adapter"} \cup Fields
    /\ pc # "crashed" \/ Failed

DeviceInv ==
    /\ pc \in {"getConfig", "allocInterfaces", "buildRequest", "checkEndpoints", "select",
               "keepInformation", "storePipes"} => ptr["configDescriptor"] = "config2"
    /\ pc \in {"select", "keepInformation", "storePipes"} => Endpoints
    /\ pc \in {"keepInformation", "storePipes"} => configured
    /\ pc \in InFindHardware => outPipe = 0 /\ inPipe = 0
    /\ pc \in AfterFound \/ Runs \/ (pc = "cleanup" /\ status = "success") => Found
    /\ pc \in AfterFound => status = "success"
    \* The pipes are known exactly when there is something to deselect.
    /\ pc \in {"cleanup", "freeSend", "freeReceive", "deselect"} /\ outPipe # 0
          => ptr["ConfigDescriptor"] # "null"
    /\ pc \in {"freeHardware", "freeAdapter"} \/ Gone
          => (outPipe # 0 /\ configured => lastUrb \in {"error", "noMemory"})

HInv == TypeOK /\ MemoryInv /\ DeviceInv

\* Nothing is allocated at the start.
LEMMA HInvInit == Init => HInv
  <1> SUFFICES ASSUME Init PROVE HInv
    OBVIOUS
  <1>1. NonNull = {}
    BY DEF Init, NonNull
  <1>2. Sound
    BY <1>1 DEF Init, Sound, Config
  <1>3. TypeOK
    <2>1. pc \in PC /\ status \in Answers
      BY DEF Init, PC, Answers
    <2>2. inPipe \in 0 .. 2 /\ outPipe \in 0 .. 2
      BY DEF Init
    <2> QED
      BY <2>1, <2>2 DEF Init, TypeOK
  <1>4. MemoryInv
    BY <1>1, <1>2 DEF Init, MemoryInv, Gone, Failed, InFindHardware, BeforeSelect,
       AfterFound, Freeing, Runs, Owns
  <1>5. DeviceInv
    BY DEF Init, DeviceInv, InFindHardware, BeforeSelect, AfterFound, Runs, Gone, Failed
  <1> QED
    BY <1>3, <1>4, <1>5 DEF HInv

\* Step `next' of SaitFindHardware has what step `from' has, and p.
Follows(from, next, ps) ==
    /\ from \in InFindHardware /\ next \in InFindHardware
    /\ Owns(next) = Owns(from) \cup ps
    /\ Owns(from) \subseteq MayOwn("cleanup") /\ "adapter" \in Owns(from)

MayAllocate(from, next, p, block) ==
    /\ Follows(from, next, {p})
    /\ p \in Pointers \ Owns(from) /\ block \in Home(p)
    /\ p \in Config => Config \cap Owns(from) = {}

MayReplace(from, next, p, block) ==
    /\ Follows(from, next, {})
    /\ p \in Locals \cap Owns(from) /\ block \in Home(p)

\* The steps in the order of the code.
LEMMA Order ==
  /\ MayAllocate("allocUrb", "allocDevice", "urb", "urb1")
  /\ MayAllocate("allocDevice", "getDevice", "deviceDescriptor", "device")
  /\ Follows("getDevice", "allocHeader", {})
  /\ MayAllocate("allocHeader", "getHeader", "configDescriptor", "config1")
  /\ Follows("getHeader", "allocConfig", {})
  /\ MayReplace("allocConfig", "getConfig", "configDescriptor", "config2")
  /\ Follows("getConfig", "allocInterfaces", {})
  /\ MayAllocate("allocInterfaces", "buildRequest", "interfaceBuffer", "interfaces")
  /\ MayReplace("buildRequest", "checkEndpoints", "urb", "urb2")
  /\ Follows("checkEndpoints", "select", {})
  /\ Follows("select", "keepInformation", {})
  /\ MayAllocate("keepInformation", "storePipes", "InterfaceInformation", "information")
  <1> USE DEF Follows, InFindHardware, BeforeSelect, Owns, MayOwn, Locals
  <1> USE DEF MayAllocate, MayReplace, Pointers, Fields, Home, Config
  <1>1. MayAllocate("allocUrb", "allocDevice", "urb", "urb1")
    OBVIOUS
  <1>2. MayAllocate("allocDevice", "getDevice", "deviceDescriptor", "device")
    OBVIOUS
  <1>3. MayAllocate("allocHeader", "getHeader", "configDescriptor", "config1")
    OBVIOUS
  <1>4. MayAllocate("allocInterfaces", "buildRequest", "interfaceBuffer", "interfaces")
    OBVIOUS
  <1>5. MayAllocate("keepInformation", "storePipes", "InterfaceInformation", "information")
    OBVIOUS
  <1>6. MayReplace("allocConfig", "getConfig", "configDescriptor", "config2")
    OBVIOUS
  <1>7. MayReplace("buildRequest", "checkEndpoints", "urb", "urb2")
    OBVIOUS
  <1>8. /\ Follows("getDevice", "allocHeader", {})
        /\ Follows("getHeader", "allocConfig", {})
        /\ Follows("getConfig", "allocInterfaces", {})
        /\ Follows("checkEndpoints", "select", {})
        /\ Follows("select", "keepInformation", {})
    OBVIOUS
  <1> QED
    BY <1>1, <1>2, <1>3, <1>4, <1>5, <1>6, <1>7, <1>8

\* An allocation of SaitFindHardware: on to the next step, or to the clean-up.
LEMMA AllocateStep ==
  ASSUME HInv, NEW from, NEW next, NEW p, NEW block,
         MayAllocate(from, next, p, block),
         Allocate(from, p, block, next, "cleanup")
  PROVE  /\ TypeOK' /\ MemoryInv'
         /\ device' = device /\ configured' = configured
         /\ inPipe' = inPipe /\ outPipe' = outPipe
         /\ \/ pc' = next /\ status' = status /\ ptr' = [ptr EXCEPT ![p] = block]
            \/ pc' = "cleanup" /\ status' = "error" /\ ptr' = ptr
  <1> USE DEF MayAllocate, Follows
  <1>1. pc = from /\ ~Gone /\ Sound /\ NonNull = Owns(from) /\ from # "crashed"
    BY DEF HInv, MemoryInv, Allocate, Gone, Failed, InFindHardware, BeforeSelect
  <1>2. /\ UNCHANGED <<device, configured, badFree, inPipe, outPipe, lastUrb>>
        /\ \/ /\ live' = live \cup {block} /\ ptr' = [ptr EXCEPT ![p] = block]
              /\ pc' = next /\ status' = status
           \/ /\ ptr' = [ptr EXCEPT ![p] = "null"] /\ status' = "error"
              /\ pc' = "cleanup" /\ live' = live
    BY DEF Allocate, outside, pipes
  <1>3. CASE pc' = next /\ live' = live \cup {block} /\ ptr' = [ptr EXCEPT ![p] = block]
             /\ status' = status
    <2>1. Sound' /\ NonNull' = NonNull \cup {p}
      BY <1>1, <1>2, <1>3, AllocateSound
    <2>2. TypeOK'
      BY <1>2, <1>3, <2>1
      DEF HInv, TypeOK, Sound, InFindHardware, BeforeSelect, PC
    <2> QED
      BY <1>1, <1>2, <1>3, <2>1, <2>2
      DEF MemoryInv, Gone, Failed, InFindHardware, BeforeSelect, Freeing, Runs
  <1>4. CASE pc' = "cleanup" /\ live' = live /\ ptr' = [ptr EXCEPT ![p] = "null"]
             /\ status' = "error"
    <2>1. ptr' = ptr
      BY <1>1, <1>4 DEF NonNull, Sound
    <2>2. Sound' /\ NonNull' = NonNull
      BY <1>1, <1>2, <1>4, <2>1 DEF Sound, NonNull
    <2>3. TypeOK'
      BY <1>2, <1>4, <2>1 DEF HInv, TypeOK, Answers, PC
    <2> QED
      BY <1>1, <1>2, <1>4, <2>1, <2>2, <2>3
      DEF MemoryInv, Gone, Failed, InFindHardware, BeforeSelect, Freeing, Runs, AfterFound
  <1> QED
    BY <1>2, <1>3, <1>4

\* A request of SaitFindHardware, or the test of the endpoints: nothing changes hands.
LEMMA NoMemoryStep ==
  ASSUME HInv, NEW from, NEW next, Follows(from, next, {}),
         pc = from, pc' = next \/ pc' = "cleanup",
         UNCHANGED <<device, memory, pipes, lastUrb>>, status' \in Answers,
         configured' \in BOOLEAN
  PROVE  TypeOK' /\ MemoryInv'
  <1> USE DEF Follows
  <1>1. ~Gone /\ Sound /\ NonNull = Owns(from)
    BY DEF HInv, MemoryInv, Gone, Failed, InFindHardware, BeforeSelect
  <1>2. Sound' /\ NonNull' = NonNull
    BY <1>1 DEF Sound, NonNull, memory
  <1>3. TypeOK'
    BY DEF HInv, TypeOK, InFindHardware, BeforeSelect, PC, memory, pipes
  <1> QED
    BY <1>1, <1>2, <1>3
    DEF MemoryInv, Gone, Failed, InFindHardware, BeforeSelect, Freeing, Runs, AfterFound

\* A block of SaitFindHardware replaced by a larger one.
LEMMA ReplaceStep ==
  ASSUME HInv, NEW from, NEW next, NEW p, NEW block,
         MayReplace(from, next, p, block),
         Replace(from, p, block, next)
  PROVE  /\ TypeOK' /\ MemoryInv'
         /\ device' = device /\ configured' = configured
         /\ inPipe' = inPipe /\ outPipe' = outPipe
         /\ \/ pc' = next /\ ptr' = [ptr EXCEPT ![p] = block]
            \/ pc' = "cleanup" /\ status' = "error" /\ ptr' = [ptr EXCEPT ![p] = "null"]
  <1> USE DEF MayReplace, Follows
  <1>0. p \in Pointers /\ p # "adapter"
    BY DEF Pointers, Locals
  <1>1. pc = from /\ ~Gone /\ Sound /\ NonNull = Owns(from)
    BY DEF HInv, MemoryInv, Replace, Gone, Failed, InFindHardware, BeforeSelect
  <1>2. /\ UNCHANGED <<device, configured, inPipe, outPipe, lastUrb>>
        /\ badFree' = (badFree \/ ptr[p] \notin live)
        /\ \/ /\ live' = (live \ {ptr[p]}) \cup {block}
              /\ ptr' = [ptr EXCEPT ![p] = block]
              /\ pc' = next /\ status' = status
           \/ /\ live' = live \ {ptr[p]}
              /\ ptr' = [ptr EXCEPT ![p] = "null"]
              /\ status' = "error" /\ pc' = "cleanup"
    BY DEF Replace, outside, pipes
  <1>b. block # "null" /\ ptr[p] # "null"
    BY <1>0, <1>1, HomesAreBlocks DEF NonNull
  <1>3. CASE /\ live' = (live \ {ptr[p]}) \cup {block}
             /\ ptr' = [ptr EXCEPT ![p] = block]
             /\ pc' = next /\ status' = status
    <2>0. {block} = {block} \ {"null"}
      BY <1>b
    <2>1. Sound' /\ NonNull' = NonNull
      BY <1>1, <1>2, <1>3, <1>b, <2>0, ReplaceSound
    <2>2. TypeOK'
      BY <1>2, <1>3, <2>1
      DEF HInv, TypeOK, Sound, InFindHardware, BeforeSelect, PC
    <2> QED
      BY <1>1, <1>2, <1>3, <2>1, <2>2
      DEF MemoryInv, Gone, Failed, InFindHardware, BeforeSelect, Freeing, Runs
  <1>4. CASE /\ live' = live \ {ptr[p]}
             /\ ptr' = [ptr EXCEPT ![p] = "null"]
             /\ status' = "error" /\ pc' = "cleanup"
    <2>0. live \ {ptr[p]} = (live \ {ptr[p]}) \cup ({"null"} \ {"null"})
      OBVIOUS
    <2>1. Sound' /\ NonNull' = NonNull \ {p}
      BY <1>1, <1>2, <1>4, <1>b, <2>0, ReplaceSound
    <2>2. TypeOK'
      BY <1>2, <1>4, <2>1 DEF HInv, TypeOK, Sound, Answers, PC
    <2> QED
      BY <1>0, <1>1, <1>2, <1>4, <2>1, <2>2
      DEF MemoryInv, Gone, Failed, InFindHardware, BeforeSelect, Freeing, Runs, AfterFound
  <1> QED
    BY <1>2, <1>3, <1>4

\* The allocations and requests of SaitFindHardware before the configuration is
\* selected, each by one of the lemmas above.
LEMMA FindHardwareNext ==
  ASSUME HInv, \/ AllocUrb \/ AllocDevice \/ GetDevice \/ AllocHeader \/ GetHeader
               \/ AllocConfig \/ GetConfig \/ AllocInterfaces \/ BuildRequest
               \/ CheckEndpoints
  PROVE  HInv'
  <1> USE DEF InFindHardware, BeforeSelect
  <1> DEFINE Fine == /\ TypeOK' /\ MemoryInv'
                     /\ UNCHANGED <<device, inPipe, outPipe>>
  <1>e. ASSUME Fine, pc \in BeforeSelect, pc' = "cleanup", status' # "success"
        PROVE  HInv'
    BY <1>e DEF HInv, DeviceInv, AfterFound, Runs, Gone, Failed
  <1>n. ASSUME Fine, pc \in BeforeSelect, pc' \in BeforeSelect,
               pc' \in {"getConfig", "allocInterfaces", "buildRequest",
                        "checkEndpoints", "select"} => ptr'["configDescriptor"] = "config2",
               pc' = "select" => Endpoints'
        PROVE  HInv'
    BY <1>n DEF HInv, DeviceInv, AfterFound, Runs, Gone, Failed
  <1>1. CASE AllocUrb
    BY <1>1, <1>e, <1>n, AllocateStep, Order DEF AllocUrb, Allocate
  <1>2. CASE AllocDevice
    BY <1>2, <1>e, <1>n, AllocateStep, Order DEF AllocDevice, Allocate
  <1>3. CASE AllocHeader
    BY <1>3, <1>e, <1>n, AllocateStep, Order DEF AllocHeader, Allocate
  <1>4. CASE AllocInterfaces
    <2>1. \/ Fine /\ pc' = "cleanup" /\ status' = "error"
          \/ Fine /\ pc' = "buildRequest"
                  /\ ptr' = [ptr EXCEPT !["interfaceBuffer"] = "interfaces"]
      BY <1>4, AllocateStep, Order DEF AllocInterfaces
    <2>2. pc = "allocInterfaces" /\ ptr["configDescriptor"] = "config2"
      BY <1>4 DEF AllocInterfaces, Allocate, HInv, DeviceInv
    <2>3. [ptr EXCEPT !["interfaceBuffer"] = "interfaces"]["configDescriptor"] = "config2"
      BY <2>2 DEF HInv, TypeOK, Pointers, Locals
    <2> QED
      BY <1>e, <1>n, <2>1, <2>2, <2>3
  <1>5. CASE AllocConfig
    <2>1. \/ Fine /\ pc' = "cleanup" /\ status' = "error"
          \/ Fine /\ pc' = "getConfig"
                  /\ ptr' = [ptr EXCEPT !["configDescriptor"] = "config2"]
      BY <1>5, ReplaceStep, Order DEF AllocConfig
    <2>2. pc = "allocConfig"
      BY <1>5 DEF AllocConfig, Replace
    <2>3. [ptr EXCEPT !["configDescriptor"] = "config2"]["configDescriptor"] = "config2"
      BY DEF HInv, TypeOK, Pointers, Locals
    <2> QED
      BY <1>e, <1>n, <2>1, <2>2, <2>3
  <1>6. CASE BuildRequest
    <2>1. \/ Fine /\ pc' = "cleanup" /\ status' = "error"
          \/ Fine /\ pc' = "checkEndpoints" /\ ptr' = [ptr EXCEPT !["urb"] = "urb2"]
      BY <1>6, ReplaceStep, Order DEF BuildRequest
    <2>2. pc = "buildRequest" /\ ptr["configDescriptor"] = "config2"
      BY <1>6 DEF BuildRequest, Replace, HInv, DeviceInv
    <2>3. [ptr EXCEPT !["urb"] = "urb2"]["configDescriptor"] = "config2"
      BY <2>2 DEF HInv, TypeOK, Pointers, Locals
    <2> QED
      BY <1>e, <1>n, <2>1, <2>2, <2>3
  <1>7. ASSUME NEW from, NEW next, Submit(from, next), Follows(from, next, {}),
               from \in {"getDevice", "getHeader", "getConfig"}
        PROVE  /\ Fine /\ pc = from /\ ptr' = ptr
               /\ pc' = next \/ (pc' = "cleanup" /\ status' # "success")
    <2>1. /\ pc = from
          /\ pc' = next \/ (pc' = "cleanup" /\ status' # "success")
          /\ status' \in Answers /\ configured' = configured
          /\ UNCHANGED <<device, memory, pipes, lastUrb>>
      BY <1>7 DEF Submit, Answers, NTSuccess, outside
    <2>2. configured' \in BOOLEAN
      BY <2>1 DEF HInv, TypeOK
    <2>3. TypeOK' /\ MemoryInv'
      BY <1>7, <2>1, <2>2, NoMemoryStep
    <2> QED
      BY <2>1, <2>3 DEF memory, pipes
  <1>8. CASE GetDevice \/ GetHeader \/ GetConfig
    <2>1. pc = "getConfig" => ptr["configDescriptor"] = "config2"
      BY DEF HInv, DeviceInv
    <2> QED
      BY <1>7, <1>8, <1>e, <1>n, <2>1, Order DEF GetDevice, GetHeader, GetConfig
  <1>9. CASE CheckEndpoints
    <2>1. /\ pc = "checkEndpoints"
          /\ \/ pc' = "select" /\ Endpoints'
             \/ pc' = "cleanup" /\ status' # "success"
          /\ status' \in Answers /\ configured' = configured
          /\ UNCHANGED <<device, memory, pipes, lastUrb>>
      BY <1>9 DEF CheckEndpoints, Endpoints, Answers, outside, HInv, TypeOK
    <2>2. configured' \in BOOLEAN
      BY <2>1 DEF HInv, TypeOK
    <2>3. Fine
      BY <2>1, <2>2, NoMemoryStep, Order DEF memory, pipes
    <2>4. ptr'["configDescriptor"] = "config2"
      BY <2>1 DEF HInv, DeviceInv, memory
    <2> QED
      BY <1>e, <1>n, <2>1, <2>3, <2>4
  <1> QED
    BY <1>1, <1>2, <1>3, <1>4, <1>5, <1>6, <1>8, <1>9

\* The selection of the configuration, and the last allocation.
LEMMA SelectNext == HInv /\ (SelectConfiguration \/ KeepInformation) => HInv'
  <1> SUFFICES ASSUME HInv, SelectConfiguration \/ KeepInformation PROVE HInv'
    OBVIOUS
  <1> USE DEF InFindHardware, BeforeSelect
  <1>e. ASSUME TypeOK', MemoryInv', pc \in {"select", "keepInformation"},
               pc' = "cleanup", status' # "success", outPipe' = outPipe
        PROVE  HInv'
    BY <1>e DEF HInv, DeviceInv, AfterFound, Runs, Gone, Failed
  <1>1. CASE SelectConfiguration
    <2>1. /\ pc = "select"
          /\ \/ pc' = "keepInformation" /\ configured' = TRUE
             \/ pc' = "cleanup" /\ status' # "success"
          /\ status' \in Answers /\ configured' \in BOOLEAN
          /\ UNCHANGED <<device, memory, pipes, lastUrb>>
      <3>1. PICK answer \in Answers :
               /\ status' = answer /\ configured' = NTSuccess(answer)
               /\ pc' = IF NTSuccess(answer) THEN "keepInformation" ELSE "cleanup"
        BY <1>1 DEF SelectConfiguration
      <3>2. pc = "select" /\ UNCHANGED <<device, memory, pipes, lastUrb>>
        BY <1>1 DEF SelectConfiguration
      <3>3. CASE NTSuccess(answer)
        BY <3>1, <3>2, <3>3
      <3>4. CASE ~NTSuccess(answer)
        BY <3>1, <3>2, <3>4 DEF NTSuccess
      <3> QED
        BY <3>3, <3>4
    <2>2. TypeOK' /\ MemoryInv'
      BY <2>1, NoMemoryStep, Order
    <2>3. ptr["configDescriptor"] = "config2" /\ Endpoints /\ outPipe = 0 /\ inPipe = 0
      BY <2>1 DEF HInv, DeviceInv
    <2>4. CASE pc' = "keepInformation" /\ configured' = TRUE
      BY <2>1, <2>2, <2>3, <2>4
      DEF HInv, DeviceInv, AfterFound, Runs, Gone, Failed, Endpoints, memory, pipes
    <2> QED
      BY <1>e, <2>1, <2>2, <2>4 DEF pipes
  <1>2. CASE KeepInformation
    <2>1. pc = "keepInformation"
      BY <1>2 DEF KeepInformation, Allocate
    <2>2. /\ TypeOK' /\ MemoryInv'
          /\ UNCHANGED <<device, configured, inPipe, outPipe>>
          /\ \/ /\ pc' = "storePipes"
                /\ ptr' = [ptr EXCEPT !["InterfaceInformation"] = "information"]
             \/ pc' = "cleanup" /\ status' = "error"
      BY <1>2, AllocateStep, Order DEF KeepInformation
    <2>3. ptr["configDescriptor"] = "config2" /\ Endpoints /\ outPipe = 0 /\ inPipe = 0
          /\ configured
      BY <2>1 DEF HInv, DeviceInv
    <2>4. CASE pc' = "storePipes"
               /\ ptr' = [ptr EXCEPT !["InterfaceInformation"] = "information"]
      <3>1. ptr'["configDescriptor"] = "config2"
        BY <2>3, <2>4 DEF HInv, TypeOK, Pointers, Locals
      <3> QED
        BY <2>2, <2>3, <2>4, <3>1
        DEF HInv, DeviceInv, AfterFound, Runs, Gone, Failed, Endpoints
    <2> QED
      BY <1>e, <2>1, <2>2, <2>4
  <1> QED
    BY <1>1, <1>2

\* The descriptor passes to the adapter, and the pipes become known.
LEMMA StorePipesNext == HInv /\ StorePipes => HInv'
  <1> SUFFICES ASSUME HInv, StorePipes PROVE HInv'
    OBVIOUS
  <1>1. /\ pc = "storePipes" /\ pc' = "cleanup"
        /\ UNCHANGED <<device, configured, live, badFree, status, lastUrb>>
        /\ ptr' = [ptr EXCEPT !["ConfigDescriptor"] = ptr["configDescriptor"],
                              !["configDescriptor"] = "null"]
    BY DEF StorePipes, outside
  <1>2. /\ Endpoints /\ configured /\ ptr["configDescriptor"] = "config2"
        /\ Sound /\ NonNull = {"adapter", "InterfaceInformation"} \cup Locals
    BY <1>1 DEF HInv, DeviceInv, MemoryInv, InFindHardware, Owns, Gone, Failed
  <1>3. outPipe' = 1 /\ inPipe' = 2
    <2>1. \A i \in 1 .. Len(device) : (device[i] = "out" <=> i = 1) /\ (device[i] = "in" <=> i = 2)
      BY <1>2 DEF Endpoints
    <2>2. 1 \in 1 .. Len(device) /\ 2 \in 1 .. Len(device)
      BY <1>2 DEF Endpoints
    <2>3. {i \in 1 .. Len(device) : device[i] = "out"} = {1}
      BY <2>1, <2>2
    <2>4. {i \in 1 .. Len(device) : device[i] = "in"} = {2}
      BY <2>1, <2>2
    <2>5. \A n \in 1 .. 2 : (CHOOSE i \in {n} : \A j \in {n} : j <= i) = n
      OBVIOUS
    <2>6. LastPipe("out", outPipe) = 1
      BY <2>3, <2>5 DEF LastPipe
    <2>7. LastPipe("in", inPipe) = 2
      BY <2>4, <2>5 DEF LastPipe
    <2> QED
      BY <2>6, <2>7 DEF StorePipes
  <1> DEFINE moved == (NonNull \ {"configDescriptor"}) \cup {"ConfigDescriptor"}
  <1>4. /\ \A p \in Pointers \ Config : ptr'[p] = ptr[p]
        /\ ptr'["ConfigDescriptor"] = "config2" /\ ptr'["configDescriptor"] = "null"
        /\ ptr' \in [Pointers -> Blocks \cup {"null"}]
    BY <1>1, <1>2 DEF Sound, Pointers, Locals, Fields, Config
  <1>5. NonNull' = moved
    BY <1>2, <1>4 DEF NonNull, Pointers, Locals, Fields, Config
  <1>6. {ptr'[p] : p \in moved} = {ptr[p] : p \in NonNull}
    <2>1. \A p \in NonNull \ {"configDescriptor"} : p \in Pointers \ Config
      BY <1>2 DEF NonNull, Config, Locals
    <2>2. "configDescriptor" \in NonNull
      BY <1>2 DEF Locals
    <2> QED
      BY <1>2, <1>4, <2>1, <2>2
  <1>7. Sound'
    <2>1. \A p \in NonNull' : ptr'[p] \in Home(p)
      BY <1>2, <1>4, <1>5 DEF Sound, Home, NonNull, Config, Locals, Pointers, Fields
    <2>2. ~(Config \subseteq NonNull')
      BY <1>5 DEF Config
    <2>3. live' = {ptr'[p] : p \in NonNull'} /\ live' \subseteq Blocks
      BY <1>1, <1>2, <1>5, <1>6 DEF Sound
    <2> QED
      BY <1>1, <1>2, <1>4, <2>1, <2>2, <2>3 DEF Sound
  <1>8. NonNull' \subseteq MayOwn("cleanup") /\ "adapter" \in NonNull'
        /\ "InterfaceInformation" \in NonNull'
    BY <1>2, <1>5 DEF MayOwn, Locals
  <1>9. TypeOK'
    <2>1. inPipe' \in 0 .. 2 /\ outPipe' \in 0 .. 2 /\ pc' \in PC
      BY <1>1, <1>3 DEF PC
    <2> QED
      BY <1>1, <1>4, <2>1 DEF HInv, TypeOK
  <1>10. MemoryInv'
    BY <1>1, <1>7, <1>8
    DEF MemoryInv, Gone, Failed, InFindHardware, BeforeSelect, AfterFound, Freeing, Runs
  <1>11. DeviceInv'
    BY <1>1, <1>2, <1>3, <1>4, <1>8
    DEF DeviceInv, Gone, Failed, InFindHardware, BeforeSelect, AfterFound, Runs, Found,
        Endpoints
  <1> QED
    BY <1>9, <1>10, <1>11 DEF HInv

\* SaitFindHardware's clean-up, after which either everything is there or
\* SaitFreeResources runs.
LEMMA CleanupNext == HInv /\ Cleanup => HInv'
  <1> SUFFICES ASSUME HInv, Cleanup PROVE HInv'
    OBVIOUS
  <1>1. /\ pc = "cleanup" /\ Release(Locals)
        /\ pc' = IF status = "success" THEN "registry" ELSE "freeSend"
        /\ UNCHANGED <<device, configured, inPipe, outPipe, status, lastUrb>>
    BY DEF Cleanup, outside, pipes
  <1>2. Sound /\ "adapter" \in NonNull /\ NonNull \subseteq MayOwn("cleanup")
    BY <1>1 DEF HInv, MemoryInv, Gone, Failed, Freeing
  <1>3. Sound' /\ NonNull' = NonNull \ Locals
    BY <1>1, <1>2, ReleaseSound DEF Pointers
  <1>4. /\ ptr'["ConfigDescriptor"] = ptr["ConfigDescriptor"]
    BY <1>1 DEF Release, Pointers, Fields, Locals
  <1>5. NonNull' \subseteq {"adapter", "ConfigDescriptor", "InterfaceInformation"}
        /\ "adapter" \in NonNull'
    BY <1>2, <1>3 DEF MayOwn, Locals
  <1>6. TypeOK'
    BY <1>1, <1>3 DEF HInv, TypeOK, Sound, PC
  <1>7. CASE status = "success"
    <2>1. Found
      BY <1>1, <1>7 DEF HInv, DeviceInv
    <2>2. Found'
      BY <1>1, <1>3, <1>4, <2>1 DEF Found, Endpoints, Locals
    <2>3. NonNull' = Owns("registry")
      <3>1. "ConfigDescriptor" \in NonNull' /\ "InterfaceInformation" \in NonNull'
        BY <2>2 DEF Found, NonNull, Pointers, Fields
      <3> QED
        BY <1>5, <3>1 DEF Owns
    <2>4. MemoryInv'
      BY <1>1, <1>3, <1>7, <2>3
      DEF MemoryInv, Gone, Failed, InFindHardware, BeforeSelect, AfterFound, Freeing, Runs
    <2>5. DeviceInv'
      BY <1>1, <1>7, <2>2
      DEF DeviceInv, Gone, Failed, InFindHardware, BeforeSelect, AfterFound, Runs
    <2> QED
      BY <1>6, <2>4, <2>5 DEF HInv
  <1>8. CASE status # "success"
    <2>1. MemoryInv'
      BY <1>1, <1>3, <1>5, <1>8
      DEF MemoryInv, Gone, Failed, InFindHardware, BeforeSelect, AfterFound, Freeing, Runs,
          MayOwn, Fields
    <2>2. DeviceInv'
      BY <1>1, <1>4, <1>8
      DEF HInv, DeviceInv, Gone, Failed, InFindHardware, BeforeSelect, AfterFound, Runs
    <2> QED
      BY <1>6, <2>1, <2>2 DEF HInv
  <1> QED
    BY <1>7, <1>8

\* The rest of SaitInitialize, and the beginning of SaitHalt.
LEMMA InitializeNext ==
  HInv /\ (CheckMedium \/ AllocAdapter \/ ReadRegistry \/ InitializeSend
           \/ InitializeReceive \/ EnableTail \/ Halt) => HInv'
  <1> SUFFICES ASSUME HInv,
                      CheckMedium \/ AllocAdapter \/ ReadRegistry \/ InitializeSend
                      \/ InitializeReceive \/ EnableTail \/ Halt
               PROVE  HInv'
    OBVIOUS
  <1> USE DEF InFindHardware, BeforeSelect, AfterFound, Gone, Failed, Runs, Freeing
  <1>1. CASE CheckMedium
    <2>1. /\ pc = "medium" /\ UNCHANGED <<device, configured, live, badFree, ptr, inPipe,
                                          outPipe, lastUrb>>
          /\ \/ pc' = "allocAdapter" /\ status' = status
             \/ pc' = "tail" /\ status' = "error"
      BY <1>1 DEF CheckMedium, outside, memory, pipes
    <2>2. Sound /\ NonNull = {} /\ outPipe = 0
      BY <2>1 DEF HInv, MemoryInv, DeviceInv, Owns
    <2>3. Sound' /\ NonNull' = {}
      BY <2>1, <2>2 DEF Sound, NonNull
    <2>4. live' = {} /\ \A p \in Pointers : ptr'[p] = "null"
      BY <2>3 DEF Sound, NonNull
    <2>5. TypeOK'
      BY <2>1 DEF HInv, TypeOK, PC, Answers
    <2>6. MemoryInv'
      BY <2>1, <2>3, <2>4 DEF MemoryInv, Sound, Owns
    <2>7. DeviceInv'
      BY <2>1, <2>2 DEF HInv, DeviceInv
    <2> QED
      BY <2>5, <2>6, <2>7 DEF HInv
  <1>2. CASE AllocAdapter
    <2>1. /\ pc = "allocAdapter" /\ badFree' = badFree
          /\ UNCHANGED <<device, configured, inPipe, outPipe, lastUrb>>
          /\ \/ /\ pc' = "allocUrb" /\ status' = status
                /\ live' = live \cup {"adapterBlock"}
                /\ ptr' = [ptr EXCEPT !["adapter"] = "adapterBlock"]
             \/ /\ pc' = "tail" /\ status' = "error" /\ live' = live
                /\ ptr' = [ptr EXCEPT !["adapter"] = "null"]
      BY <1>2 DEF AllocAdapter, Allocate, outside, pipes
    <2>2. Sound /\ NonNull = {} /\ outPipe = 0 /\ inPipe = 0
      BY <2>1 DEF HInv, MemoryInv, DeviceInv, Owns
    <2>3. CASE /\ pc' = "allocUrb" /\ status' = status
               /\ live' = live \cup {"adapterBlock"}
               /\ ptr' = [ptr EXCEPT !["adapter"] = "adapterBlock"]
      <3>1. "adapter" \in Pointers \ NonNull /\ "adapterBlock" \in Home("adapter")
            /\ "adapter" \notin Config
        BY <2>2 DEF Pointers, Home, Config
      <3>2. Sound' /\ NonNull' = {"adapter"}
        BY <2>1, <2>2, <2>3, <3>1, AllocateSound
      <3>3. TypeOK'
        BY <2>1, <2>3, <3>2 DEF HInv, TypeOK, Sound, PC
      <3>4. MemoryInv'
        BY <2>3, <3>2 DEF MemoryInv, Owns
      <3>5. DeviceInv'
        BY <2>1, <2>2, <2>3 DEF DeviceInv
      <3> QED
        BY <3>3, <3>4, <3>5 DEF HInv
    <2>4. CASE /\ pc' = "tail" /\ status' = "error" /\ live' = live
               /\ ptr' = [ptr EXCEPT !["adapter"] = "null"]
      <3>1. ptr' = ptr
        BY <2>2, <2>4 DEF Sound, NonNull
      <3>2. live' = {} /\ badFree' = FALSE /\ \A p \in Pointers : ptr'[p] = "null"
        BY <2>1, <2>2, <2>4, <3>1 DEF Sound, NonNull
      <3>3. TypeOK'
        BY <2>1, <2>4, <3>1 DEF HInv, TypeOK, PC, Answers
      <3>4. MemoryInv'
        BY <2>4, <3>2 DEF MemoryInv
      <3>5. DeviceInv'
        BY <2>1, <2>2, <2>4 DEF DeviceInv
      <3> QED
        BY <3>3, <3>4, <3>5 DEF HInv
    <2> QED
      BY <2>1, <2>3, <2>4
  <1>3. CASE ReadRegistry
    <2>1. pc = "registry" /\ pc' = "send"
          /\ UNCHANGED <<device, configured, live, badFree, ptr, inPipe, outPipe, status,
                         lastUrb>>
      BY <1>3 DEF ReadRegistry, outside, memory, pipes
    <2>2. Sound /\ NonNull = Owns("registry") /\ Found /\ status = "success"
      BY <2>1 DEF HInv, MemoryInv, DeviceInv
    <2>3. Sound' /\ NonNull' = Owns("send") /\ Found'
      BY <2>1, <2>2 DEF Sound, NonNull, Owns, Found, Endpoints
    <2>4. TypeOK'
      BY <2>1 DEF HInv, TypeOK, PC
    <2>5. MemoryInv' /\ DeviceInv'
      BY <2>1, <2>2, <2>3 DEF MemoryInv, DeviceInv
    <2> QED
      BY <2>4, <2>5 DEF HInv
  <1>4. CASE InitializeSend
    <2>1. /\ pc = "send" /\ pc' = "receive"
          /\ live' = live \cup {"send"} /\ ptr' = [ptr EXCEPT !["Send"] = "send"]
          /\ UNCHANGED <<device, configured, badFree, inPipe, outPipe, status, lastUrb>>
      BY <1>4 DEF InitializeSend, outside, pipes
    <2>2. Sound /\ NonNull = Owns("send") /\ Found /\ status = "success"
      BY <2>1 DEF HInv, MemoryInv, DeviceInv
    <2>3. "Send" \in Pointers \ NonNull /\ "send" \in Home("Send") /\ "Send" \notin Config
      BY <2>2 DEF Pointers, Fields, Home, Config, Owns
    <2>4. Sound' /\ NonNull' = NonNull \cup {"Send"}
      BY <2>1, <2>2, <2>3, AllocateSound
    <2>5. NonNull' = Owns("receive")
      BY <2>2, <2>4 DEF Owns
    <2>6. Found'
      <3>1. ptr'["ConfigDescriptor"] = ptr["ConfigDescriptor"]
        BY <2>1, <2>2 DEF Sound, Pointers, Fields
      <3> QED
        BY <2>1, <2>2, <2>4, <3>1 DEF Found, Endpoints
    <2>7. TypeOK'
      BY <2>1, <2>4 DEF HInv, TypeOK, Sound, PC
    <2>8. MemoryInv' /\ DeviceInv'
      BY <2>1, <2>2, <2>4, <2>5, <2>6 DEF MemoryInv, DeviceInv
    <2> QED
      BY <2>7, <2>8 DEF HInv
  <1>5. CASE InitializeReceive
    <2>1. /\ pc = "receive" /\ status' \in {"success", "error"}
          /\ pc' = IF status' = "success" THEN "tail" ELSE "freeSend"
          /\ UNCHANGED <<device, configured, badFree, inPipe, outPipe, lastUrb>>
          /\ \/ /\ live' = live \cup {"receive"}
                /\ ptr' = [ptr EXCEPT !["Receive"] = "receive"]
             \/ status' = "error" /\ live' = live /\ ptr' = ptr
      BY <1>5 DEF InitializeReceive, outside, pipes
    <2>2. Sound /\ NonNull = Owns("receive") /\ Found /\ status = "success"
      BY <2>1 DEF HInv, MemoryInv, DeviceInv
    <2>3. /\ Sound'
          /\ \/ NonNull' = NonNull \cup {"Receive"}
             \/ NonNull' = NonNull /\ status' = "error"
          /\ ptr'["ConfigDescriptor"] = ptr["ConfigDescriptor"]
      <3>1. "Receive" \in Pointers \ NonNull /\ "receive" \in Home("Receive")
            /\ "Receive" \notin Config
        BY <2>2 DEF Pointers, Fields, Home, Config, Owns
      <3>2. CASE /\ live' = live \cup {"receive"}
                 /\ ptr' = [ptr EXCEPT !["Receive"] = "receive"]
        <4>1. Sound' /\ NonNull' = NonNull \cup {"Receive"}
          BY <2>1, <2>2, <3>1, <3>2, AllocateSound
        <4>2. ptr'["ConfigDescriptor"] = ptr["ConfigDescriptor"]
          BY <2>2, <3>2 DEF Sound, Pointers, Fields
        <4> QED
          BY <4>1, <4>2
      <3>3. CASE status' = "error" /\ live' = live /\ ptr' = ptr
        BY <2>1, <2>2, <3>3 DEF Sound, NonNull
      <3> QED
        BY <2>1, <3>2, <3>3
    <2>4. Found'
      BY <2>1, <2>2, <2>3 DEF Found, Endpoints
    <2>5. NonNull' \subseteq MayOwn("freeSend") /\ "adapter" \in NonNull'
      BY <2>2, <2>3 DEF Owns, MayOwn, Fields
    <2>6. status' = "success" => NonNull' = {"adapter"} \cup Fields
      BY <2>2, <2>3 DEF Owns, Fields
    <2>7. TypeOK'
      BY <2>1, <2>3 DEF HInv, TypeOK, Sound, PC, Answers
    <2>8. MemoryInv'
      BY <2>1, <2>3, <2>5, <2>6 DEF MemoryInv
    <2>9. DeviceInv'
      BY <2>1, <2>4 DEF DeviceInv, Found
    <2> QED
      BY <2>7, <2>8, <2>9 DEF HInv
  <1>6. CASE EnableTail
    <2>1. /\ pc = "tail"
          /\ pc' = IF ptr["adapter"] = "null" THEN "crashed" ELSE "returned"
          /\ UNCHANGED <<device, configured, live, badFree, ptr, inPipe, outPipe, status,
                         lastUrb>>
      BY <1>6 DEF EnableTail, outside, memory, pipes
    <2>2. TypeOK'
      BY <2>1 DEF HInv, TypeOK, PC
    <2>3. NonNull' = NonNull /\ (Sound => Sound') /\ (Found => Found')
      BY <2>1 DEF NonNull, Sound, Found, Endpoints
    <2>4. status = "success" => ptr["adapter"] # "null"
      BY <2>1 DEF HInv, MemoryInv, NonNull
    <2>5. MemoryInv' /\ DeviceInv'
      BY <2>1, <2>3, <2>4 DEF HInv, MemoryInv, DeviceInv
    <2> QED
      BY <2>2, <2>5 DEF HInv
  <1>7. CASE Halt
    <2>1. pc = "returned" /\ status = "success" /\ pc' = "freeSend"
          /\ UNCHANGED <<device, configured, live, badFree, ptr, inPipe, outPipe, status,
                         lastUrb>>
      BY <1>7 DEF Halt, outside, memory, pipes
    <2>2. TypeOK'
      BY <2>1 DEF HInv, TypeOK, PC
    <2>3. NonNull' = NonNull /\ (Sound => Sound')
      BY <2>1 DEF NonNull, Sound
    <2>4. Found /\ NonNull = {"adapter"} \cup Fields
      BY <2>1 DEF HInv, MemoryInv, DeviceInv
    <2>5. MemoryInv'
      BY <2>1, <2>3, <2>4 DEF HInv, MemoryInv, MayOwn
    <2>6. DeviceInv'
      BY <2>1, <2>4 DEF DeviceInv, Found
    <2> QED
      BY <2>2, <2>5, <2>6 DEF HInv
  <1> QED
    BY <1>1, <1>2, <1>3, <1>4, <1>5, <1>6, <1>7

\* SaitFreeResources.
LEMMA FreeNext == HInv /\ FreeResources => HInv'
  <1> SUFFICES ASSUME HInv, FreeResources PROVE HInv'
    OBVIOUS
  <1> USE DEF InFindHardware, BeforeSelect, AfterFound, Gone, Failed, Runs, Freeing
  \* The steps that release fields of the adapter.
  <1>r. ASSUME NEW ps \in SUBSET Fields, Release(ps),
               pc \in {"freeSend", "freeReceive", "freeHardware"},
               pc' \in {"freeReceive", "deselect", "freeHardware", "freeAdapter"},
               MayOwn(pc) \ ps \subseteq MayOwn(pc'),
               UNCHANGED <<device, configured, inPipe, outPipe, status, lastUrb>>
        PROVE  TypeOK' /\ MemoryInv' /\ ("ConfigDescriptor" \notin ps =>
                                            ptr'["ConfigDescriptor"] = ptr["ConfigDescriptor"])
    <2>1. Sound /\ "adapter" \in NonNull /\ NonNull \subseteq MayOwn(pc)
      BY <1>r DEF HInv, MemoryInv
    <2>2. Sound' /\ NonNull' = NonNull \ ps
      BY <1>r, <2>1, ReleaseSound DEF Pointers
    <2>3. "adapter" \in NonNull' /\ NonNull' \subseteq MayOwn(pc')
      BY <1>r, <2>1, <2>2 DEF Fields
    <2>4. TypeOK'
      BY <1>r, <2>2 DEF HInv, TypeOK, Sound, PC
    <2>5. MemoryInv'
      BY <1>r, <2>2, <2>3 DEF MemoryInv
    <2> QED
      BY <1>r, <2>4, <2>5 DEF Release, Pointers, Fields
  <1>1. CASE FreeSend
    <2>1. /\ pc = "freeSend" /\ pc' = "freeReceive" /\ Release({"Send"})
          /\ UNCHANGED <<device, configured, inPipe, outPipe, status, lastUrb>>
      BY <1>1 DEF FreeSend, outside, pipes
    <2>2. MayOwn("freeSend") \ {"Send"} \subseteq MayOwn("freeReceive")
          /\ {"Send"} \in SUBSET Fields
      BY DEF MayOwn, Fields
    <2>3. TypeOK' /\ MemoryInv' /\ ptr'["ConfigDescriptor"] = ptr["ConfigDescriptor"]
      BY <1>r, <2>1, <2>2
    <2>4. DeviceInv'
      BY <2>1, <2>3 DEF HInv, DeviceInv
    <2> QED
      BY <2>3, <2>4 DEF HInv
  <1>2. CASE FreeReceive
    <2>1. /\ pc = "freeReceive" /\ Release({"Receive"})
          /\ pc' = IF ptr["ConfigDescriptor"] # "null" THEN "deselect" ELSE "freeHardware"
          /\ UNCHANGED <<device, configured, inPipe, outPipe, status, lastUrb>>
      BY <1>2 DEF FreeReceive, outside, pipes
    <2>2. MayOwn("freeReceive") \ {"Receive"} \subseteq MayOwn(pc')
          /\ {"Receive"} \in SUBSET Fields
      BY <2>1 DEF MayOwn, Fields
    <2>3. TypeOK' /\ MemoryInv' /\ ptr'["ConfigDescriptor"] = ptr["ConfigDescriptor"]
      BY <1>r, <2>1, <2>2
    <2>4. DeviceInv'
      BY <2>1, <2>3 DEF HInv, DeviceInv
    <2> QED
      BY <2>3, <2>4 DEF HInv
  <1>3. CASE Deselect
    <2>1. PICK answer \in Answers \cup {"noMemory"} :
             lastUrb' = answer /\ configured' = (configured /\ ~NTSuccess(answer))
      BY <1>3 DEF Deselect
    <2>2. /\ pc = "deselect" /\ pc' = "freeHardware"
          /\ UNCHANGED <<device, live, badFree, ptr, inPipe, outPipe, status>>
      BY <1>3 DEF Deselect, memory, pipes
    <2>3. configured' => lastUrb' \in {"error", "noMemory"}
      BY <2>1 DEF Answers, NTSuccess
    <2>4. configured' \in BOOLEAN /\ lastUrb' \in Answers \cup {"none", "noMemory"}
      BY <2>1 DEF HInv, TypeOK
    <2>5. NonNull' = NonNull /\ (Sound => Sound')
      BY <2>2 DEF NonNull, Sound
    <2>6. TypeOK'
      BY <2>2, <2>4 DEF HInv, TypeOK, PC
    <2>7. MemoryInv'
      BY <2>2, <2>5 DEF HInv, MemoryInv, MayOwn
    <2>8. DeviceInv'
      BY <2>2, <2>3 DEF DeviceInv
    <2> QED
      BY <2>6, <2>7, <2>8 DEF HInv
  <1>4. CASE FreeHardware
    <2>1. /\ pc = "freeHardware" /\ pc' = "freeAdapter"
          /\ Release({"ConfigDescriptor", "InterfaceInformation"})
          /\ UNCHANGED <<device, configured, inPipe, outPipe, status, lastUrb>>
      BY <1>4 DEF FreeHardware, outside, pipes
    <2>2. MayOwn("freeHardware") \ {"ConfigDescriptor", "InterfaceInformation"}
            \subseteq MayOwn("freeAdapter")
          /\ {"ConfigDescriptor", "InterfaceInformation"} \in SUBSET Fields
      BY DEF MayOwn, Fields
    <2>3. TypeOK' /\ MemoryInv'
      BY <1>r, <2>1, <2>2
    <2>4. DeviceInv'
      BY <2>1 DEF HInv, DeviceInv
    <2> QED
      BY <2>3, <2>4 DEF HInv
  <1>5. CASE FreeAdapter
    <2>1. /\ pc = "freeAdapter" /\ pc' = IF status = "success" THEN "over" ELSE "tail"
          /\ live' = live \ {ptr["adapter"]}
          /\ badFree' = (badFree \/ ptr["adapter"] \notin live)
          /\ UNCHANGED <<device, configured, ptr, inPipe, outPipe, status, lastUrb>>
      BY <1>5 DEF FreeAdapter, outside, pipes
    <2>2. Sound /\ NonNull = {"adapter"}
      BY <2>1 DEF HInv, MemoryInv, MayOwn
    <2>3. live = {ptr["adapter"]}
      BY <2>2 DEF Sound
    <2>4. live' = {} /\ badFree' = FALSE
          /\ \A p \in Pointers \ {"adapter"} : ptr'[p] = "null"
      BY <2>1, <2>2, <2>3 DEF Sound, NonNull
    <2>5. TypeOK'
      BY <2>1, <2>4 DEF HInv, TypeOK, PC
    <2>6. MemoryInv'
      BY <2>1, <2>4 DEF MemoryInv
    <2>7. DeviceInv'
      BY <2>1 DEF HInv, DeviceInv
    <2> QED
      BY <2>5, <2>6, <2>7 DEF HInv
  <1> QED
    BY <1>1, <1>2, <1>3, <1>4, <1>5 DEF FreeResources

----------------------------------------------------------------------------
\* Every step keeps the invariant.
LEMMA HInvNext == HInv /\ [Next]_vars => HInv'
  <1> SUFFICES ASSUME HInv, [Next]_vars PROVE HInv'
    OBVIOUS
  <1>1. CASE UNCHANGED vars
    <2>1. NonNull' = NonNull /\ Sound' = Sound /\ Found' = Found /\ Endpoints' = Endpoints
          /\ Gone' = Gone /\ Runs' = Runs
      BY <1>1 DEF vars, outside, memory, pipes, NonNull, Sound, Found, Endpoints, Gone,
                  Failed, Runs
    <2>2. TypeOK'
      BY <1>1 DEF vars, outside, memory, pipes, HInv, TypeOK
    <2>3. MemoryInv'
      BY <1>1, <2>1 DEF vars, outside, memory, pipes, HInv, MemoryInv, Failed
    <2>4. DeviceInv'
      BY <1>1, <2>1 DEF vars, outside, memory, pipes, HInv, DeviceInv
    <2> QED
      BY <2>2, <2>3, <2>4 DEF HInv
  <1>2. CASE Next
    BY <1>2, FindHardwareNext, SelectNext, StorePipesNext, CleanupNext, InitializeNext,
       FreeNext DEF Next, FindHardware
  <1> QED
    BY <1>1, <1>2

\* The types hold: among others the pipes the driver keeps are two of the interface's.
THEOREM HardwareTypeCorrect == Spec => []TypeOK
  <1>1. HInv => TypeOK
    BY DEF HInv
  <1> QED
    BY HInvInit, HInvNext, <1>1, PTL DEF Spec

\* One variable to a block, at every point of every path.
LEMMA HInvOneOwner == HInv => OneOwner
  <1> SUFFICES ASSUME HInv PROVE OneOwner
    OBVIOUS
  <1>1. CASE Gone
    BY <1>1 DEF HInv, MemoryInv, OneOwner
  <1>2. CASE ~Gone
    <2>1. Sound
      BY <1>2 DEF HInv, MemoryInv
    <2>2. ASSUME NEW block \in live
          PROVE  \E p \in Pointers : ptr[p] = block /\ \A q \in Pointers : ptr[q] = block => q = p
      <3>1. PICK p \in NonNull : ptr[p] = block
        BY <2>1, <2>2 DEF Sound
      <3>2. \A q \in Pointers : ptr[q] = block => q \in NonNull
        BY <3>1 DEF NonNull
      <3>3. \A q \in Pointers : ptr[q] = block => q = p
        BY <2>1, <3>1, <3>2, Distinct
      <3> QED
        BY <3>1, <3>3 DEF NonNull
    <2> QED
      BY <2>1, <2>2 DEF OneOwner, Sound
  <1> QED
    BY <1>1, <1>2

\* So no path of SaitFindHardware frees a block twice or frees one that another
\* variable still points to, whatever fails.
THEOREM BlocksHaveOneOwner == Spec => []OneOwner
  BY HInvInit, HInvNext, HInvOneOwner, PTL DEF Spec

\* A failed SaitInitialize and a finished SaitHalt leave no memory of the adapter.
THEOREM NoMemoryLeaks == Spec => []NothingLeaks
  <1>1. HInv => NothingLeaks
    BY DEF HInv, MemoryInv, NothingLeaks, Ended, Gone, Failed
  <1> QED
    BY HInvInit, HInvNext, <1>1, PTL DEF Spec

\* An adapter that runs has everything, and its pipes are an in and an out endpoint.
LEMMA HInvComplete == HInv => RunningIsComplete
  <1> SUFFICES ASSUME HInv, pc = "returned", status = "success"
               PROVE  /\ configured
                      /\ live = {"adapterBlock", "config2", "information", "send", "receive"}
                      /\ device[inPipe] = "in" /\ device[outPipe] = "out" /\ outPipe = 1
    BY DEF RunningIsComplete
  <1>1. Found
    BY DEF HInv, DeviceInv, Runs
  <1>2. Sound /\ NonNull = {"adapter"} \cup Fields
    BY DEF HInv, MemoryInv, Runs, Gone, Failed
  <1>3. /\ ptr["adapter"] = "adapterBlock" /\ ptr["ConfigDescriptor"] = "config2"
        /\ ptr["InterfaceInformation"] = "information"
        /\ ptr["Send"] = "send" /\ ptr["Receive"] = "receive"
    <2>1. \A p \in {"adapter"} \cup Fields : ptr[p] \in Home(p)
      BY <1>2 DEF Sound
    <2> QED
      BY <1>1, <2>1 DEF Home, Fields, Found
  <1>4. live = {"adapterBlock", "config2", "information", "send", "receive"}
    BY <1>2, <1>3 DEF Sound, Fields
  <1> QED
    BY <1>1, <1>4 DEF Found, Endpoints

\* SaitInitialize succeeds only with everything there, on the devices it is for.
THEOREM SuccessMeansComplete == Spec => []RunningIsComplete
  BY HInvInit, HInvNext, HInvComplete, PTL DEF Spec

\* Every end deselects the configuration that was handed over, if it can.
THEOREM EndsDeselect == Spec => []EndDeselects
  <1>1. HInv => EndDeselects
    BY DEF HInv, DeviceInv, EndDeselects, Ended, Gone, Failed
  <1> QED
    BY HInvInit, HInvNext, <1>1, PTL DEF Spec
============================================================================
