------------------------ MODULE ArduinoPlatformProofs ------------------------
(***************************************************************************)
(* Proofs about ArduinoPlatform for every value of the constants: the     *)
(* type invariant, the consistency of the slot table with the devices'    *)
(* instances (SlotTableConsistent) and the frame-delivery invariants.     *)
(*                                                                         *)
(* Neither TypeOK nor SlotTableConsistent is inductive alone.  TypeOK      *)
(* needs the table's consistency (used_controllers_ is decremented only    *)
(* while a slot is assigned, so it stays >= 0) and facts about the         *)
(* contexts' program counters.  SlotTableConsistent needs TypeOK and what  *)
(* on_device_ready has done when it stops between its claim of a slot and *)
(* its fill of the slot (FillInv): the claimed slot is still blank and its *)
(* device still has no slot.  IInv is their conjunction.                  *)
(***************************************************************************)
EXTENDS ArduinoPlatform, FiniteSetTheorems, SequenceTheorems, TLAPS

(* The type of a controllers_[] entry, as TypeOK states it. *)
SlotRecord == [idx : SlotIdx \cup {INVALID},
               btaddr : Devices \cup {NoDevice},
               type : Nat, subtype : Nat,
               flags : SUBSET CapabilityFlags,
               data : Frames,
               dataUpdated : BOOLEAN]

(* What the program counters imply about the rest of the state. *)
ControlInv ==
    /\ btPc # "idle" => btDev \in Devices
    /\ btPc \in {"drain", "publish"} => frames < MaxPublications
    /\ app.pc = "send" => app.op \in Cmds

(* Between the claim and the fill of on_device_ready: the claimed slot     *)
(* names itself, its device is connected without a slot, and the table is  *)
(* not full.                                                               *)
FillInv ==
    btPc = "fill" =>
        /\ btSlot \in SlotIdx
        /\ controllers[btSlot].idx = btSlot
        /\ btDev \in connected
        /\ controllerIdx[btDev] = INVALID
        /\ usedControllers < MaxDevices

(* A free or claimed slot is blank and unflagged, and a slot holding an    *)
(* address is the slot of that device's instance.                          *)
OwnerInv ==
    /\ \A i \in SlotIdx : controllers[i].idx = INVALID \/ i \in ClaimedSlots =>
          /\ controllers[i].btaddr = NoDevice
          /\ ~controllers[i].dataUpdated
    /\ \A i \in SlotIdx : controllers[i].btaddr # NoDevice =>
          controllerIdx[controllers[i].btaddr] = i

IInv == TypeOK /\ SlotTableConsistent /\ ControlInv /\ FillInv /\ OwnerInv

(* Strengthening of UndeliveredFrameIsFlagged for NoRedelivery: frame     *)
(* numbers are handed out once (every stored or returned frame is at most *)
(* the last one, and two slots never hold the same frame), a flagged      *)
(* frame has not been returned, and while the application holds the      *)
(* mutex between its flag test and its copy the frame it will copy has    *)
(* not been returned either (a disconnect in between zeroes it).          *)
DeliveryInv ==
    /\ \A i \in SlotIdx : controllers[i].data <= frames
    /\ delivered \subseteq 1 .. frames
    /\ \A i, j \in SlotIdx :
          i # j /\ controllers[i].data # 0 =>
              controllers[i].data # controllers[j].data
    /\ \A i \in SlotIdx :
          controllers[i].dataUpdated => controllers[i].data \notin delivered
    /\ UndeliveredFrameIsFlagged
    /\ appHoldsMutex <=> app.pc = "copy"
    /\ app.pc = "copy" => controllers[app.idx].data \notin delivered

-----------------------------------------------------------------------------
(* Facts about the slot table's helpers. *)

(* Every set of slots is finite, with at most MaxDevices elements. *)
LEMMA SlotSetsFinite ==
    ASSUME NEW S \in SUBSET SlotIdx
    PROVE  /\ IsFiniteSet(S)
           /\ Cardinality(S) \in 0 .. MaxDevices
<1>1. IsFiniteSet(SlotIdx) /\ Cardinality(SlotIdx) = MaxDevices
    BY ConstantsAssumption, FS_Interval DEF SlotIdx
<1>2. QED
    BY <1>1, FS_Subset, FS_CardinalityType

(* FirstFreeSlot is INVALID or a free slot. *)
LEMMA FirstFreeSlotFree ==
    FirstFreeSlot # INVALID =>
        FirstFreeSlot \in SlotIdx /\ controllers[FirstFreeSlot].idx = INVALID
BY DEF FirstFreeSlot, FreeSlots

-----------------------------------------------------------------------------
(* The initial state satisfies IInv. *)
LEMMA InitIInv == Init => IInv
<1> SUFFICES ASSUME Init PROVE IInv
    OBVIOUS
<1>1. AssignedSlots = {} /\ ClaimedSlots = {}
    BY DEF Init, AssignedSlots, ClaimedSlots, BlankController, INVALID
<1>2. TypeOK
    <2>1. controllers \in [SlotIdx -> SlotRecord]
        BY ConstantsAssumption DEF Init, BlankController, Frames, SlotRecord
    <2>2. app \in [pc : {"idle", "get_data", "copy", "get_properties", "send"},
                   op : AppOps, idx : SlotIdx, for : Devices \cup {NoDevice}]
        BY ConstantsAssumption DEF Init, AppIdle, AppOps, SlotIdx
    <2>3. pendingQueue \in Seq(Request) /\ Len(pendingQueue) <= MaxPendingRequests
        BY ConstantsAssumption DEF Init
    <2>4. controllerIdx \in [Devices -> SlotIdx \cup {INVALID}]
          /\ btSlot \in SlotIdx \cup {INVALID}
        BY DEF Init
    <2>5. usedControllers \in 0 .. MaxDevices /\ frames \in Frames
        BY ConstantsAssumption DEF Init, Frames
    <2>6. QED
        BY <2>1, <2>2, <2>3, <2>4, <2>5 DEF Init, TypeOK, SlotRecord
<1>3. SlotTableConsistent
    BY <1>1, FS_EmptySet DEF Init, SlotTableConsistent, BlankController
<1>4. ControlInv /\ FillInv /\ OwnerInv
    BY <1>1 DEF Init, ControlInv, FillInv, OwnerInv, AppIdle, BlankController
<1>5. QED
    BY <1>2, <1>3, <1>4 DEF IInv

(* A step that changes nothing keeps IInv. *)
LEMMA StutterIInv ==
    ASSUME IInv, UNCHANGED vars
    PROVE  IInv'
BY DEF IInv, vars, TypeOK, SlotTableConsistent, ControlInv, FillInv, OwnerInv,
       AssignedSlots, ClaimedSlots

(* A step that keeps every device's controller_idx, the counter, every    *)
(* slot's idx and btaddr and the claimed slot, loses no device and sets    *)
(* data_updated only on a slot that is assigned, keeps the table's part    *)
(* of IInv.  TypeOK' and ControlInv' are the step's own business.          *)
LEMMA FrameIInv ==
    ASSUME IInv, TypeOK',
           connected \subseteq connected',
           UNCHANGED <<controllerIdx, usedControllers, btSlot>>,
           (btPc' = "fill") <=> (btPc = "fill"),
           btPc = "fill" => btDev' = btDev,
           \A i \in SlotIdx :
              /\ controllers'[i].idx = controllers[i].idx
              /\ controllers'[i].btaddr = controllers[i].btaddr
              /\ controllers'[i].dataUpdated =>
                    \/ controllers[i].dataUpdated
                    \/ controllers[i].idx # INVALID /\ i \notin ClaimedSlots
    PROVE  SlotTableConsistent' /\ FillInv' /\ OwnerInv'
<1>1. AssignedSlots' = AssignedSlots /\ ClaimedSlots' = ClaimedSlots
    BY DEF AssignedSlots, ClaimedSlots
<1>2. SlotTableConsistent'
    <2>1. ASSUME NEW d \in Devices, controllerIdx'[d] # INVALID
          PROVE  /\ d \in connected'
                 /\ controllers'[controllerIdx'[d]].idx # INVALID
                 /\ controllers'[controllerIdx'[d]].btaddr = d
        <3>1. controllerIdx[d] \in SlotIdx
            BY <2>1 DEF IInv, TypeOK
        <3>2. QED
            BY <2>1, <3>1 DEF IInv, SlotTableConsistent
    <2>2. QED
        BY <1>1, <2>1 DEF IInv, SlotTableConsistent
<1>3. FillInv'
    BY DEF IInv, FillInv
<1>4. OwnerInv'
    BY <1>1 DEF IInv, OwnerInv
<1>5. QED
    BY <1>2, <1>3, <1>4

-----------------------------------------------------------------------------
(* One lemma per callback step that writes the slot table. *)

(* The claim of on_device_ready either rejects the device (nothing        *)
(* changes) or writes idx into the first free slot, which becomes the     *)
(* claimed slot: the assigned slots grow by the claimed one.              *)
LEMMA ReadyClaimIInv ==
    ASSUME IInv, NEW d \in Devices, ReadyClaim(d)
    PROVE  IInv'
<1> USE DEF IInv
<1> DEFINE i == FirstFreeSlot
<1>1. CASE usedControllers = MaxDevices \/ controllerIdx[d] # INVALID
           \/ i = INVALID
    <2>1. UNCHANGED vars
        BY <1>1 DEF ReadyClaim, vars
    <2>2. QED
        BY <2>1, StutterIInv
<1>2. CASE ~(usedControllers = MaxDevices \/ controllerIdx[d] # INVALID
             \/ i = INVALID)
    <2>1. /\ i \in SlotIdx
          /\ controllers[i].idx = INVALID
          /\ controllerIdx[d] = INVALID
          /\ usedControllers \in 0 .. MaxDevices - 1
          /\ btPc = "idle"
          /\ d \in connected
        BY <1>2, FirstFreeSlotFree, ConstantsAssumption DEF TypeOK, ReadyClaim
    <2>2. /\ btPc' = "fill" /\ btDev' = d /\ btSlot' = i
          /\ UNCHANGED <<connected, controllerIdx, usedControllers, pendingQueue,
                         appHoldsMutex, app, frames, delivered,
                         disconnectRequested>>
        BY <1>2 DEF ReadyClaim
    <2>20. controllers' = [controllers EXCEPT ![i].idx = i]
        BY <1>2 DEF ReadyClaim
    <2>3. /\ controllers'[i] = [idx |-> i,
                                   btaddr |-> controllers[i].btaddr,
                                   type |-> controllers[i].type,
                                   subtype |-> controllers[i].subtype,
                                   flags |-> controllers[i].flags,
                                   data |-> controllers[i].data,
                                   dataUpdated |-> controllers[i].dataUpdated]
          /\ \A j \in SlotIdx \ {i} : controllers'[j] = controllers[j]
        BY <2>1, <2>20 DEF TypeOK, SlotRecord
    <2>4. TypeOK'
        <3>1. controllers' \in [SlotIdx -> SlotRecord]
            <4>1. \A j \in SlotIdx : controllers'[j] \in SlotRecord
                BY <2>1, <2>3 DEF TypeOK, SlotRecord
            <4>2. QED
                BY <2>20, <4>1 DEF TypeOK
        <3>2. QED
            BY <2>1, <2>2, <3>1 DEF TypeOK, SlotRecord
    <2>5. ControlInv' /\ FillInv'
        <3>1. ControlInv'
            BY <2>1, <2>2 DEF ControlInv
        <3>2. controllers'[i].idx = i
            BY <2>3
        <3>3. usedControllers' < MaxDevices
            BY <2>1, <2>2, ConstantsAssumption
        <3>4. /\ btSlot' \in SlotIdx
              /\ controllers'[btSlot'].idx = btSlot'
              /\ btDev' \in connected'
              /\ controllerIdx'[btDev'] = INVALID
            BY <2>1, <2>2, <3>2
        <3>5. FillInv'
            BY <3>3, <3>4 DEF FillInv
        <3>6. QED
            BY <3>1, <3>5
    <2>6. ClaimedSlots = {} /\ ClaimedSlots' = {i}
        BY <2>1, <2>2 DEF ClaimedSlots
    <2>7. AssignedSlots' = AssignedSlots \cup {i} /\ i \notin AssignedSlots
        BY <2>1, <2>3 DEF AssignedSlots, TypeOK, SlotIdx, INVALID
    <2>8. AssignedSlots' \ ClaimedSlots' = AssignedSlots \ ClaimedSlots
        BY <2>6, <2>7
    <2>9. \A e \in Devices : controllerIdx[e] # INVALID => controllerIdx[e] # i
        BY <2>1 DEF SlotTableConsistent
    <2>10. SlotTableConsistent'
        <3>1. usedControllers' = Cardinality(AssignedSlots' \ ClaimedSlots')
            BY <2>2, <2>8 DEF SlotTableConsistent
        <3>2. ASSUME NEW j \in SlotIdx PROVE controllers'[j].idx \in {INVALID, j}
            <4>1. CASE j = i
                BY <2>3, <4>1
            <4>2. CASE j # i
                BY <2>3, <4>2 DEF SlotTableConsistent
            <4>3. QED
                BY <4>1, <4>2
        <3>3. ASSUME NEW e \in Devices, controllerIdx'[e] # INVALID
              PROVE  /\ e \in connected'
                     /\ controllers'[controllerIdx'[e]].idx # INVALID
                     /\ controllers'[controllerIdx'[e]].btaddr = e
            <4>1. controllerIdx[e] \in SlotIdx \ {i}
                BY <2>2, <2>9, <3>3 DEF TypeOK
            <4>2. QED
                BY <2>2, <2>3, <3>3, <4>1 DEF SlotTableConsistent
        <3>4. \A j \in AssignedSlots' \ ClaimedSlots' :
                 \E e \in connected' : controllerIdx'[e] = j
            BY <2>2, <2>8 DEF SlotTableConsistent
        <3>5. QED
            BY <3>1, <3>2, <3>3, <3>4 DEF SlotTableConsistent
    <2>11. OwnerInv'
        <3>1. ASSUME NEW j \in SlotIdx,
                     controllers'[j].idx = INVALID \/ j \in ClaimedSlots'
              PROVE  /\ controllers'[j].btaddr = NoDevice
                     /\ ~controllers'[j].dataUpdated
            BY <2>1, <2>3, <2>6, <3>1 DEF OwnerInv, TypeOK
        <3>2. ASSUME NEW j \in SlotIdx, controllers'[j].btaddr # NoDevice
              PROVE  controllerIdx'[controllers'[j].btaddr] = j
            BY <2>1, <2>2, <2>3, <3>2 DEF OwnerInv, TypeOK
        <3>3. QED
            BY <3>1, <3>2 DEF OwnerInv
    <2>12. QED
        BY <2>4, <2>5, <2>10, <2>11
<1>3. QED
    BY <1>1, <1>2

(* The fill of on_device_ready gives the claimed slot its device's        *)
(* address and properties and counts it: the claimed slot joins the        *)
(* counted ones.                                                           *)
LEMMA ReadyFillIInv ==
    ASSUME IInv, ReadyFill
    PROVE  IInv'
<1> USE DEF IInv
<1> DEFINE s == btSlot
           e0 == btDev
<1>1. /\ s \in SlotIdx
      /\ controllers[s].idx = s
      /\ e0 \in connected /\ e0 \in Devices
      /\ controllerIdx[e0] = INVALID
      /\ usedControllers \in 0 .. MaxDevices - 1
      /\ ClaimedSlots = {s}
    BY ConstantsAssumption DEF ReadyFill, FillInv, ClaimedSlots, TypeOK, ControlInv
<1>2. controllers[s].btaddr = NoDevice /\ ~controllers[s].dataUpdated
    BY <1>1 DEF OwnerInv
<1>3. /\ controllers' = [controllers EXCEPT ![s] =
            [@ EXCEPT !.btaddr = e0, !.type = ControllerType[e0],
                      !.subtype = ControllerType[e0],
                      !.flags = Capabilities[e0]]]
      /\ controllerIdx' = [controllerIdx EXCEPT ![e0] = s]
      /\ usedControllers' = usedControllers + 1
      /\ btPc' = "idle" /\ btDev' = NoDevice /\ btSlot' = INVALID
      /\ UNCHANGED <<connected, pendingQueue, appHoldsMutex, app, frames,
                     delivered, disconnectRequested>>
    BY DEF ReadyFill
<1>4. /\ controllers'[s] = [idx |-> s, btaddr |-> e0,
                            type |-> ControllerType[e0],
                            subtype |-> ControllerType[e0],
                            flags |-> Capabilities[e0],
                            data |-> controllers[s].data,
                            dataUpdated |-> controllers[s].dataUpdated]
      /\ \A j \in SlotIdx \ {s} : controllers'[j] = controllers[j]
    BY <1>1, <1>3 DEF TypeOK, SlotRecord
<1>5. /\ controllerIdx'[e0] = s
      /\ \A e \in Devices \ {e0} : controllerIdx'[e] = controllerIdx[e]
    BY <1>1, <1>3 DEF TypeOK
<1>6. TypeOK'
    <2>1. controllers'[s] \in SlotRecord
        BY <1>1, <1>4, ConstantsAssumption DEF TypeOK, SlotRecord
    <2>2. controllers' \in [SlotIdx -> SlotRecord]
        BY <1>1, <1>3, <1>4, <2>1 DEF TypeOK, SlotRecord
    <2>3. controllerIdx' \in [Devices -> SlotIdx \cup {INVALID}]
        BY <1>1, <1>3 DEF TypeOK
    <2>4. usedControllers' \in 0 .. MaxDevices
        BY <1>1, <1>3, ConstantsAssumption
    <2>5. QED
        BY <1>3, <2>2, <2>3, <2>4 DEF TypeOK, SlotRecord
<1>7. ControlInv' /\ FillInv'
    BY <1>3 DEF ControlInv, FillInv
<1>8. AssignedSlots' = AssignedSlots /\ ClaimedSlots' = {} /\ s \in AssignedSlots
    BY <1>1, <1>3, <1>4 DEF AssignedSlots, ClaimedSlots, SlotIdx, INVALID
<1>9. \A e \in Devices : controllerIdx[e] # INVALID =>
          controllerIdx[e] # s /\ e # e0
    BY <1>1, <1>2, ConstantsAssumption DEF SlotTableConsistent
<1>10. SlotTableConsistent'
    <2>1. usedControllers' = Cardinality(AssignedSlots' \ ClaimedSlots')
        <3>1. IsFiniteSet(AssignedSlots)
            BY SlotSetsFinite DEF AssignedSlots
        <3>2. Cardinality(AssignedSlots \ {s}) = Cardinality(AssignedSlots) - 1
            BY <1>8, <3>1, FS_RemoveElement
        <3>3. usedControllers = Cardinality(AssignedSlots \ {s})
            BY <1>1 DEF SlotTableConsistent
        <3>4. Cardinality(AssignedSlots) \in Nat
            BY <3>1, FS_CardinalityType
        <3>5. AssignedSlots' \ ClaimedSlots' = AssignedSlots
            BY <1>8
        <3>6. usedControllers' = usedControllers + 1
            BY <1>3
        <3>7. Cardinality(AssignedSlots' \ ClaimedSlots') = Cardinality(AssignedSlots)
            BY <3>5
        <3>8. usedControllers' = Cardinality(AssignedSlots)
            BY <3>2, <3>3, <3>4, <3>6
        <3>9. QED
            BY <3>7, <3>8
    <2>2. \A j \in SlotIdx : controllers'[j].idx \in {INVALID, j}
        BY <1>4 DEF SlotTableConsistent
    <2>3. ASSUME NEW e \in Devices, controllerIdx'[e] # INVALID
          PROVE  /\ e \in connected'
                 /\ controllers'[controllerIdx'[e]].idx # INVALID
                 /\ controllers'[controllerIdx'[e]].btaddr = e
        <3>1. CASE e = e0
            BY <1>1, <1>3, <1>4, <1>5, <3>1 DEF SlotIdx, INVALID
        <3>2. CASE e # e0
            <4>1. controllerIdx'[e] = controllerIdx[e]
                  /\ controllerIdx[e] # INVALID
                BY <1>5, <2>3, <3>2
            <4>2. controllerIdx[e] # s /\ controllerIdx[e] \in SlotIdx
                BY <1>9, <4>1 DEF TypeOK
            <4>3. QED
                BY <1>3, <1>4, <4>1, <4>2 DEF SlotTableConsistent
        <3>3. QED
            BY <3>1, <3>2
    <2>4. ASSUME NEW j \in AssignedSlots' \ ClaimedSlots'
          PROVE  \E e \in connected' : controllerIdx'[e] = j
        <3>1. CASE j = s
            BY <1>1, <1>3, <1>5, <3>1
        <3>2. CASE j # s
            <4>1. j \in AssignedSlots \ ClaimedSlots
                BY <1>1, <1>8, <2>4, <3>2
            <4>2. PICK e \in connected : controllerIdx[e] = j
                BY <4>1 DEF SlotTableConsistent
            <4>3. e # e0 /\ e \in Devices
                BY <1>1, <4>1, <4>2 DEF TypeOK, AssignedSlots, SlotIdx, INVALID
            <4>4. QED
                BY <1>3, <1>5, <4>2, <4>3
        <3>3. QED
            BY <3>1, <3>2
    <2>5. QED
        BY <2>1, <2>2, <2>3, <2>4 DEF SlotTableConsistent
<1>11. OwnerInv'
    <2>1. ASSUME NEW j \in SlotIdx,
                 controllers'[j].idx = INVALID \/ j \in ClaimedSlots'
          PROVE  /\ controllers'[j].btaddr = NoDevice
                 /\ ~controllers'[j].dataUpdated
        <3>1. j # s /\ controllers[j].idx = INVALID
            BY <1>4, <1>8, <2>1 DEF SlotIdx, INVALID
        <3>2. QED
            BY <1>4, <3>1 DEF OwnerInv
    <2>2. ASSUME NEW j \in SlotIdx, controllers'[j].btaddr # NoDevice
          PROVE  controllerIdx'[controllers'[j].btaddr] = j
        <3>1. CASE j = s
            BY <1>4, <1>5, <3>1
        <3>2. CASE j # s
            <4>1. controllers'[j].btaddr = controllers[j].btaddr
                  /\ controllerIdx[controllers[j].btaddr] = j
                BY <1>4, <2>2, <3>2 DEF OwnerInv
            <4>2. controllers[j].btaddr \in Devices \ {e0}
                BY <1>1, <2>2, <4>1 DEF TypeOK, SlotIdx, INVALID
            <4>3. QED
                BY <1>5, <4>1, <4>2
        <3>3. QED
            BY <3>1, <3>2
    <2>3. QED
        BY <2>1, <2>2 DEF OwnerInv
<1>12. QED
    BY <1>6, <1>7, <1>10, <1>11

(* on_device_disconnected frees the device's slot, if it has one. *)
LEMMA DisconnectIInv ==
    ASSUME IInv, NEW d \in Devices, Disconnect(d)
    PROVE  IInv'
<1> USE DEF IInv
<1>1. /\ d \in connected
      /\ connected' = connected \ {d}
      /\ disconnectRequested' = disconnectRequested \ {d}
      /\ btPc = "idle"
      /\ UNCHANGED <<btSlot, pendingQueue, appHoldsMutex, btPc, btDev, app,
                     frames, delivered>>
    BY DEF Disconnect
<1>2. ControlInv' /\ FillInv'
    BY <1>1 DEF ControlInv, FillInv
<1>3. ClaimedSlots = {} /\ ClaimedSlots' = {}
    BY <1>1 DEF ClaimedSlots
<1>4. CASE controllerIdx[d] = INVALID
    <2>1. UNCHANGED <<controllerIdx, controllers, usedControllers>>
        BY <1>4 DEF Disconnect
    <2>2. TypeOK'
        BY <1>1, <2>1 DEF TypeOK
    <2>3. AssignedSlots' = AssignedSlots
        BY <2>1 DEF AssignedSlots
    <2>4. \A e \in Devices : controllerIdx[e] # INVALID => e # d
        BY <1>4
    <2>5. SlotTableConsistent'
        <3>1. \A j \in AssignedSlots : \E e \in connected' : controllerIdx[e] = j
            BY <1>1, <1>3, <2>4
            DEF SlotTableConsistent, AssignedSlots, SlotIdx, INVALID
        <3>2. QED
            BY <1>1, <1>3, <2>1, <2>3, <2>4, <3>1 DEF SlotTableConsistent
    <2>6. OwnerInv'
        BY <1>3, <2>1 DEF OwnerInv
    <2>7. QED
        BY <1>2, <2>2, <2>5, <2>6
<1>5. CASE controllerIdx[d] # INVALID
    <2> DEFINE k == controllerIdx[d]
    <2>1. /\ k \in SlotIdx
          /\ controllers[k].idx # INVALID
          /\ controllers[k].btaddr = d
        BY <1>5 DEF TypeOK, SlotTableConsistent
    <2>2. /\ usedControllers' = usedControllers - 1
          /\ controllers' = [controllers EXCEPT ![k] = BlankController]
          /\ controllerIdx' = [controllerIdx EXCEPT ![d] = INVALID]
        BY <1>5 DEF Disconnect
    <2>3. /\ controllers'[k] = BlankController
          /\ \A j \in SlotIdx \ {k} : controllers'[j] = controllers[j]
          /\ controllerIdx'[d] = INVALID
          /\ \A e \in Devices \ {d} : controllerIdx'[e] = controllerIdx[e]
        BY <2>1, <2>2 DEF TypeOK
    <2>4. AssignedSlots' = AssignedSlots \ {k} /\ k \in AssignedSlots
        BY <2>1, <2>3 DEF AssignedSlots, BlankController
    <2>5. usedControllers' = Cardinality(AssignedSlots' \ ClaimedSlots')
        <3>1. IsFiniteSet(AssignedSlots)
            BY SlotSetsFinite DEF AssignedSlots
        <3>2. Cardinality(AssignedSlots') = Cardinality(AssignedSlots) - 1
            BY <3>1, <2>4, FS_RemoveElement
        <3>3. usedControllers = Cardinality(AssignedSlots)
            BY <1>3 DEF SlotTableConsistent
        <3>4. usedControllers' = Cardinality(AssignedSlots')
            BY <2>2, <3>2, <3>3
        <3>5. QED
            BY <1>3, <3>4
    <2>6. TypeOK'
        <3>1. usedControllers' \in 0 .. MaxDevices
            <4>1. AssignedSlots' \in SUBSET SlotIdx
                BY <2>4 DEF AssignedSlots
            <4>2. QED
                BY <1>3, <2>5, <4>1, SlotSetsFinite
        <3>2. controllers' \in [SlotIdx -> SlotRecord]
            <4>1. BlankController \in SlotRecord
                BY ConstantsAssumption DEF BlankController, SlotRecord, Frames
            <4>2. QED
                BY <2>2, <4>1 DEF TypeOK, SlotRecord
        <3>3. QED
            BY <1>1, <2>2, <3>1, <3>2 DEF TypeOK, SlotRecord
    <2>7. \A j \in SlotIdx : controllers'[j].idx \in {INVALID, j}
        BY <2>3 DEF SlotTableConsistent, BlankController
    <2>8. ASSUME NEW e \in Devices, controllerIdx'[e] # INVALID
          PROVE  /\ e \in connected'
                 /\ controllers'[controllerIdx'[e]].idx # INVALID
                 /\ controllers'[controllerIdx'[e]].btaddr = e
        <3>1. e # d /\ controllerIdx'[e] = controllerIdx[e]
            BY <2>3, <2>8
        <3>2. controllerIdx[e] # k
            BY <2>1, <2>8, <3>1 DEF SlotTableConsistent
        <3>3. controllerIdx[e] \in SlotIdx
            BY <2>8, <3>1 DEF TypeOK
        <3>4. QED
            BY <1>1, <2>3, <2>8, <3>1, <3>2, <3>3 DEF SlotTableConsistent
    <2>9. ASSUME NEW j \in AssignedSlots' \ ClaimedSlots'
          PROVE  \E e \in connected' : controllerIdx'[e] = j
        <3>1. PICK e \in connected : controllerIdx[e] = j
            BY <1>3, <2>4, <2>9 DEF SlotTableConsistent
        <3>2. e # d /\ e \in Devices
            BY <1>3, <2>4, <2>9, <3>1 DEF TypeOK
        <3>3. QED
            BY <1>1, <2>3, <3>1, <3>2
    <2>10. OwnerInv'
        <3>1. ASSUME NEW j \in SlotIdx,
                     controllers'[j].idx = INVALID \/ j \in ClaimedSlots'
              PROVE  /\ controllers'[j].btaddr = NoDevice
                     /\ ~controllers'[j].dataUpdated
            BY <1>3, <2>3, <3>1 DEF OwnerInv, BlankController
        <3>2. ASSUME NEW j \in SlotIdx, controllers'[j].btaddr # NoDevice
              PROVE  controllerIdx'[controllers'[j].btaddr] = j
            <4>1. j # k
                BY <2>3, <3>2 DEF BlankController
            <4>2. /\ controllers'[j].btaddr = controllers[j].btaddr
                  /\ controllerIdx[controllers[j].btaddr] = j
                BY <2>3, <3>2, <4>1 DEF OwnerInv
            <4>3. controllers[j].btaddr \in Devices \ {d}
                BY <2>1, <3>2, <4>1, <4>2 DEF TypeOK
            <4>4. QED
                BY <2>3, <4>2, <4>3
        <3>3. QED
            BY <3>1, <3>2 DEF OwnerInv
    <2>11. QED
        BY <1>2, <2>5, <2>6, <2>7, <2>8, <2>9, <2>10 DEF SlotTableConsistent
<1>6. QED
    BY <1>4, <1>5

-----------------------------------------------------------------------------
(* Every step of Next preserves IInv. *)
LEMMA NextIInv == IInv /\ [Next]_vars => IInv'
<1> SUFFICES ASSUME IInv, [Next]_vars PROVE IInv'
    OBVIOUS
<1> USE DEF IInv
<1>1. ASSUME NEW d \in Devices, Connect(d) PROVE IInv'
    <2>1. controllerIdx' = controllerIdx
        BY <1>1 DEF Connect, SlotTableConsistent, TypeOK
    <2>2. TypeOK' /\ ControlInv'
        BY <1>1, <2>1 DEF Connect, TypeOK, ControlInv
    <2>3. QED
        BY <1>1, <2>1, <2>2, FrameIInv DEF Connect
<1>2. ASSUME NEW d \in Devices, ReadyClaim(d) PROVE IInv'
    BY <1>2, ReadyClaimIInv
<1>3. CASE ReadyFill
    BY <1>3, ReadyFillIInv
<1>4. ASSUME NEW d \in Devices, Disconnect(d) PROVE IInv'
    BY <1>4, DisconnectIInv
<1>5. ASSUME NEW d \in Devices, ControllerData(d) PROVE IInv'
    <2>1. TypeOK' /\ ControlInv'
        BY <1>5 DEF ControllerData, TypeOK, ControlInv
    <2>2. QED
        BY <1>5, <2>1, FrameIInv DEF ControllerData
<1>6. CASE DrainEmpty
    <2>1. TypeOK' /\ ControlInv'
        BY <1>6 DEF DrainEmpty, TypeOK, ControlInv
    <2>2. QED
        BY <1>6, <2>1, FrameIInv DEF DrainEmpty
<1>7. ASSUME pendingQueue \in Seq(Request), pendingQueue # << >>,
             pendingQueue' = Tail(pendingQueue)
      PROVE  pendingQueue' \in Seq(Request)
             /\ Len(pendingQueue') <= MaxPendingRequests
    <2>1. Tail(pendingQueue) \in Seq(Request)
          /\ Len(Tail(pendingQueue)) = Len(pendingQueue) - 1
        BY <1>7, HeadTailProperties
    <2>2. Len(pendingQueue) <= MaxPendingRequests
        BY DEF TypeOK
    <2>3. Len(pendingQueue) \in Nat
        BY <1>7, LenProperties
    <2>4. Len(pendingQueue') <= MaxPendingRequests
        BY <1>7, <2>1, <2>2, <2>3, ConstantsAssumption
    <2>5. QED
        BY <1>7, <2>1, <2>4, Zenon
<1>8. CASE DrainStale
    <2>1. pendingQueue' \in Seq(Request)
          /\ Len(pendingQueue') <= MaxPendingRequests
        BY <1>7, <1>8 DEF DrainStale, TypeOK
    <2>2. TypeOK' /\ ControlInv'
        BY <1>8, <2>1 DEF DrainStale, TypeOK, ControlInv
    <2>3. QED
        BY <1>8, <2>2, FrameIInv DEF DrainStale
<1>9. CASE DrainExecute
    <2>1. pendingQueue' \in Seq(Request)
          /\ Len(pendingQueue') <= MaxPendingRequests
        BY <1>7, <1>9 DEF DrainExecute, TypeOK
    <2>2. disconnectRequested' \subseteq Devices
        BY <1>9 DEF DrainExecute, DevicesWithIdx, TypeOK
    <2>3. TypeOK' /\ ControlInv'
        BY <1>9, <2>1, <2>2 DEF DrainExecute, TypeOK, ControlInv
    <2>4. QED
        BY <1>9, <2>3, FrameIInv DEF DrainExecute
<1>10. CASE DataUnassigned
    <2>1. TypeOK' /\ ControlInv'
        BY <1>10 DEF DataUnassigned, TypeOK, ControlInv
    <2>2. QED
        BY <1>10, <2>1, FrameIInv DEF DataUnassigned
<1>11. CASE DataPublish
    <2> DEFINE k == controllerIdx[btDev]
    <2>0. btPc = "publish" /\ controllerIdx[btDev] # INVALID
        BY <1>11 DEF DataPublish
    <2>1. /\ btDev \in Devices
          /\ frames + 1 \in Frames
          /\ k \in SlotIdx
          /\ controllers[k].idx # INVALID
          /\ ClaimedSlots = {}
        <3>1. btDev \in Devices /\ frames < MaxPublications
            BY <2>0 DEF ControlInv
        <3>2. frames + 1 \in Frames
            BY <3>1, ConstantsAssumption DEF TypeOK, Frames
        <3>3. k \in SlotIdx /\ controllers[k].idx # INVALID
            BY <2>0, <3>1 DEF TypeOK, SlotTableConsistent
        <3>4. ClaimedSlots = {}
            BY <2>0 DEF ClaimedSlots
        <3>5. QED
            BY <3>1, <3>2, <3>3, <3>4
    <2>2. controllers' = [controllers EXCEPT ![k] =
                            [@ EXCEPT !.data = frames + 1, !.dataUpdated = TRUE]]
        BY <1>11 DEF DataPublish
    <2>3. /\ controllers'[k] = [idx |-> controllers[k].idx,
                                btaddr |-> controllers[k].btaddr,
                                type |-> controllers[k].type,
                                subtype |-> controllers[k].subtype,
                                flags |-> controllers[k].flags,
                                data |-> frames + 1,
                                dataUpdated |-> TRUE]
          /\ \A j \in SlotIdx \ {k} : controllers'[j] = controllers[j]
        BY <2>1, <2>2 DEF TypeOK, SlotRecord
    <2>4. \A i \in SlotIdx :
             /\ controllers'[i].idx = controllers[i].idx
             /\ controllers'[i].btaddr = controllers[i].btaddr
             /\ controllers'[i].dataUpdated =>
                   \/ controllers[i].dataUpdated
                   \/ controllers[i].idx # INVALID /\ i \notin ClaimedSlots
        <3>1. ASSUME NEW i \in SlotIdx, i = k
              PROVE  /\ controllers'[i].idx = controllers[i].idx
                     /\ controllers'[i].btaddr = controllers[i].btaddr
                     /\ controllers[i].idx # INVALID /\ i \notin ClaimedSlots
            BY <2>1, <2>3, <3>1
        <3>2. ASSUME NEW i \in SlotIdx, i # k
              PROVE  controllers'[i] = controllers[i]
            BY <2>3, <3>2
        <3>3. QED
            BY <3>1, <3>2
    <2>5. controllers' \in [SlotIdx -> SlotRecord]
        <3>1. \A j \in SlotIdx : controllers'[j] \in SlotRecord
            <4>1. controllers[k] \in SlotRecord
                BY <2>1 DEF TypeOK, SlotRecord
            <4>2. controllers'[k] \in SlotRecord
                BY <2>1, <2>3, <4>1 DEF SlotRecord
            <4>3. QED
                BY <2>3, <4>2 DEF TypeOK, SlotRecord
        <3>2. QED
            BY <2>2, <3>1 DEF TypeOK
    <2>6. TypeOK' /\ ControlInv'
        BY <1>11, <2>5 DEF DataPublish, TypeOK, ControlInv, SlotRecord
    <2>7. QED
        BY <1>11, <2>4, <2>6, FrameIInv DEF DataPublish
<1>12. ASSUME NEW op \in AppOps, NEW i \in SlotIdx, AppCallInvalid(op, i)
       PROVE IInv'
    BY <1>12, StutterIInv DEF AppCallInvalid
<1>13. ASSUME NEW op \in AppOps, NEW i \in SlotIdx, AppCall(op, i)
       PROVE IInv'
    <2>1. AfterCheck(op) = "send" => op \in Cmds
        BY DEF AfterCheck, AppOps
    <2>2. TypeOK' /\ ControlInv'
        BY <1>13, <2>1 DEF AppCall, AfterCheck, TypeOK, ControlInv, SlotHolder
    <2>3. QED
        BY <1>13, <2>2, FrameIInv DEF AppCall
<1>14. CASE AppNoData
    <2>1. TypeOK' /\ ControlInv'
        BY <1>14, ConstantsAssumption
        DEF AppNoData, TypeOK, ControlInv, AppIdle, AppOps, SlotIdx
    <2>2. QED
        BY <1>14, <2>1, FrameIInv DEF AppNoData
<1>15. CASE AppLockUpdated
    <2>1. TypeOK' /\ ControlInv'
        BY <1>15 DEF AppLockUpdated, TypeOK, ControlInv
    <2>2. QED
        BY <1>15, <2>1, FrameIInv DEF AppLockUpdated
<1>16. CASE AppCopy
    <2>1. app.idx \in SlotIdx
        BY DEF TypeOK
    <2>2. controllers' = [controllers EXCEPT ![app.idx].dataUpdated = FALSE]
        BY <1>16 DEF AppCopy
    <2>3. \A i \in SlotIdx :
             /\ controllers'[i].idx = controllers[i].idx
             /\ controllers'[i].btaddr = controllers[i].btaddr
             /\ controllers'[i].dataUpdated => controllers[i].dataUpdated
        BY <2>1, <2>2 DEF TypeOK
    <2>4. controllers' \in [SlotIdx -> SlotRecord]
        <3>1. controllers'[app.idx] = [controllers[app.idx] EXCEPT !.dataUpdated = FALSE]
              /\ \A j \in SlotIdx \ {app.idx} : controllers'[j] = controllers[j]
            BY <2>1, <2>2 DEF TypeOK
        <3>2. controllers'[app.idx] \in SlotRecord
            <4>1. controllers[app.idx] \in SlotRecord
                BY <2>1 DEF TypeOK, SlotRecord
            <4>2. QED
                BY <3>1, <4>1 DEF SlotRecord
        <3>3. \A j \in SlotIdx : controllers'[j] \in SlotRecord
            BY <3>1, <3>2 DEF TypeOK, SlotRecord
        <3>4. QED
            BY <2>2, <3>3 DEF TypeOK
    <2>5. delivered' \subseteq 1 .. MaxPublications
        BY <1>16, <2>1 DEF AppCopy, TypeOK, Frames
    <2>6. app' \in [pc : {"idle", "get_data", "copy", "get_properties", "send"},
                    op : AppOps, idx : SlotIdx, for : Devices \cup {NoDevice}]
        BY <1>16, ConstantsAssumption DEF AppCopy, AppIdle, AppOps, SlotIdx
    <2>7. TypeOK' /\ ControlInv'
        BY <1>16, <2>4, <2>5, <2>6
        DEF AppCopy, TypeOK, ControlInv, AppIdle, SlotRecord
    <2>8. QED
        BY <1>16, <2>3, <2>7, FrameIInv DEF AppCopy
<1>17. CASE AppGetProperties
    <2>1. TypeOK' /\ ControlInv'
        BY <1>17, ConstantsAssumption
        DEF AppGetProperties, TypeOK, ControlInv, AppIdle, AppOps, SlotIdx
    <2>2. QED
        BY <1>17, <2>1, FrameIInv DEF AppGetProperties
<1>18. CASE AppSend
    <2>1. [idx |-> app.idx, cmd |-> app.op, for |-> app.for] \in Request
        BY <1>18 DEF AppSend, ControlInv, TypeOK, Request
    <2>2. pendingQueue' \in Seq(Request)
          /\ Len(pendingQueue') <= MaxPendingRequests
        <3> DEFINE r == [idx |-> app.idx, cmd |-> app.op, for |-> app.for]
        <3>1. CASE Len(pendingQueue) < MaxPendingRequests
            <4>1. pendingQueue' = Append(pendingQueue, r)
                BY <1>18, <3>1 DEF AppSend
            <4>2. Append(pendingQueue, r) \in Seq(Request)
                  /\ Len(Append(pendingQueue, r)) = Len(pendingQueue) + 1
                BY <2>1, AppendProperties DEF TypeOK
            <4>3. Len(pendingQueue) \in Nat
                BY LenProperties DEF TypeOK
            <4>4. Len(pendingQueue') <= MaxPendingRequests
                BY <3>1, <4>1, <4>2, <4>3, ConstantsAssumption
            <4>5. QED
                BY <4>1, <4>2, <4>4, Zenon
        <3>2. CASE ~(Len(pendingQueue) < MaxPendingRequests)
            BY <1>18, <3>2 DEF AppSend, TypeOK
        <3>3. QED
            BY <3>1, <3>2
    <2>3. AppIdle \in [pc : {"idle", "get_data", "copy", "get_properties", "send"},
                       op : AppOps, idx : SlotIdx, for : Devices \cup {NoDevice}]
        BY ConstantsAssumption DEF AppIdle, AppOps, SlotIdx
    <2>4. TypeOK' /\ ControlInv'
        BY <1>18, <2>2, <2>3 DEF AppSend, TypeOK, ControlInv, AppIdle
    <2>5. QED
        BY <1>18, <2>4, FrameIInv DEF AppSend
<1>19. CASE UNCHANGED vars
    BY <1>19, StutterIInv
<1>20. QED
    BY <1>1, <1>2, <1>3, <1>4, <1>5, <1>6, <1>8, <1>9, <1>10, <1>11, <1>12,
       <1>13, <1>14, <1>15, <1>16, <1>17, <1>18, <1>19
    DEF Next, BtCallback, BtStep, AppStart, AppStep

-----------------------------------------------------------------------------
(* Frames: a frame number is stored once and returned at most once. *)

(* A step that leaves every slot's data and data_updated, the frame       *)
(* counter and the returned frames alone, and does not enter or leave the  *)
(* application's locked section, keeps DeliveryInv.                       *)
LEMMA DataUntouched ==
    ASSUME DeliveryInv,
           \A i \in SlotIdx :
               /\ controllers'[i].data = controllers[i].data
               /\ controllers'[i].dataUpdated = controllers[i].dataUpdated,
           UNCHANGED <<frames, delivered, appHoldsMutex, app>>,
           app.idx \in SlotIdx
    PROVE  DeliveryInv'
<1>1. controllers'[app.idx].data = controllers[app.idx].data
    OBVIOUS
<1>2. QED
    BY <1>1 DEF DeliveryInv, UndeliveredFrameIsFlagged

(* An application step that starts or ends a call outside the locked      *)
(* section, leaving the slot table alone.                                  *)
LEMMA OutsideLockedSection ==
    ASSUME DeliveryInv, app.pc # "copy", app'.pc # "copy",
           appHoldsMutex' = appHoldsMutex,
           UNCHANGED <<controllers, frames, delivered>>
    PROVE  DeliveryInv'
<1>1. ~appHoldsMutex /\ ~appHoldsMutex'
    BY DEF DeliveryInv
<1>2. QED
    BY <1>1 DEF DeliveryInv, UndeliveredFrameIsFlagged

LEMMA DeliveryNext ==
    IInv /\ DeliveryInv /\ [Next]_vars => DeliveryInv'
<1> SUFFICES ASSUME IInv, DeliveryInv, [Next]_vars PROVE DeliveryInv'
    OBVIOUS
<1> USE DEF IInv
<1>0. app.idx \in SlotIdx
    BY DEF TypeOK
<1>1. ASSUME NEW d \in Devices, Connect(d) PROVE DeliveryInv'
    BY <1>0, <1>1, DataUntouched DEF Connect
<1>2. ASSUME NEW d \in Devices, ReadyClaim(d) PROVE DeliveryInv'
    <2> DEFINE i == FirstFreeSlot
    <2>1. CASE usedControllers = MaxDevices \/ controllerIdx[d] # INVALID
               \/ i = INVALID
        BY <1>2, <2>1 DEF ReadyClaim, DeliveryInv, UndeliveredFrameIsFlagged
    <2>2. CASE ~(usedControllers = MaxDevices \/ controllerIdx[d] # INVALID
                 \/ i = INVALID)
        <3>1. i \in SlotIdx
            BY <2>2, FirstFreeSlotFree
        <3>2. controllers' = [controllers EXCEPT ![i].idx = i]
            BY <1>2, <2>2 DEF ReadyClaim
        <3>3. \A j \in SlotIdx :
                 /\ controllers'[j].data = controllers[j].data
                 /\ controllers'[j].dataUpdated = controllers[j].dataUpdated
            BY <3>1, <3>2 DEF TypeOK
        <3>4. QED
            BY <1>0, <1>2, <3>3, DataUntouched DEF ReadyClaim
    <2>3. QED
        BY <2>1, <2>2
<1>20. CASE ReadyFill
    <2>1. btSlot \in SlotIdx
        BY <1>20 DEF ReadyFill, FillInv
    <2>2. \A j \in SlotIdx :
             /\ controllers'[j].data = controllers[j].data
             /\ controllers'[j].dataUpdated = controllers[j].dataUpdated
        BY <1>20, <2>1 DEF ReadyFill, TypeOK
    <2>3. QED
        BY <1>0, <1>20, <2>2, DataUntouched DEF ReadyFill
<1>3. ASSUME NEW d \in Devices, Disconnect(d) PROVE DeliveryInv'
    <2>1. CASE controllerIdx[d] = INVALID
        BY <1>0, <1>3, <2>1, DataUntouched DEF Disconnect
    <2>2. CASE controllerIdx[d] # INVALID
        <3> DEFINE k == controllerIdx[d]
        <3>1. k \in SlotIdx
            BY <2>2 DEF TypeOK
        <3>2. controllers' = [controllers EXCEPT ![k] = BlankController]
            BY <1>3, <2>2 DEF Disconnect
        <3>3. UNCHANGED <<frames, delivered, appHoldsMutex, app>>
            BY <1>3 DEF Disconnect
        <3>4. /\ controllers'[k].data = 0
              /\ controllers'[k].dataUpdated = FALSE
              /\ \A j \in SlotIdx \ {k} : controllers'[j] = controllers[j]
            BY <3>1, <3>2 DEF TypeOK, BlankController
        <3>5. frames \in Nat /\ 0 \notin delivered
            BY ConstantsAssumption DEF TypeOK, Frames
        <3>6. \A j \in SlotIdx : controllers'[j].data <= frames'
            BY <3>3, <3>4, <3>5 DEF DeliveryInv
        <3>7. \A i, j \in SlotIdx :
                 i # j /\ controllers'[i].data # 0 =>
                     controllers'[i].data # controllers'[j].data
            BY <3>4 DEF DeliveryInv
        <3>8. \A j \in SlotIdx :
                 controllers'[j].dataUpdated => controllers'[j].data \notin delivered'
            BY <3>3, <3>4 DEF DeliveryInv
        <3>9. UndeliveredFrameIsFlagged'
            BY <3>3, <3>4 DEF DeliveryInv, UndeliveredFrameIsFlagged
        <3>10. app'.pc = "copy" => controllers'[app'.idx].data \notin delivered'
            BY <1>0, <3>3, <3>4, <3>5 DEF DeliveryInv
        <3>11. QED
            BY <3>3, <3>6, <3>7, <3>8, <3>9, <3>10 DEF DeliveryInv
    <2>3. QED
        BY <2>1, <2>2
<1>4. ASSUME NEW d \in Devices, ControllerData(d) PROVE DeliveryInv'
    BY <1>0, <1>4, DataUntouched DEF ControllerData
<1>5. CASE DrainEmpty
    BY <1>0, <1>5, DataUntouched DEF DrainEmpty
<1>6. CASE DrainStale
    BY <1>0, <1>6, DataUntouched DEF DrainStale
<1>7. CASE DrainExecute
    BY <1>0, <1>7, DataUntouched DEF DrainExecute
<1>8. CASE DataUnassigned
    BY <1>0, <1>8, DataUntouched DEF DataUnassigned
<1>9. CASE DataPublish
    <2> DEFINE k == controllerIdx[btDev]
    <2>1. btDev \in Devices /\ k \in SlotIdx /\ frames \in Nat
        BY <1>9, ConstantsAssumption DEF DataPublish, ControlInv, TypeOK, Frames
    <2>2. controllers' = [controllers EXCEPT ![k] =
                            [@ EXCEPT !.data = frames + 1, !.dataUpdated = TRUE]]
        BY <1>9 DEF DataPublish
    <2>3. /\ controllers'[k].data = frames + 1
          /\ \A j \in SlotIdx \ {k} : controllers'[j] = controllers[j]
        BY <2>1, <2>2 DEF TypeOK
    <2>4. /\ frames' = frames + 1
          /\ UNCHANGED <<delivered, appHoldsMutex, app>>
          /\ app.pc # "copy"
        BY <1>9 DEF DataPublish, DeliveryInv
    <2>5. \A j \in SlotIdx : controllers[j].data \in Nat
        BY DEF TypeOK, Frames
    <2>6. \A j \in SlotIdx : controllers'[j].data <= frames'
        BY <2>1, <2>3, <2>4, <2>5 DEF DeliveryInv
    <2>7. delivered' \subseteq 1 .. frames'
        BY <2>1, <2>4 DEF DeliveryInv
    <2>8. \A i, j \in SlotIdx :
             i # j /\ controllers'[i].data # 0 =>
                 controllers'[i].data # controllers'[j].data
        BY <2>1, <2>3, <2>5 DEF DeliveryInv
    <2>9. frames + 1 \notin delivered
        BY <2>1 DEF DeliveryInv
    <2>10. \A j \in SlotIdx :
              controllers'[j].dataUpdated => controllers'[j].data \notin delivered'
        BY <2>3, <2>4, <2>9 DEF DeliveryInv
    <2>11. UndeliveredFrameIsFlagged'
        <3>1. controllers'[k].dataUpdated
            BY <2>1, <2>2 DEF TypeOK
        <3>2. QED
            BY <2>3, <2>4, <3>1 DEF DeliveryInv, UndeliveredFrameIsFlagged
    <2>12. QED
        BY <2>4, <2>6, <2>7, <2>8, <2>10, <2>11 DEF DeliveryInv
<1>10. ASSUME NEW op \in AppOps, NEW i \in SlotIdx, AppCallInvalid(op, i)
       PROVE DeliveryInv'
    BY <1>10 DEF AppCallInvalid, vars, DeliveryInv, UndeliveredFrameIsFlagged
<1>11. ASSUME NEW op \in AppOps, NEW i \in SlotIdx, AppCall(op, i)
       PROVE DeliveryInv'
    <2>1. AfterCheck(op) # "copy" /\ app.pc # "copy"
        BY <1>11 DEF AfterCheck, AppCall
    <2>2. app'.pc # "copy"
        BY <1>11, <2>1 DEF AppCall, TypeOK
    <2>3. QED
        BY <1>11, <2>1, <2>2, OutsideLockedSection DEF AppCall
<1>12. CASE AppNoData
    BY <1>12, OutsideLockedSection DEF AppNoData, AppIdle
<1>13. CASE AppLockUpdated
    BY <1>13 DEF AppLockUpdated, TypeOK, DeliveryInv, UndeliveredFrameIsFlagged
<1>14. CASE AppCopy
    <2> DEFINE k == app.idx
    <2>1. k \in SlotIdx /\ app.pc = "copy"
        BY <1>14 DEF AppCopy, TypeOK
    <2>2. controllers' = [controllers EXCEPT ![k].dataUpdated = FALSE]
        BY <1>14 DEF AppCopy
    <2>3. /\ \A j \in SlotIdx : controllers'[j].data = controllers[j].data
          /\ controllers'[k].dataUpdated = FALSE
          /\ \A j \in SlotIdx \ {k} : controllers'[j] = controllers[j]
        BY <2>1, <2>2 DEF TypeOK
    <2>4. /\ delivered' = delivered \cup ({controllers[k].data} \ {0})
          /\ frames' = frames
          /\ app' = AppIdle /\ ~appHoldsMutex'
        BY <1>14 DEF AppCopy
    <2>5. \A j \in SlotIdx : controllers[j].data \in Nat
        BY DEF TypeOK, Frames
    <2>6. delivered' \subseteq 1 .. frames'
        <3>1. controllers[k].data \in 0 .. frames
            BY <2>1, <2>5 DEF DeliveryInv
        <3>2. {controllers[k].data} \ {0} \subseteq 1 .. frames
            BY <3>1
        <3>3. delivered \subseteq 1 .. frames
            BY DEF DeliveryInv
        <3>4. QED
            BY <2>4, <3>2, <3>3, Zenon
    <2>7. \A j \in SlotIdx \ {k} :
             controllers'[j].dataUpdated => controllers'[j].data \notin delivered'
        BY <2>1, <2>3, <2>4 DEF DeliveryInv
    <2>8. UndeliveredFrameIsFlagged'
        BY <2>3, <2>4 DEF DeliveryInv, UndeliveredFrameIsFlagged
    <2>9. QED
        BY <2>3, <2>4, <2>6, <2>7, <2>8 DEF DeliveryInv, AppIdle
<1>15. CASE AppGetProperties
    BY <1>15, OutsideLockedSection DEF AppGetProperties, AppIdle
<1>16. CASE AppSend
    BY <1>16, OutsideLockedSection DEF AppSend, AppIdle
<1>17. CASE UNCHANGED vars
    BY <1>17 DEF vars, DeliveryInv, UndeliveredFrameIsFlagged
<1>18. QED
    BY <1>1, <1>2, <1>3, <1>4, <1>5, <1>6, <1>7, <1>8, <1>9, <1>10, <1>11,
       <1>12, <1>13, <1>14, <1>15, <1>16, <1>17, <1>20
    DEF Next, BtCallback, BtStep, AppStart, AppStep

-----------------------------------------------------------------------------
(* The invariance theorems. *)

(* IInv holds in every reachable state of the bridge. *)
THEOREM IInvInvariant == Spec => []IInv
<1>1. Init => IInv
    BY InitIInv
<1>2. IInv /\ [Next]_vars => IInv'
    BY NextIInv
<1>3. QED
    BY <1>1, <1>2, PTL DEF Spec

(* Every variable of the bridge keeps its type in every reachable state:  *)
(* in particular used_controllers_ stays in 0..CONFIG_BLUEPAD32_MAX_DEVICES *)
(* and the pending queue never holds more than MAX_PENDING_REQUESTS.      *)
THEOREM TypeCorrect == Spec => []TypeOK
BY IInvInvariant, PTL DEF IInv

(* The slot table agrees with the devices' instances in every reachable   *)
(* state: used_controllers_ counts the assigned slots, a slot's idx is its *)
(* own index, each assigned device owns the slot that names its address,  *)
(* and no assigned slot is left without a connected device, across any   *)
(* interleaving of on_device_connected, on_device_ready and              *)
(* on_device_disconnected with the other callbacks and the accessors.    *)
THEOREM SlotTableConsistency == Spec => []SlotTableConsistent
BY IInvInvariant, PTL DEF IInv

(* A table that is not full has a free slot: with every slot assigned    *)
(* and none merely claimed, used_controllers_ would be MaxDevices.          *)
LEMMA FreeSlotWhenNotFull == IInv => ReadyFindsFreeSlot
<1> SUFFICES ASSUME IInv, btPc = "idle", usedControllers # MaxDevices,
                    FreeSlots = {}
             PROVE  FALSE
    BY DEF ReadyFindsFreeSlot
<1>1. AssignedSlots = SlotIdx
    BY DEF AssignedSlots, FreeSlots
<1>2. ClaimedSlots = {}
    BY DEF ClaimedSlots
<1>3. usedControllers = Cardinality(SlotIdx)
    BY <1>1, <1>2 DEF IInv, SlotTableConsistent
<1>4. Cardinality(SlotIdx) = MaxDevices
    BY ConstantsAssumption, FS_Interval DEF SlotIdx
<1>5. QED
    BY <1>3, <1>4

(* on_device_ready's search for a free slot never falls through, for every *)
(* number of slots.                                                        *)
THEOREM ReadyNeverFallsThrough == Spec => []ReadyFindsFreeSlot
BY IInvInvariant, FreeSlotWhenNotFull, PTL

LEMMA InitDelivery == Init => DeliveryInv
BY ConstantsAssumption
DEF Init, DeliveryInv, UndeliveredFrameIsFlagged, BlankController, AppIdle

(* IInv and DeliveryInv hold together in every reachable state. *)
THEOREM DeliveryInvariant == Spec => [](IInv /\ DeliveryInv)
<1>1. Init => IInv /\ DeliveryInv
    BY InitIInv, InitDelivery
<1>2. IInv /\ DeliveryInv /\ [Next]_vars => (IInv /\ DeliveryInv)'
    BY NextIInv, DeliveryNext
<1>3. QED
    BY <1>1, <1>2, PTL DEF Spec

(* A frame stored by on_controller_data that get_controller_data has not  *)
(* returned keeps its data_updated flag, in every reachable state, however *)
(* the reader's flag reset, disconnects and slot reuse interleave.        *)
THEOREM FramesStayFlagged == Spec => []UndeliveredFrameIsFlagged
BY DeliveryInvariant, PTL DEF DeliveryInv

(* The copy step of get_controller_data, in a state where DeliveryInv     *)
(* holds, returns a frame no earlier call returned.                        *)
LEMMA CopyIsFresh ==
    DeliveryInv => [AppCopy => controllers[app.idx].data \notin delivered]_vars
BY DEF DeliveryInv, AppCopy

(* get_controller_data never returns the same frame twice (NoRedelivery), *)
(* for every number of slots, queue size and frame bound.                  *)
THEOREM NoRedeliveryHolds == Spec => NoRedelivery
<1>1. Spec => []DeliveryInv
    BY DeliveryInvariant, PTL
<1>2. QED
    BY <1>1, CopyIsFresh, PTL DEF NoRedelivery

=============================================================================
