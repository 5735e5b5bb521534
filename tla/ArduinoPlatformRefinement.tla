---------------------- MODULE ArduinoPlatformRefinement ----------------------
(***************************************************************************)
(* The bridge implements BridgeFacade under the mapping of ArduinoPlatform *)
(* (Facade): a slot's owner is the address in its properties, its snapshot *)
(* its data, and it is dirty while data_updated is set outside the        *)
(* application's locked read of it.                                        *)
(*                                                                         *)
(* Each step of the bridge is a step of the facade or leaves the mapped    *)
(* state alone:                                                            *)
(*   - the fill of on_device_ready is an assign of the claimed slot;       *)
(*   - on_device_disconnected of a device with a slot is a release;        *)
(*   - the locked write of on_controller_data is a publish;                *)
(*   - get_controller_data's locked test of a set data_updated is the      *)
(*     consume (its copy, one step later, changes nothing mapped);         *)
(*   - every other step, the claim of a slot included, is a stutter.       *)
(* The step needs IInv (a flagged slot is assigned; a claimed slot is      *)
(* blank and its device owns no slot) and DeliveryInv (the application    *)
(* holds the mutex exactly in its copy step).                              *)
(***************************************************************************)
EXTENDS ArduinoPlatformProofs

(* The mapped state, as the INSTANCE in ArduinoPlatform substitutes it. *)
fOwner == [i \in SlotIdx |-> controllers[i].btaddr]
fSnapshot == [i \in SlotIdx |-> controllers[i].data]
fDirty == [i \in SlotIdx |->
              controllers[i].dataUpdated /\ ~(app.pc = "copy" /\ app.idx = i)]

(* A slot with data_updated set is assigned: its properties hold the      *)
(* address of a device.                                                    *)
LEMMA FlaggedIsOwned ==
    ASSUME IInv, NEW i \in SlotIdx, controllers[i].dataUpdated
    PROVE  controllers[i].btaddr \in Devices
<1> USE DEF IInv
<1>1. controllers[i].idx # INVALID /\ i \notin ClaimedSlots
    BY DEF OwnerInv
<1>2. i \in AssignedSlots \ ClaimedSlots
    BY <1>1 DEF AssignedSlots
<1>3. PICK e \in connected : controllerIdx[e] = i
    BY <1>2 DEF SlotTableConsistent
<1>4. e \in Devices
    BY DEF TypeOK
<1>5. QED
    BY <1>3, <1>4 DEF SlotTableConsistent, SlotIdx, INVALID

(* A step that keeps every slot's btaddr, data and data_updated and the   *)
(* frame count, and does not enter or leave the application's copy step,  *)
(* leaves the mapped state alone.                                          *)
LEMMA FacadeUnchanged ==
    ASSUME \A i \in SlotIdx :
              /\ controllers'[i].btaddr = controllers[i].btaddr
              /\ controllers'[i].data = controllers[i].data
              /\ controllers'[i].dataUpdated = controllers[i].dataUpdated,
           frames' = frames,
           \/ app' = app
           \/ app.pc # "copy" /\ app'.pc # "copy"
    PROVE  UNCHANGED Facade!fvars
<1>1. fOwner' = fOwner /\ fSnapshot' = fSnapshot
    BY DEF fOwner, fSnapshot
<1>2. fDirty' = fDirty
    BY DEF fDirty
<1>3. QED
    BY <1>1, <1>2 DEF Facade!fvars, fOwner, fSnapshot, fDirty


-----------------------------------------------------------------------------
(* The four steps of the bridge that are steps of the facade. *)

(* The fill of on_device_ready assigns the claimed slot, which is FREE in  *)
(* the facade (its btaddr is still zero), to a device that owns no slot.  *)
LEMMA FillIsAssign ==
    ASSUME IInv, ReadyFill
    PROVE  Facade!Assign(btDev, btSlot)
<1> USE DEF IInv
<1> DEFINE s == btSlot
           e0 == btDev
<1>1. /\ s \in SlotIdx
      /\ e0 \in Devices
      /\ controllerIdx[e0] = INVALID
      /\ ClaimedSlots = {s}
    BY DEF ReadyFill, FillInv, ControlInv, ClaimedSlots
<1>2. controllers[s].btaddr = NoDevice
    BY <1>1 DEF OwnerInv
<1>3. \A j \in SlotIdx : controllers[j].btaddr # e0
    BY <1>1, ConstantsAssumption DEF OwnerInv, SlotIdx, INVALID
<1>4. /\ controllers'[s].btaddr = e0
      /\ controllers'[s].data = controllers[s].data
      /\ controllers'[s].dataUpdated = controllers[s].dataUpdated
      /\ \A j \in SlotIdx \ {s} : controllers'[j] = controllers[j]
      /\ UNCHANGED <<app, frames>>
    BY <1>1 DEF ReadyFill, TypeOK
<1>5. /\ fOwner' = [fOwner EXCEPT ![s] = e0]
      /\ fSnapshot' = fSnapshot
      /\ fDirty' = fDirty
    BY <1>1, <1>4 DEF fOwner, fSnapshot, fDirty
<1>6. QED
    BY <1>1, <1>2, <1>3, <1>4, <1>5
    DEF Facade!Assign, Facade!Slots, SlotIdx, fOwner, fSnapshot, fDirty

(* on_device_disconnected of a device with a slot releases that slot:     *)
(* the memset leaves it FREE, with the zero snapshot and no flag.         *)
LEMMA DisconnectIsRelease ==
    ASSUME IInv, NEW d \in Devices, Disconnect(d), controllerIdx[d] # INVALID
    PROVE  Facade!Release(controllerIdx[d])
<1> USE DEF IInv
<1> DEFINE k == controllerIdx[d]
<1>1. k \in SlotIdx /\ controllers[k].btaddr = d
    BY DEF TypeOK, SlotTableConsistent
<1>2. /\ controllers' = [controllers EXCEPT ![k] = BlankController]
      /\ UNCHANGED <<app, frames>>
    BY DEF Disconnect
<1>3. /\ controllers'[k] = BlankController
      /\ \A j \in SlotIdx \ {k} : controllers'[j] = controllers[j]
    BY <1>1, <1>2 DEF TypeOK
<1>4. /\ fOwner' = [fOwner EXCEPT ![k] = NoDevice]
      /\ fSnapshot' = [fSnapshot EXCEPT ![k] = 0]
      /\ fDirty' = [fDirty EXCEPT ![k] = FALSE]
    <2>1. /\ controllers'[k].btaddr = NoDevice
          /\ controllers'[k].data = 0
          /\ controllers'[k].dataUpdated = FALSE
        BY <1>3 DEF BlankController
    <2>2. fOwner' = [fOwner EXCEPT ![k] = NoDevice]
        BY <1>1, <1>3, <2>1 DEF fOwner
    <2>3. fSnapshot' = [fSnapshot EXCEPT ![k] = 0]
        BY <1>1, <1>3, <2>1 DEF fSnapshot
    <2>4. fDirty' = [fDirty EXCEPT ![k] = FALSE]
        BY <1>1, <1>2, <1>3, <2>1 DEF fDirty
    <2>5. QED
        BY <2>2, <2>3, <2>4
<1>5. fOwner[k] # NoDevice
    BY <1>1, ConstantsAssumption DEF fOwner
<1>6. QED
    BY <1>2, <1>4, <1>5 DEF Facade!Release, fOwner, fSnapshot, fDirty

(* The locked write of on_controller_data publishes the next snapshot to  *)
(* the device's slot: the application is not in its copy step, since the  *)
(* write needs the mutex.                                                  *)
LEMMA PublishIsPublish ==
    ASSUME IInv, DeliveryInv, DataPublish
    PROVE  Facade!Publish(controllerIdx[btDev])
<1> USE DEF IInv
<1> DEFINE k == controllerIdx[btDev]
<1>1. /\ btDev \in Devices
      /\ frames < MaxPublications
      /\ k \in SlotIdx
      /\ controllers[k].btaddr = btDev
      /\ app.pc # "copy"
    BY DEF DataPublish, ControlInv, TypeOK, SlotTableConsistent, DeliveryInv
<1>2. /\ controllers' = [controllers EXCEPT ![k] =
                            [@ EXCEPT !.data = frames + 1, !.dataUpdated = TRUE]]
      /\ frames' = frames + 1
      /\ UNCHANGED app
    BY DEF DataPublish
<1>3. /\ controllers'[k].btaddr = btDev
      /\ controllers'[k].data = frames + 1
      /\ controllers'[k].dataUpdated = TRUE
      /\ \A j \in SlotIdx \ {k} : controllers'[j] = controllers[j]
    BY <1>1, <1>2 DEF TypeOK
<1>4. /\ fOwner' = fOwner
      /\ fSnapshot' = [fSnapshot EXCEPT ![k] = frames + 1]
      /\ fDirty' = [fDirty EXCEPT ![k] = TRUE]
    <2>1. fOwner' = fOwner
        BY <1>1, <1>3 DEF fOwner
    <2>2. fSnapshot' = [fSnapshot EXCEPT ![k] = frames + 1]
        BY <1>1, <1>3 DEF fSnapshot
    <2>3. fDirty' = [fDirty EXCEPT ![k] = TRUE]
        BY <1>1, <1>2, <1>3 DEF fDirty
    <2>4. QED
        BY <2>1, <2>2, <2>3
<1>5. fOwner[k] # NoDevice
    BY <1>1, ConstantsAssumption DEF fOwner
<1>6. QED
    BY <1>1, <1>2, <1>4, <1>5 DEF Facade!Publish, fOwner, fSnapshot, fDirty

(* get_controller_data's locked test of a set data_updated consumes the   *)
(* slot's snapshot: from then on the slot is not dirty until the next      *)
(* publish.                                                                *)
LEMMA LockIsConsume ==
    ASSUME IInv, AppLockUpdated
    PROVE  Facade!Consume(app.idx)
<1> USE DEF IInv
<1> DEFINE k == app.idx
<1>1. /\ k \in SlotIdx
      /\ app.pc = "get_data"
      /\ controllers[k].dataUpdated
      /\ UNCHANGED <<controllers, frames>>
      /\ app' = [app EXCEPT !.pc = "copy"]
    BY DEF AppLockUpdated, TypeOK
<1>2. controllers[k].btaddr \in Devices
    BY <1>1, FlaggedIsOwned
<1>3. app'.pc = "copy" /\ app'.idx = k
    BY <1>1 DEF TypeOK
<1>4. /\ fOwner' = fOwner
      /\ fSnapshot' = fSnapshot
      /\ fDirty' = [fDirty EXCEPT ![k] = FALSE]
    BY <1>1, <1>3 DEF fOwner, fSnapshot, fDirty
<1>5. fOwner[k] # NoDevice /\ fDirty[k]
    BY <1>1, <1>2, ConstantsAssumption DEF fOwner, fDirty
<1>6. QED
    BY <1>1, <1>4, <1>5 DEF Facade!Consume, fOwner, fSnapshot, fDirty


-----------------------------------------------------------------------------
(* Every step of the bridge maps to a step of the facade or to a stutter. *)
LEMMA FacadeStep ==
    IInv /\ DeliveryInv /\ [Next]_vars => [Facade!FNext]_Facade!fvars
<1> SUFFICES ASSUME IInv, DeliveryInv, [Next]_vars
             PROVE  [Facade!FNext]_Facade!fvars
    OBVIOUS
<1> USE DEF IInv
<1> DEFINE Stutter == UNCHANGED Facade!fvars
<1>0. Facade!Slots = SlotIdx
    BY DEF Facade!Slots, SlotIdx
<1>1. ASSUME NEW d \in Devices, Connect(d) PROVE Stutter
    BY <1>1, FacadeUnchanged DEF Connect
<1>2. ASSUME NEW d \in Devices, ReadyClaim(d) PROVE Stutter
    <2> DEFINE i == FirstFreeSlot
    <2>1. CASE usedControllers = MaxDevices \/ controllerIdx[d] # INVALID
               \/ i = INVALID
        BY <1>2, <2>1, FacadeUnchanged DEF ReadyClaim
    <2>2. CASE ~(usedControllers = MaxDevices \/ controllerIdx[d] # INVALID
                 \/ i = INVALID)
        <3>1. i \in SlotIdx
            BY <2>2, FirstFreeSlotFree
        <3>2. controllers' = [controllers EXCEPT ![i].idx = i]
            BY <1>2, <2>2 DEF ReadyClaim
        <3>3. \A j \in SlotIdx :
                 /\ controllers'[j].btaddr = controllers[j].btaddr
                 /\ controllers'[j].data = controllers[j].data
                 /\ controllers'[j].dataUpdated = controllers[j].dataUpdated
            BY <3>1, <3>2 DEF TypeOK
        <3>4. QED
            BY <1>2, <3>3, FacadeUnchanged DEF ReadyClaim
    <2>3. QED
        BY <2>1, <2>2
<1>3. CASE ReadyFill
    <2>1. btSlot \in SlotIdx /\ btDev \in Devices
        BY <1>3 DEF ReadyFill, FillInv, ControlInv
    <2>2. Facade!Assign(btDev, btSlot)
        BY <1>3, FillIsAssign
    <2>3. Facade!FNext
        BY <1>0, <2>1, <2>2 DEF Facade!FNext, Facade!Assign
    <2>4. QED
        BY <2>3
<1>4. ASSUME NEW d \in Devices, Disconnect(d)
      PROVE  [Facade!FNext]_Facade!fvars
    <2>1. CASE controllerIdx[d] = INVALID
        <3>1. UNCHANGED <<controllers, frames, app>>
            BY <1>4, <2>1 DEF Disconnect
        <3>2. QED
            BY <3>1, FacadeUnchanged
    <2>4. CASE controllerIdx[d] # INVALID
        <3>1. controllerIdx[d] \in SlotIdx
            BY <2>4 DEF TypeOK
        <3>2. Facade!Release(controllerIdx[d])
            BY <1>4, <2>4, DisconnectIsRelease
        <3>3. Facade!FNext
            BY <1>0, <3>1, <3>2 DEF Facade!FNext, Facade!Release
        <3>4. QED
            BY <3>3
    <2>5. QED
        BY <2>1, <2>4
<1>5. ASSUME NEW d \in Devices, ControllerData(d) PROVE Stutter
    BY <1>5, FacadeUnchanged DEF ControllerData
<1>6. CASE DrainEmpty \/ DrainStale \/ DrainExecute \/ DataUnassigned
    <2>1. UNCHANGED <<controllers, frames, app>>
        BY <1>6 DEF DrainEmpty, DrainStale, DrainExecute, DataUnassigned
    <2>2. QED
        BY <2>1, FacadeUnchanged
<1>7. CASE DataPublish
    <2>1. controllerIdx[btDev] \in SlotIdx
        BY <1>7 DEF DataPublish, ControlInv, TypeOK
    <2>2. Facade!Publish(controllerIdx[btDev])
        BY <1>7, PublishIsPublish
    <2>3. Facade!FNext
        BY <1>0, <2>1, <2>2 DEF Facade!FNext, Facade!Publish
    <2>4. QED
        BY <2>3
<1>8. ASSUME NEW op \in AppOps, NEW i \in SlotIdx, AppCallInvalid(op, i)
      PROVE  Stutter
    BY <1>8, FacadeUnchanged DEF AppCallInvalid, vars
<1>14. ASSUME NEW op \in AppOps, NEW i \in SlotIdx, AppCall(op, i)
       PROVE  Stutter
    <2>1. UNCHANGED <<controllers, frames>> /\ app.pc = "idle"
        BY <1>14 DEF AppCall
    <2>2. app'.pc = AfterCheck(op)
        BY <1>14 DEF AppCall, TypeOK
    <2>3. AfterCheck(op) # "copy"
        BY DEF AfterCheck
    <2>4. QED
        BY <2>1, <2>2, <2>3, FacadeUnchanged
<1>9. CASE AppNoData \/ AppGetProperties \/ AppSend
    <2>1. /\ UNCHANGED <<controllers, frames>>
          /\ app.pc # "copy" /\ app'.pc # "copy"
        BY <1>9 DEF AppNoData, AppGetProperties, AppSend, AppIdle
    <2>2. QED
        BY <2>1, FacadeUnchanged
<1>10. CASE AppLockUpdated
    <2>1. app.idx \in SlotIdx
        BY DEF TypeOK
    <2>2. Facade!Consume(app.idx)
        BY <1>10, LockIsConsume
    <2>3. Facade!FNext
        BY <1>0, <2>1, <2>2 DEF Facade!FNext, Facade!Consume
    <2>4. QED
        BY <2>3
<1>11. CASE AppCopy
    <2> DEFINE k == app.idx
    <2>1. /\ k \in SlotIdx
          /\ app.pc = "copy"
          /\ app'.pc = "idle"
          /\ controllers' = [controllers EXCEPT ![k].dataUpdated = FALSE]
          /\ frames' = frames
        BY <1>11 DEF AppCopy, AppIdle, TypeOK
    <2>2. /\ controllers'[k].btaddr = controllers[k].btaddr
          /\ controllers'[k].data = controllers[k].data
          /\ controllers'[k].dataUpdated = FALSE
          /\ \A j \in SlotIdx \ {k} : controllers'[j] = controllers[j]
        BY <2>1 DEF TypeOK
    <2>3. fOwner' = fOwner /\ fSnapshot' = fSnapshot
        BY <2>1, <2>2 DEF fOwner, fSnapshot
    <2>4. fDirty' = fDirty
        BY <2>1, <2>2 DEF fDirty
    <2>5. QED
        BY <2>1, <2>3, <2>4 DEF Facade!fvars, fOwner, fSnapshot, fDirty
<1>12. CASE UNCHANGED vars
    BY <1>12, FacadeUnchanged DEF vars
<1>13. QED
    BY <1>1, <1>2, <1>3, <1>4, <1>5, <1>6, <1>7, <1>8, <1>9, <1>10, <1>11,
       <1>12, <1>14
    DEF Next, BtCallback, BtStep, AppStart, AppStep

(* The initial state of the bridge, after arduino_init and                *)
(* on_init_complete, is the facade's: every slot FREE with the zero        *)
(* snapshot and no flag, nothing published.                                *)
LEMMA FacadeInit == Init => Facade!FInit
<1> SUFFICES ASSUME Init PROVE Facade!FInit
    OBVIOUS
<1>1. /\ fOwner = [i \in SlotIdx |-> NoDevice]
      /\ fSnapshot = [i \in SlotIdx |-> 0]
      /\ fDirty = [i \in SlotIdx |-> FALSE]
      /\ frames = 0
    BY DEF Init, fOwner, fSnapshot, fDirty, BlankController, AppIdle
<1>2. QED
    BY <1>1 DEF Facade!FInit, Facade!Slots, SlotIdx, fOwner, fSnapshot, fDirty

(* Every behaviour of the bridge is a behaviour of BridgeFacade: slots are *)
(* assigned only when FREE and to a device without one, freed whole,      *)
(* overwritten by each publish, and each published snapshot is consumed   *)
(* at most once, for every number of slots, queue size and frame bound,    *)
(* under every interleaving of the two contexts.                          *)
THEOREM Refinement == Spec => ImplementsFacade
<1>1. Spec => [](IInv /\ DeliveryInv)
    BY DeliveryInvariant
<1>2. Init => Facade!FInit
    BY FacadeInit
<1>3. IInv /\ DeliveryInv /\ [Next]_vars => [Facade!FNext]_Facade!fvars
    BY FacadeStep
<1>4. QED
    BY <1>1, <1>2, <1>3, PTL DEF Spec, ImplementsFacade, Facade!FSpec


(* No device's address is ever stored in two slots, for every number of   *)
(* slots: BridgeFacade keeps its owners distinct (FOwnersDistinct), and    *)
(* the slot addresses are its owners under the refinement mapping.        *)
THEOREM AddressesDistinct == Spec => []SlotAddressesDistinct
<1>1. Spec => Facade!FSpec
    BY Refinement DEF ImplementsFacade
<1>2. Facade!FSpec => []Facade!OwnersDistinct
    BY Facade!FOwnersDistinct
<1>3. QED
    BY <1>1, <1>2 DEF SlotAddressesDistinct

(* A slot's address is never overwritten by another device's without the *)
(* slot being freed in between, for every number of slots.               *)
THEOREM ReassignedOnlyWhenFree == Spec => SlotReassignedOnlyWhenFree
<1>1. Spec => Facade!FSpec
    BY Refinement DEF ImplementsFacade
<1>2. Facade!FSpec => Facade!OwnerChangesThroughFree
    BY Facade!FOwnerChangesThroughFree
<1>3. QED
    BY <1>1, <1>2 DEF SlotReassignedOnlyWhenFree

=============================================================================
