--------------------------- MODULE ArduinoPlatform ---------------------------
(***************************************************************************)
(* The Bluepad32 "Arduino" platform of arduino_platform.c: the bridge      *)
(* between the Bluetooth context (CPU 0, BTstack callbacks) and the        *)
(* application context (CPU 1, the Arduino sketch).                        *)
(*                                                                         *)
(*  - controllers     : controllers_[], the slot table (idx, properties,   *)
(*                      data, data_updated);                               *)
(*  - usedControllers : used_controllers_;                                 *)
(*  - controllerIdx   : ins->controller_idx, the slot recorded in each     *)
(*                      uni_hid_device's platform data;                    *)
(*  - pendingQueue    : pending_queue_, the FreeRTOS queue of              *)
(*                      pending_request_t, capacity MAX_PENDING_REQUESTS;  *)
(*  - appHoldsMutex   : controller_mutex_ held by the application.  The    *)
(*                      Bluetooth context only takes it inside one step.   *)
(*                                                                         *)
(* The Bluetooth context is one thread: its callbacks never interleave     *)
(* with each other, but on_controller_data is split into its drain loop    *)
(* (one step per dequeued request) and its locked write, so that the       *)
(* application can run in between.  The application's accessors are       *)
(* split where the code reads shared state outside the mutex: the          *)
(* validity check, then the locked part.                                   *)
(*                                                                         *)
(* Data is abstracted: a controller frame is a publication number          *)
(* (0 is the all-zero frame left by memset), a device's properties are    *)
(* its address (the device itself) and its capability flags, request      *)
(* arguments (colours, LED masks, rumble parameters) are left out.         *)
(***************************************************************************)
EXTENDS Integers, Sequences, FiniteSets

CONSTANTS
    Devices,            \* uni_hid_device_t instances the stack may report
    NoDevice,           \* the zeroed btaddr of a free slot
    MaxDevices,         \* CONFIG_BLUEPAD32_MAX_DEVICES
    MaxPendingRequests, \* MAX_PENDING_REQUESTS, the queue capacity
    MaxPublications,    \* bound on the controller frames published in a run
    Capabilities,       \* report-parser callbacks each device type provides
    ControllerType,     \* d->controller_type of each device
    ControllerSubtype   \* the controller subtype of each device

CapabilityFlags == {"PLAYER_LEDS", "RUMBLE", "LIGHTBAR"}

ASSUME ConstantsAssumption ==
    /\ MaxDevices \in Nat \ {0}
    /\ MaxDevices <= 128          \* controller_idx is an int8_t
    /\ MaxPendingRequests \in Nat \ {0}
    /\ MaxPublications \in Nat
    /\ NoDevice \notin Devices
    /\ Capabilities \in [Devices -> SUBSET CapabilityFlags]
    /\ ControllerType \in [Devices -> Nat]
    /\ ControllerSubtype \in [Devices -> Nat]

(* UNI_ARDUINO_GAMEPAD_INVALID *)
INVALID == -1

SlotIdx == 0 .. MaxDevices - 1

(* pending_request_cmd_t, without the never-sent PENDING_REQUEST_CMD_NONE *)
Cmds == {"LIGHTBAR_COLOR", "PLAYER_LEDS", "RUMBLE", "DISCONNECT"}

(* pending_request_t; "for" is a history field: the device that held the  *)
(* slot when the application validated the index.                          *)
Request == [idx : SlotIdx, cmd : Cmds, for : Devices \cup {NoDevice}]

Frames == 0 .. MaxPublications

(* arduino_controller_t as memset to 0 with idx = INVALID *)
BlankController == [idx |-> INVALID, btaddr |-> NoDevice, type |-> 0,
                    subtype |-> 0, flags |-> {}, data |-> 0,
                    dataUpdated |-> FALSE]

(* The public accessors of the application context *)
AppOps == Cmds \cup {"GET_DATA", "GET_PROPERTIES"}

(* The application between calls (its locals are dead). *)
AppIdle == [pc |-> "idle", op |-> "GET_DATA", idx |-> 0, for |-> NoDevice]

VARIABLES
    connected,        \* devices in the stack's device table
    controllerIdx,    \* per device: arduino_instance_t.controller_idx
    controllers,      \* controllers_[]
    usedControllers,  \* used_controllers_
    pendingQueue,     \* pending_queue_
    appHoldsMutex,    \* controller_mutex_ taken by the application
    btPc,             \* where the Bluetooth context is in on_controller_data
    btDev,            \* the device whose running callback this is
    btSlot,           \* on_device_ready's loop index i, while it fills slot i
    app,              \* the application's current accessor call
    frames,           \* publications so far (the last frame's number)
    delivered,        \* history: publications returned to the application
    disconnectRequested \* devices passed to uni_bt_disconnect_device_safe

vars == <<connected, controllerIdx, controllers, usedControllers,
          pendingQueue, appHoldsMutex, btPc, btDev, btSlot, app, frames, delivered,
          disconnectRequested>>

TypeOK ==
    /\ connected \subseteq Devices
    /\ controllerIdx \in [Devices -> SlotIdx \cup {INVALID}]
    /\ controllers \in [SlotIdx -> [idx : SlotIdx \cup {INVALID},
                                    btaddr : Devices \cup {NoDevice},
                                    type : Nat, subtype : Nat,
                                    flags : SUBSET CapabilityFlags,
                                    data : Frames,
                                    dataUpdated : BOOLEAN]]
    /\ usedControllers \in 0 .. MaxDevices
    /\ pendingQueue \in Seq(Request)
    /\ Len(pendingQueue) <= MaxPendingRequests
    /\ appHoldsMutex \in BOOLEAN
    /\ btPc \in {"idle", "fill", "drain", "publish"}
    /\ btDev \in Devices \cup {NoDevice}
    /\ btSlot \in SlotIdx \cup {INVALID}
    /\ app \in [pc : {"idle", "get_data", "copy", "get_properties", "send"},
                op : AppOps, idx : SlotIdx, for : Devices \cup {NoDevice}]
    /\ frames \in Frames
    /\ delivered \subseteq 1 .. MaxPublications
    /\ disconnectRequested \subseteq Devices

-----------------------------------------------------------------------------
(* arduino_init followed by arduino_on_init_complete: every slot free,    *)
(* the mutex and the empty queue created.                                  *)
Init ==
    /\ connected = {}
    /\ controllerIdx = [d \in Devices |-> INVALID]
    /\ controllers = [i \in SlotIdx |-> BlankController]
    /\ usedControllers = 0
    /\ pendingQueue = << >>
    /\ appHoldsMutex = FALSE
    /\ btPc = "idle"
    /\ btDev = NoDevice
    /\ btSlot = INVALID
    /\ app = AppIdle
    /\ frames = 0
    /\ delivered = {}
    /\ disconnectRequested = {}

-----------------------------------------------------------------------------
(***************************************************************************)
(* Bluetooth context (CPU 0).                                              *)
(***************************************************************************)

(* predicate_arduino_index with uni_hid_device_get_instance_with_predicate: *)
(* the devices whose instance records slot i.                               *)
DevicesWithIdx(i) == {e \in connected : controllerIdx[e] = i}

(* The first i with controllers_[i].idx == INVALID: the least free slot, *)
(* or INVALID when there is none (a least element exists exactly when the  *)
(* set of free slots is not empty).                                        *)
FreeSlots == {i \in SlotIdx : controllers[i].idx = INVALID}

FirstFreeSlot ==
    IF \E i \in FreeSlots : \A j \in FreeSlots : i <= j
    THEN CHOOSE i \in FreeSlots : \A j \in FreeSlots : i <= j
    ELSE INVALID

(* arduino_on_device_connected *)
Connect(d) ==
    /\ btPc = "idle"
    /\ d \notin connected
    /\ connected' = connected \cup {d}
    /\ controllerIdx' = [controllerIdx EXCEPT ![d] = INVALID]
    /\ UNCHANGED <<btSlot, controllers, usedControllers, pendingQueue, appHoldsMutex,
                   btPc, btDev, app, frames, delivered, disconnectRequested>>

(* Mutant of ReadyClaim: the "already has a slot" test dropped. *)
ReadyClaimUnguarded(d) ==
    /\ btPc = "idle"
    /\ d \in connected
    /\ LET i == FirstFreeSlot IN
       IF usedControllers = MaxDevices \/ i = INVALID
       THEN UNCHANGED <<controllers, btPc, btDev, btSlot>>
       ELSE /\ controllers' = [controllers EXCEPT ![i].idx = i]
            /\ btPc' = "fill"
            /\ btDev' = d
            /\ btSlot' = i
    /\ UNCHANGED <<connected, controllerIdx, usedControllers, pendingQueue,
                   appHoldsMutex, app, frames, delivered, disconnectRequested>>

(* arduino_on_device_ready, up to its first write: reject when the table *)
(* is full or the device already has a slot; otherwise claim the first     *)
(* free slot by writing its idx (line 208), without the mutex.  From here  *)
(* the application's validity check passes for the slot.  A slot is free   *)
(* whenever the table is not full (SlotTableConsistent), so the loop's     *)
(* fall-through is a rejection that never happens.                         *)
ReadyClaim(d) ==
    /\ btPc = "idle"
    /\ d \in connected
    /\ LET i == FirstFreeSlot IN
       IF usedControllers = MaxDevices \/ controllerIdx[d] # INVALID
          \/ i = INVALID
       THEN UNCHANGED <<controllers, btPc, btDev, btSlot>>
       ELSE /\ controllers' = [controllers EXCEPT ![i].idx = i]
            /\ btPc' = "fill"
            /\ btDev' = d
            /\ btSlot' = i
    /\ UNCHANGED <<connected, controllerIdx, usedControllers, pendingQueue,
                   appHoldsMutex, app, frames, delivered, disconnectRequested>>

(* Mutant of ReadyFill: used_controllers_++ forgotten. *)
ReadyFillUncounted ==
    /\ btPc = "fill"
    /\ controllers' = [controllers EXCEPT ![btSlot] =
          [@ EXCEPT !.btaddr = btDev, !.type = ControllerType[btDev],
                    !.subtype = ControllerType[btDev],
                    !.flags = Capabilities[btDev]]]
    /\ controllerIdx' = [controllerIdx EXCEPT ![btDev] = btSlot]
    /\ btPc' = "idle"
    /\ btDev' = NoDevice
    /\ btSlot' = INVALID
    /\ UNCHANGED <<connected, usedControllers, pendingQueue, appHoldsMutex,
                   app, frames, delivered, disconnectRequested>>

(* arduino_on_device_ready, the rest of the loop body and the return: copy *)
(* the device's properties into the claimed slot (subtype, as the code     *)
(* does, from d->controller_type), record the slot in the device's         *)
(* instance and count it.  The player-LED call after the loop only talks   *)
(* to the device.                                                          *)
ReadyFill ==
    /\ btPc = "fill"
    /\ controllers' = [controllers EXCEPT ![btSlot] =
          [@ EXCEPT !.btaddr = btDev, !.type = ControllerType[btDev],
                    !.subtype = ControllerType[btDev],
                    !.flags = Capabilities[btDev]]]
    /\ controllerIdx' = [controllerIdx EXCEPT ![btDev] = btSlot]
    /\ usedControllers' = usedControllers + 1
    /\ btPc' = "idle"
    /\ btDev' = NoDevice
    /\ btSlot' = INVALID
    /\ UNCHANGED <<connected, pendingQueue, appHoldsMutex, app, frames,
                   delivered, disconnectRequested>>

(* Mutant of Disconnect: the decrement moved out of the "assigned" test. *)
DisconnectUnguarded(d) ==
    /\ btPc = "idle"
    /\ d \in connected
    /\ connected' = connected \ {d}
    /\ disconnectRequested' = disconnectRequested \ {d}
    /\ usedControllers' = usedControllers - 1
    /\ IF controllerIdx[d] = INVALID
       THEN UNCHANGED <<controllerIdx, controllers>>
       ELSE /\ controllers' =
                  [controllers EXCEPT ![controllerIdx[d]] = BlankController]
            /\ controllerIdx' = [controllerIdx EXCEPT ![d] = INVALID]
    /\ UNCHANGED <<btSlot, pendingQueue, appHoldsMutex, btPc, btDev, app, frames,
                   delivered>>

(* Mutant of Disconnect: the memset forgotten, only idx reset. *)
DisconnectKeepsData(d) ==
    /\ btPc = "idle"
    /\ d \in connected
    /\ connected' = connected \ {d}
    /\ disconnectRequested' = disconnectRequested \ {d}
    /\ IF controllerIdx[d] = INVALID
       THEN UNCHANGED <<controllerIdx, controllers, usedControllers>>
       ELSE /\ usedControllers' = usedControllers - 1
            /\ controllers' = [controllers EXCEPT ![controllerIdx[d]].idx = INVALID]
            /\ controllerIdx' = [controllerIdx EXCEPT ![d] = INVALID]
    /\ UNCHANGED <<btSlot, pendingQueue, appHoldsMutex, btPc, btDev, app, frames,
                   delivered>>

(* Mutant of Disconnect: the slot is counted free but never cleared. *)
DisconnectKeepsSlot(d) ==
    /\ btPc = "idle"
    /\ d \in connected
    /\ connected' = connected \ {d}
    /\ disconnectRequested' = disconnectRequested \ {d}
    /\ IF controllerIdx[d] = INVALID
       THEN UNCHANGED <<controllerIdx, usedControllers>>
       ELSE /\ usedControllers' = usedControllers - 1
            /\ controllerIdx' = [controllerIdx EXCEPT ![d] = INVALID]
    /\ UNCHANGED <<btSlot, controllers, pendingQueue, appHoldsMutex, btPc, btDev,
                   app, frames, delivered>>

(* arduino_on_device_disconnected, as the stack removes the device (on a   *)
(* remote disconnect or one requested by uni_bt_disconnect_device_safe).   *)
(* Frees the slot with memset, without the mutex.                          *)
Disconnect(d) ==
    /\ btPc = "idle"
    /\ d \in connected
    /\ connected' = connected \ {d}
    /\ disconnectRequested' = disconnectRequested \ {d}
    /\ IF controllerIdx[d] = INVALID
       THEN UNCHANGED <<controllerIdx, controllers, usedControllers>>
       ELSE /\ usedControllers' = usedControllers - 1
            /\ controllers' =
                  [controllers EXCEPT ![controllerIdx[d]] = BlankController]
            /\ controllerIdx' = [controllerIdx EXCEPT ![d] = INVALID]
    /\ UNCHANGED <<btSlot, pendingQueue, appHoldsMutex, btPc, btDev, app, frames,
                   delivered>>

(* arduino_on_controller_data is called: it first drains the queue. *)
ControllerData(d) ==
    /\ btPc = "idle"
    /\ d \in connected
    /\ frames < MaxPublications
    /\ btPc' = "drain"
    /\ btDev' = d
    /\ UNCHANGED <<btSlot, connected, controllerIdx, controllers, usedControllers,
                   pendingQueue, appHoldsMutex, app, frames, delivered,
                   disconnectRequested>>

(* process_pending_requests: xQueueReceive finds the queue empty. *)
DrainEmpty ==
    /\ btPc = "drain"
    /\ pendingQueue = << >>
    /\ btPc' = "publish"
    /\ UNCHANGED <<btSlot, connected, controllerIdx, controllers, usedControllers,
                   pendingQueue, appHoldsMutex, btDev, app, frames, delivered,
                   disconnectRequested>>

(* process_pending_requests: no device has the request's slot; the        *)
(* request is dropped and the function returns, leaving the rest queued.  *)
DrainStale ==
    /\ btPc = "drain"
    /\ pendingQueue # << >>
    /\ DevicesWithIdx(Head(pendingQueue).idx) = {}
    /\ pendingQueue' = Tail(pendingQueue)
    /\ btPc' = "publish"
    /\ UNCHANGED <<btSlot, connected, controllerIdx, controllers, usedControllers,
                   appHoldsMutex, btDev, app, frames, delivered,
                   disconnectRequested>>

(* process_pending_requests: the request resolves to device e.  A          *)
(* capability command calls the report parser if it has the callback (an  *)
(* effect on the device only); DISCONNECT schedules the stack's deferred   *)
(* disconnect of e.                                                        *)
DrainExecute ==
    /\ btPc = "drain"
    /\ pendingQueue # << >>
    /\ \E e \in DevicesWithIdx(Head(pendingQueue).idx) :
          disconnectRequested' =
              IF Head(pendingQueue).cmd = "DISCONNECT"
              THEN disconnectRequested \cup {e} ELSE disconnectRequested
    /\ pendingQueue' = Tail(pendingQueue)
    /\ UNCHANGED <<btSlot, connected, controllerIdx, controllers, usedControllers,
                   appHoldsMutex, btPc, btDev, app, frames, delivered>>

(* arduino_on_controller_data after the drain: a device without a slot is  *)
(* logged and ignored.                                                     *)
DataUnassigned ==
    /\ btPc = "publish"
    /\ controllerIdx[btDev] = INVALID
    /\ btPc' = "idle"
    /\ btDev' = NoDevice
    /\ UNCHANGED <<btSlot, connected, controllerIdx, controllers, usedControllers,
                   pendingQueue, appHoldsMutex, app, frames, delivered,
                   disconnectRequested>>

(* Mutant of DataPublish: data_updated = true forgotten. *)
DataPublishUnflagged ==
    /\ btPc = "publish"
    /\ controllerIdx[btDev] # INVALID
    /\ ~appHoldsMutex
    /\ frames' = frames + 1
    /\ controllers' =
          [controllers EXCEPT ![controllerIdx[btDev]].data = frames + 1]
    /\ btPc' = "idle"
    /\ btDev' = NoDevice
    /\ UNCHANGED <<btSlot, connected, controllerIdx, usedControllers, pendingQueue,
                   appHoldsMutex, app, delivered, disconnectRequested>>

(* Mutant of DataPublish: the write waits until the previous frame has    *)
(* been read, instead of overwriting it.                                   *)
DataPublishWaitsForRead ==
    /\ btPc = "publish"
    /\ controllerIdx[btDev] # INVALID
    /\ ~appHoldsMutex
    /\ ~controllers[controllerIdx[btDev]].dataUpdated
    /\ frames' = frames + 1
    /\ controllers' = [controllers EXCEPT ![controllerIdx[btDev]] =
                          [@ EXCEPT !.data = frames + 1, !.dataUpdated = TRUE]]
    /\ btPc' = "idle"
    /\ btDev' = NoDevice
    /\ UNCHANGED <<btSlot, connected, controllerIdx, usedControllers, pendingQueue,
                   appHoldsMutex, app, delivered, disconnectRequested>>

(* arduino_on_controller_data: take the mutex (blocking while the          *)
(* application holds it), store the frame, set data_updated, give it back. *)
DataPublish ==
    /\ btPc = "publish"
    /\ controllerIdx[btDev] # INVALID
    /\ ~appHoldsMutex
    /\ frames' = frames + 1
    /\ controllers' = [controllers EXCEPT ![controllerIdx[btDev]] =
                          [@ EXCEPT !.data = frames + 1, !.dataUpdated = TRUE]]
    /\ btPc' = "idle"
    /\ btDev' = NoDevice
    /\ UNCHANGED <<btSlot, connected, controllerIdx, usedControllers, pendingQueue,
                   appHoldsMutex, app, delivered, disconnectRequested>>

-----------------------------------------------------------------------------
(***************************************************************************)
(* Application context (CPU 1).                                            *)
(***************************************************************************)

(* The step an accessor takes after its validity check. *)
AfterCheck(op) ==
    CASE op = "GET_DATA"       -> "get_data"
      [] op = "GET_PROPERTIES" -> "get_properties"
      [] OTHER                 -> "send"

(* Any accessor on a slot whose idx is INVALID returns INVALID_DEVICE; the *)
(* check reads controllers_[idx].idx without the mutex.                    *)
AppCallInvalid(op, i) ==
    /\ app.pc = "idle"
    /\ controllers[i].idx = INVALID
    /\ UNCHANGED vars

(* History only: the device slot i belongs to when a validity check      *)
(* passes, which is the device an on_device_ready in progress has claimed *)
(* it for (its address is not written yet), or else the device whose      *)
(* address the slot holds.                                                 *)
SlotHolder(i) == IF btPc = "fill" /\ btSlot = i THEN btDev ELSE controllers[i].btaddr

(* An accessor whose validity check passes goes on to its body. *)
AppCall(op, i) ==
    /\ app.pc = "idle"
    /\ controllers[i].idx # INVALID
    /\ app' = [app EXCEPT !.pc = AfterCheck(op), !.op = op, !.idx = i,
                          !.for = SlotHolder(i)]
    /\ UNCHANGED <<btSlot, connected, controllerIdx, controllers, usedControllers,
                   pendingQueue, appHoldsMutex, btPc, btDev, frames,
                   delivered, disconnectRequested>>

(* arduino_get_controller_data: under the mutex, data_updated is false;   *)
(* the mutex is given back and NO_DATA returned.                           *)
AppNoData ==
    /\ app.pc = "get_data"
    /\ ~appHoldsMutex
    /\ ~controllers[app.idx].dataUpdated
    /\ app' = AppIdle
    /\ UNCHANGED <<btSlot, connected, controllerIdx, controllers, usedControllers,
                   pendingQueue, appHoldsMutex, btPc, btDev, frames,
                   delivered, disconnectRequested>>

(* arduino_get_controller_data: the mutex is taken and data_updated read  *)
(* true.                                                                   *)
AppLockUpdated ==
    /\ app.pc = "get_data"
    /\ ~appHoldsMutex
    /\ controllers[app.idx].dataUpdated
    /\ appHoldsMutex' = TRUE
    /\ app' = [app EXCEPT !.pc = "copy"]
    /\ UNCHANGED <<btSlot, connected, controllerIdx, controllers, usedControllers,
                   pendingQueue, btPc, btDev, frames, delivered,
                   disconnectRequested>>

(* Mutant of AppCopy: data_updated = false forgotten. *)
AppCopyKeepsFlag ==
    /\ app.pc = "copy"
    /\ app' = AppIdle
    /\ appHoldsMutex' = FALSE
    /\ delivered' = delivered \cup ({controllers[app.idx].data} \ {0})
    /\ UNCHANGED <<btSlot, connected, controllerIdx, controllers, usedControllers,
                   pendingQueue, btPc, btDev, frames, disconnectRequested>>

(* arduino_get_controller_data: copy the data out, clear data_updated,    *)
(* give the mutex back, return SUCCESS.                                    *)
AppCopy ==
    /\ app.pc = "copy"
    /\ app' = AppIdle
    /\ controllers' = [controllers EXCEPT ![app.idx].dataUpdated = FALSE]
    /\ appHoldsMutex' = FALSE
    /\ delivered' = delivered \cup ({controllers[app.idx].data} \ {0})
    /\ UNCHANGED <<btSlot, connected, controllerIdx, usedControllers, pendingQueue,
                   btPc, btDev, frames, disconnectRequested>>

(* arduino_get_controller_properties: copy the properties under the mutex. *)
AppGetProperties ==
    /\ app.pc = "get_properties"
    /\ ~appHoldsMutex
    /\ app' = AppIdle
    /\ UNCHANGED <<btSlot, connected, controllerIdx, controllers, usedControllers,
                   pendingQueue, appHoldsMutex, btPc, btDev, frames,
                   delivered, disconnectRequested>>

(* arduino_set_player_leds / set_lightbar_color / play_dual_rumble /       *)
(* disconnect_controller: xQueueSendToBack with no wait; the request is    *)
(* dropped when the queue is full, and SUCCESS is returned either way.     *)
AppSend ==
    /\ app.pc = "send"
    /\ pendingQueue' =
          IF Len(pendingQueue) < MaxPendingRequests
          THEN Append(pendingQueue, [idx |-> app.idx, cmd |-> app.op,
                                     for |-> app.for])
          ELSE pendingQueue
    /\ app' = AppIdle
    /\ UNCHANGED <<btSlot, connected, controllerIdx, controllers, usedControllers,
                   appHoldsMutex, btPc, btDev, frames, delivered,
                   disconnectRequested>>

-----------------------------------------------------------------------------
BtCallback ==
    \E d \in Devices :
        Connect(d) \/ ReadyClaim(d) \/ Disconnect(d) \/ ControllerData(d)

BtStep ==
    ReadyFill \/ DrainEmpty \/ DrainStale \/ DrainExecute \/ DataUnassigned \/ DataPublish

AppStart ==
    \E op \in AppOps, i \in SlotIdx : AppCallInvalid(op, i) \/ AppCall(op, i)

AppStep == AppNoData \/ AppLockUpdated \/ AppCopy \/ AppGetProperties \/ AppSend

Next == BtCallback \/ BtStep \/ AppStart \/ AppStep

(* Both contexts are FreeRTOS tasks pinned to their own core: once a      *)
(* callback or an accessor has started, it keeps being scheduled.  The     *)
(* events that start them (radio traffic, the sketch's calls) are not     *)
(* fair.                                                                   *)
Spec == Init /\ [][Next]_vars
FairSpec == Spec /\ WF_vars(BtStep) /\ WF_vars(AppStep)

-----------------------------------------------------------------------------
(***************************************************************************)
(* Properties.                                                             *)
(***************************************************************************)

AssignedSlots == {i \in SlotIdx : controllers[i].idx # INVALID}

(* The slot a running on_device_ready has claimed and not yet filled. *)
ClaimedSlots == IF btPc = "fill" THEN {btSlot} ELSE {}

(* The slot table and the devices' instances agree, whatever sequence of  *)
(* connect/ready/disconnect callbacks the stack delivers, up to the slot  *)
(* an on_device_ready in progress has claimed: used_controllers_ counts    *)
(* the other assigned slots, an assigned slot i has idx i, every other     *)
(* assigned slot is owned by a connected device whose controller_idx is i, *)
(* and a device's controller_idx names a slot that stores its address.    *)
SlotTableConsistent ==
    /\ usedControllers = Cardinality(AssignedSlots \ ClaimedSlots)
    /\ \A i \in SlotIdx : controllers[i].idx \in {INVALID, i}
    /\ \A d \in Devices : controllerIdx[d] # INVALID =>
          /\ d \in connected
          /\ controllers[controllerIdx[d]].idx # INVALID
          /\ controllers[controllerIdx[d]].btaddr = d
    /\ \A i \in AssignedSlots \ ClaimedSlots :
          \E d \in connected : controllerIdx[d] = i

(* on_device_ready's search for a free slot never falls through: whenever *)
(* the Bluetooth context is between callbacks and used_controllers_ is     *)
(* below CONFIG_BLUEPAD32_MAX_DEVICES, some slot has idx == INVALID.  Had   *)
(* the loop found none, the callback would return SUCCESS with the device *)
(* left without a slot (controller_idx -1, player LEDs set to 0).          *)
ReadyFindsFreeSlot ==
    btPc = "idle" /\ usedControllers # MaxDevices => FreeSlots # {}

(* arduino_get_controller_data never returns the same published frame     *)
(* twice: a SUCCESS copies a frame that no earlier SUCCESS returned, even  *)
(* when publishes, disconnects and slot reuse interleave with the read.    *)
NoRedelivery ==
    [][AppCopy => controllers[app.idx].data \notin delivered]_vars

(* The latest frame of a slot is never hidden from the application: a    *)
(* published frame that no get_controller_data has returned yet is still   *)
(* flagged by data_updated, so the next read returns it (with              *)
(* NoRedelivery: every frame still current when read is returned exactly   *)
(* once).  A reset of the flag by the reader must not race a publish.      *)
UndeliveredFrameIsFlagged ==
    \A i \in SlotIdx :
        controllers[i].data \notin delivered \cup {0} => controllers[i].dataUpdated

(* Neither context waits forever on controller_mutex_: once its drain is  *)
(* over, on_controller_data's blocking xSemaphoreTake is eventually        *)
(* granted and the callback returns, and every accessor call of the        *)
(* application returns.                                                    *)
LockedSectionsComplete ==
    /\ (btPc = "publish") ~> (btPc = "idle")
    /\ (app.pc # "idle") ~> (app.pc = "idle")

(***************************************************************************)
(* The bridge implements BridgeFacade, spec.md's slot-and-mailbox view.    *)
(* A slot's owner is the address its properties hold (so a slot claimed    *)
(* by on_device_ready is still FREE until its properties are in); its      *)
(* snapshot is its data; it is dirty while data_updated is set and the     *)
(* application is not between its locked test and its copy.  The consume  *)
(* takes effect at get_controller_data's locked test of data_updated.     *)
(***************************************************************************)
Facade == INSTANCE BridgeFacade WITH
    owner <- [i \in SlotIdx |-> controllers[i].btaddr],
    snapshot <- [i \in SlotIdx |-> controllers[i].data],
    dirty <- [i \in SlotIdx |->
                 controllers[i].dataUpdated /\ ~(app.pc = "copy" /\ app.idx = i)],
    published <- frames

(* Every behaviour of the bridge, seen through the mapping, is one of      *)
(* BridgeFacade: the slot table assigns a free slot to a device without    *)
(* one and frees it whole, and the two-step locked read of                 *)
(* get_controller_data takes each published snapshot at most once, under   *)
(* every interleaving with publishes, disconnects and slot reuse.          *)
ImplementsFacade == Facade!FSpec

(* No device's address is stored in two slots: on_device_ready's test of  *)
(* controller_idx and on_device_disconnected's memset together keep a      *)
(* device from being given a second slot, across every order of ready,     *)
(* disconnect and reconnect callbacks.                                      *)
SlotAddressesDistinct == Facade!OwnersDistinct

(* The address in a slot is never overwritten by another device's: a slot *)
(* is cleared by on_device_disconnected before on_device_ready fills it    *)
(* for a new device: no single step replaces one device's address by      *)
(* another's.                                                              *)
SlotReassignedOnlyWhenFree == Facade!OwnerChangesThroughFree

-----------------------------------------------------------------------------
(***************************************************************************)
(* What spec.md says of the bridge, checked against what the code does.   *)
(***************************************************************************)

(* spec.md 4.3: a drain "repeatedly pops until the queue is empty", a      *)
(* request whose device is gone being discarded.  In the code (the return  *)
(* in process_pending_requests) one on_controller_data may end its drain   *)
(* with requests still queued.                                             *)
DrainEmptiesQueue ==
    [][btPc = "drain" /\ btPc' = "publish" => pendingQueue' = << >>]_vars

(* spec.md 4.3 and 6: an enqueue into a full queue reports BUSY, so an     *)
(* accessor that returns SUCCESS has queued its request.  The code ignores *)
(* xQueueSendToBack's result.                                              *)
SendSuccessEnqueues ==
    [][AppSend => Len(pendingQueue') = Len(pendingQueue) + 1]_vars

(* spec.md 3 and 8: a request whose target disconnected before the drain  *)
(* is dropped, never executed.  So a drained request reaches only the      *)
(* device that held the slot when the application validated the index.   *)
CommandReachesIntendedDevice ==
    [][DrainExecute =>
         DevicesWithIdx(Head(pendingQueue).idx) = {Head(pendingQueue).for}]_vars

(* spec.md 4.2: get_controller_data returns SUCCESS only with a snapshot   *)
(* the Bluetooth context published (never the zeroed slot of a device     *)
(* that disconnected while the application held the mutex).               *)
ConsumedIsPublished ==
    [][AppCopy => controllers[app.idx].data # 0]_vars

(* spec.md 3 and 4.4: a slot is FREE or ASSIGNED with no intermediate    *)
(* state, its identity captured at assignment; so get_controller_properties *)
(* returns SUCCESS only with the identity of a device.  The code claims the *)
(* slot (idx = i) before it copies the identity in, without the mutex, and *)
(* checks the slot outside the mutex.                                      *)
IdentityReadIsComplete ==
    [][AppGetProperties => controllers[app.idx].btaddr # NoDevice]_vars

(* spec.md 3: the identity read back holds the device's controller type   *)
(* and subtype.  on_device_ready stores d->controller_type in both.        *)
IdentityMatchesDevice ==
    [][AppGetProperties /\ controllers[app.idx].btaddr \in Devices =>
         LET c == controllers[app.idx] IN
         <<c.type, c.subtype>> =
             <<ControllerType[c.btaddr], ControllerSubtype[c.btaddr]>>]_vars

=============================================================================
