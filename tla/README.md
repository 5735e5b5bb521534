# Formal model of the Bluepad32 Arduino platform bridge

This directory holds TLA+ models of
`src/components/bluepad32_arduino/arduino_platform.c`. It also holds the TLC
configurations that check them and the TLAPS proofs about them.

## The system

The file is the bridge between two FreeRTOS tasks on the ESP32.

* **The Bluetooth context (CPU 0)** runs BTstack and Bluepad32. It calls the
  platform callbacks:
  * `arduino_init`;
  * `arduino_on_init_complete`;
  * `on_device_connected`;
  * `on_device_ready`;
  * `on_device_disconnected`;
  * `on_controller_data`.
* **The application context (CPU 1)** runs the Arduino sketch. It calls the
  public accessors:
  * `arduino_get_controller_data` and `arduino_get_gamepad_data`;
  * `arduino_get_controller_properties`;
  * `arduino_set_player_leds`, `arduino_set_lightbar_color` and
    `arduino_play_dual_rumble`;
  * `arduino_disconnect_controller`.

The two contexts share three things:

* **The slot table.** This is `controllers_[CONFIG_BLUEPAD32_MAX_DEVICES]`,
  together with `used_controllers_` and each device's
  `arduino_instance_t.controller_idx`. `on_device_ready` gives a device the
  first free slot, or rejects the device when the table is full.
  `on_device_disconnected` frees the slot with a `memset`, and it does so
  **without** `controller_mutex_`.
* **The state mirror.** This is the slot's `data` and `data_updated`.
  `on_controller_data` writes them under `controller_mutex_`.
  `get_controller_data` tests and clears `data_updated` and copies the frame
  under the same mutex.
* **The request queue.** This is `pending_queue_`, of `MAX_PENDING_REQUESTS` =
  16 entries. The output accessors enqueue with zero wait and ignore the result.
  `on_controller_data` first drains the queue (`process_pending_requests`), then
  publishes its frame.

Every accessor first checks `controllers_[idx].idx != INVALID`, and it does so
without the mutex.

## Modules

| Module | What it is |
|---|---|
| `ArduinoPlatform` | The bridge: both contexts, the slot table, the mirror and the queue. It also holds the properties, the mutants and the refinement mapping to `BridgeFacade`. |
| `BridgeFacade` | The abstract specification, taken from spec.md 4.1, 4.2 and 4.4. Each slot is FREE or ASSIGNED to one device and holds a snapshot with a dirty flag. The operations are assign, release, publish (last value wins) and consume (take a dirty snapshot once). It also holds the facade's own invariants and their proofs. |
| `MCArduinoPlatform` | The TLC instance: three device model values, uniform capabilities and controller kinds, two commands and a symmetry set. |
| `ArduinoPlatformProofs` | The TLAPS proofs of the invariants. |
| `ArduinoPlatformRefinement` | The TLAPS proof that `ArduinoPlatform` implements `BridgeFacade`. |

### How the state corresponds to the code

| Variable | Code |
|---|---|
| `connected` | the devices in the stack's device table, between `on_device_connected` and `on_device_disconnected` |
| `controllerIdx[d]` | `get_arduino_instance(d)->controller_idx` |
| `controllers[i]` | `controllers_[i]`, field by field, as listed below |
| `usedControllers` | `used_controllers_` |
| `pendingQueue` | `pending_queue_` (see below) |
| `appHoldsMutex` | `controller_mutex_` held by the application between its flag test and its copy |
| `btPc`, `btDev`, `btSlot` | where the running callback is (`fill`, `drain`, `publish`), for which device, and the slot `on_device_ready` has claimed |
| `app` | the application's accessor call: its step, operation and slot |
| `frames`, `delivered`, `disconnectRequested` | history: the frames published, the frames returned by a SUCCESS, and the devices passed to `uni_bt_disconnect_device_safe` |

The fields of `controllers[i]` are:

* `idx`;
* the `properties`, which are:
  * `btaddr`;
  * `type`;
  * `subtype`;
  * the capability `flags`;
* `data`, the publication number of the frame (0 is the zero frame of `memset`);
* `data_updated`.

A request in `pendingQueue` has three fields:

* a slot;
* a command;
* `for`, a history field that the code does not have. It names the device the
  slot belonged to when the accessor checked it (`SlotHolder`). That is the
  device whose `on_device_ready` has claimed the slot, if the check falls
  between lines 208 and 210, and otherwise the device whose address the slot
  holds.

`vendor_id` and `product_id` are copied in the same unlocked sequence as
`type`, so they add no behaviour and are left out. Controller type and subtype
are the constants `ControllerType[d]` and `ControllerSubtype[d]`.

### How the actions correspond to the code

Bluetooth context:

* `Connect` is `on_device_connected`.
* `on_device_ready` is two actions, split at the first write of the
  first-free-slot loop. Both halves run without the mutex, and the application
  can run between them.
  * `ReadyClaim` covers the rejections and the write of `controllers_[i].idx = i`
    (line 208).
  * `ReadyFill` covers lines 209-232:
    * it copies the identity, including `subtype` from `d->controller_type` as
      the code does;
    * it sets `controller_idx`;
    * it counts the slot.
  * The loop cannot fall through (`ReadyFindsFreeSlot`).
* `Disconnect` is `on_device_disconnected`. It models the stack removing a
  device, on a remote disconnect or on a requested one. Its range check at line
  178 cannot fire, because `SlotTableConsistent` keeps every assigned index in
  range.
* `ControllerData` is the entry of `on_controller_data`.
* The drain (`DrainEmpty`, `DrainStale`, `DrainExecute`) is one action per
  request popped:
  * the queue is empty;
  * the request's slot has no device, so the request is dropped and the
    function returns;
  * or the request runs on the slot's device.
* `DataUnassigned` is the early return for a device without a slot.
* `DataPublish` is the locked write.

On the ESP32 the callbacks run one at a time on the BTstack run loop, so a new
callback starts only when `btPc = "idle"`.

Application context:

* `AppCallInvalid` and `AppCall` are the unlocked validity check that every
  accessor starts with.
* `AppNoData`, `AppLockUpdated` and `AppCopy` are `get_controller_data` and
  `get_gamepad_data`, split at the mutex: the test, then the copy and reset.
* `AppGetProperties` is the locked copy of the properties.
* `AppSend` is the enqueue of the four output accessors. It drops the request
  when the queue is full and returns SUCCESS either way.

### The abstract specification and the mapping

`ArduinoPlatform` defines `Facade == INSTANCE BridgeFacade WITH` the following
mapping:

* `owner[i]` is `controllers[i].btaddr`. A slot that `ReadyClaim` has claimed
  is therefore still FREE, and `ReadyFill` is the facade's `Assign`.
* `snapshot[i]` is `controllers[i].data`.
* `dirty[i]` is `data_updated`, except while the application is between its
  locked test and its copy of slot `i`. So the consume happens at
  `AppLockUpdated`.
* `published` is `frames`.

Each action then maps to one facade step:

| Action | Facade step |
|---|---|
| `Disconnect` of a device with a slot | `Release` |
| `DataPublish` | `Publish` |
| every other action | a stutter |

`ImplementsFacade == Facade!FSpec` is checked by the facade run and proved by
`Refinement`.

## Runs

| Run | cfg | Expect | What it shows |
|---|---|---|---|
| safety | `MCArduinoPlatform.cfg` | pass | `TypeOK`, `SlotTableConsistent`, `ReadyFindsFreeSlot`, `SlotAddressesDistinct`, `SlotReassignedOnlyWhenFree`, `NoRedelivery` and `UndeliveredFrameIsFlagged` hold over every interleaving (984,273 distinct states with symmetry, about 20 s) |
| liveness | `MCArduinoPlatformLive.cfg` | pass | `LockedSectionsComplete`: neither context waits forever on the mutex, and every accessor returns |
| facade | `MCArduinoPlatformFacade.cfg` | pass | `ImplementsFacade`: the bridge refines `BridgeFacade` |
| drain_stops_early | `MC_DrainEmptiesQueue.cfg` | violation | the drain returns at a stale request and leaves later ones queued (line 118) |
| full_queue_success | `MC_SendSuccessEnqueues.cfg` | violation | SUCCESS is returned though the full queue dropped the request (line 351 and the like) |
| request_after_reuse | `MC_CommandReachesIntendedDevice.cfg` | violation | a request validated for one device runs on another device that took the slot after a disconnect. This happens between the check and the drain (line 115). |
| zeroed_frame_returned | `MC_ConsumedIsPublished.cfg` | violation | the unlocked `memset` (line 185) falls between the flag test and the copy, so `get_controller_data` returns SUCCESS with a zero frame |
| identity_torn_read | `MC_IdentityReadIsComplete.cfg` | violation | `get_controller_properties` returns SUCCESS with a blank identity. This happens when it reads a slot that `on_device_ready` has claimed at line 208 but not yet filled. |
| subtype_copy | `MC_IdentityMatchesDevice.cfg` | violation | the reported subtype is the controller type (line 212) |

Each property of a passing run has a mutant. The mutant is a plausible bug in
the action the property is about, and the run must catch it.

| Property | Mutant |
|---|---|
| `TypeOK` | the decrement of `used_controllers_` moved out of the `if` |
| `SlotTableConsistent` | `used_controllers_++` forgotten in `ReadyFill` |
| `ReadyFindsFreeSlot` | the disconnect decrements the count but never clears the slot |
| `SlotAddressesDistinct` | `on_device_ready` without its "already has a slot" test (line 200) |
| `SlotReassignedOnlyWhenFree` | the disconnect resets `idx` but not the rest of the slot |
| `NoRedelivery` | `data_updated = false` forgotten |
| `UndeliveredFrameIsFlagged` | `data_updated = true` forgotten |
| `LockedSectionsComplete` | the publish waits for the previous frame to be read |
| `ImplementsFacade` | the disconnect resets `idx` but not the rest of the slot |

### Bounds

The safety and facade runs use three devices over `MaxDevices = 2` slots. This
covers the cases behind most of the hazards:

* the table fills;
* a ready device is rejected;
* a freed slot is reused by a *different* device.

They use `MaxPendingRequests = 1`, so the second enqueue meets a full queue.
The violation runs use a queue of 2, so that a request can wait behind a stale
one (`drain_stops_early`) and a third enqueue is dropped
(`full_queue_success`). They use `MaxPublications = 3`, so a
frame is overwritten unread and a later one is read and then re-tested.

The liveness run uses one slot, a queue of 1 and two frames. This keeps the
fairness-checked graph small without symmetry, which is unsound with liveness
checking.

`Cmds` is reduced to `PLAYER_LEDS` and `DISCONNECT`. `LIGHTBAR_COLOR` and
`RUMBLE` take the same path through the queue and the drain. Every device gets
the same type 1 and subtype 2. Type and subtype must differ for line 212 to
show, and uniform values keep the devices symmetric.

### Fairness

`FairSpec` assumes weak fairness of two steps:

* `BtStep`: a started callback (the fill or the drain and publish) goes on;
* `AppStep`: a started accessor goes on.

The code justifies this. Each context is a task pinned to its own core, so a
running call keeps being scheduled, and FreeRTOS grants a mutex once it is
released. The events that start calls (radio reports, the sketch's loop) get no
fairness.

The drain loop at line 113 has no bound on how many requests it takes. An
application that enqueues as fast as the drain pops keeps `on_controller_data`
from reaching its publish. spec.md 4.3 specifies this same pop-until-empty
loop, so no property claims a bound on it. `LockedSectionsComplete` speaks only
from the publish on.

## Proofs

The proofs hold for every value of the constants, under `ConstantsAssumption`:

* `MaxDevices` is in `1 .. 128`, because `controller_idx` is an `int8_t` that
  holds a slot index;
* `MaxPendingRequests` is positive;
* `MaxPublications` is a natural number;
* `NoDevice` is not a device;
* the controller kinds are natural numbers.

The theorems are:

* `TypeCorrect`: `Spec => []TypeOK`.
* `SlotTableConsistency`: `Spec => []SlotTableConsistent`.
* `ReadyNeverFallsThrough`: `Spec => []ReadyFindsFreeSlot`.
* `FramesStayFlagged`: `Spec => []UndeliveredFrameIsFlagged`.
* `NoRedeliveryHolds`: `Spec => NoRedelivery`.
* `Refinement` (in `ArduinoPlatformRefinement`): `Spec => ImplementsFacade`.
* `AddressesDistinct` (in `ArduinoPlatformRefinement`):
  `Spec => []SlotAddressesDistinct`. No device's address is in two slots.
* `ReassignedOnlyWhenFree` (in `ArduinoPlatformRefinement`):
  `Spec => SlotReassignedOnlyWhenFree`. A slot's address changes only to or
  from a blank slot.
* `FTypeCorrect`, `FOwnersDistinct` and `FOwnerChangesThroughFree` (in
  `BridgeFacade`): the type, distinct owners and owner changes through FREE of
  the abstract specification itself. They need no assumption on the constants.

### The argument

Neither `TypeOK` nor `SlotTableConsistent` is inductive on its own. The
inductive invariant is
`IInv == TypeOK /\ SlotTableConsistent /\ ControlInv /\ FillInv /\ OwnerInv`.

* `TypeOK`'s bound `usedControllers >= 0` needs the table's consistency. The
  decrement happens only for a device that holds a slot.
* `SlotTableConsistent` does not count the slot that a running
  `on_device_ready` has claimed. `FillInv` says what holds in that window:
  * the claimed slot names itself;
  * its device is connected and has no slot yet;
  * the table is not full.
* `OwnerInv` says two things. A free or claimed slot is blank (no address, no
  flag). An address in a slot names a device whose `controller_idx` is that
  slot.
* `ControlInv` ties the program counters to the data:
  * a running callback has a device and a frame number left;
  * an accessor about to enqueue carries a command.

`NextIInv` proves that `IInv` is preserved, with one case per action. The table
writers `ReadyClaim`, `ReadyFill` and `Disconnect` each have a lemma, and the
cardinality steps use `FS_AddElement` and `FS_RemoveElement`. `FreeSlotWhenNotFull`
derives `ReadyFindsFreeSlot` from `IInv`. With no free slot and no claim
pending, every slot is assigned, so `used_controllers_` is
`Cardinality(0..MaxDevices-1) = MaxDevices`.

`NoRedelivery` needs `DeliveryInv`, which says:

* every frame stored or returned is at most `frames`;
* two slots never hold the same non-zero frame;
* a flagged frame has not been returned;
* `UndeliveredFrameIsFlagged` itself;
* the application holds the mutex exactly between its test and its copy;
* meanwhile the frame it is about to copy has not been returned.

The last point survives an unlocked disconnect, because that disconnect can only
zero the frame.

The refinement proof has three parts:

* `FacadeInit` maps the initial state.
* `FacadeStep` maps each action to its facade step or to a stutter, assuming
  `IInv /\ DeliveryInv`:
  * `FillIsAssign` uses `FillInv` and `OwnerInv`: the slot is FREE and the
    device owns no other slot;
  * `DisconnectIsRelease` covers the disconnect;
  * `PublishIsPublish` uses the frame bound;
  * `LockIsConsume` covers the locked test;
  * `AppCopy` is a stutter because `dirty` already dropped at the test.
* `Refinement` combines them with `DeliveryInvariant` by PTL.

The last two implementation theorems are not proved on `ArduinoPlatform`
directly. They are proved once, on `BridgeFacade`, where they are short.
`OwnersDistinct` is inductive there: `Assign` requires that the device owns no
slot, and the other actions only free slots or leave owners alone. They are then
carried over through the refinement. Since `Spec => Facade!FSpec` and
`Facade!FSpec => []Facade!OwnersDistinct` (the instance of `FOwnersDistinct`),
`Spec => []SlotAddressesDistinct`, where
`SlotAddressesDistinct == Facade!OwnersDistinct` is the same formula with each
owner replaced by `controllers[i].btaddr`. The action property is carried over
in the same way.

TLC checked every invariant on the safety instance before it was proved.

### Left to TLC

Some things are out of TLAPS's reach and are checked only by TLC:

* liveness (`LockedSectionsComplete`), since it is under fairness;
* the violation runs, since they are counterexamples.

Every other property of the passing runs is stated by a theorem above and proved
for every value of the constants.

## Not modelled

* **The boot phase (line 163).** spec.md section 1 puts process bootstrap out
  of scope. Whether the sketch can run before `on_init_complete` creates the
  mutex and the queue depends on the Arduino core, which is outside this
  repository. The model starts in the state after `arduino_init` and
  `on_init_complete`.
* **The stack side of `uni_bt_disconnect_device_safe`.** `DISCONNECT` passes an
  index into the stack's device table, and the stack acts on it later. The
  model records only the request.
* **`arduino_get_internal_hid_device`, `arduino_forget_bluetooth_keys`, the OOB
  handler and `get_property`.** These are lookups and pass-throughs that change
  no state of this file.
* **The version console command.** It is I/O only.
* **The generated GATT table** in `uni_bt_service.gatt.h`. It is constant data.
