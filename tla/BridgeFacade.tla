---------------------------- MODULE BridgeFacade ----------------------------
(***************************************************************************)
(* What the bridge promises, as spec.md states it (4.1, 4.2, 4.4): each     *)
(* slot is FREE or ASSIGNED to one device, with no state in between; an    *)
(* assigned slot holds its device's last snapshot and a dirty flag; a      *)
(* publish overwrites the snapshot and sets the flag (last value wins); a  *)
(* consume takes a dirty snapshot once and clears the flag; a release      *)
(* frees the slot and discards its contents.  A snapshot is the number of  *)
(* its publication (0 for "none"), so that two can be told apart.          *)
(***************************************************************************)
EXTENDS Naturals, TLAPS

CONSTANTS Devices, NoDevice, MaxDevices, MaxPublications

Slots == 0 .. MaxDevices - 1

VARIABLES
    owner,      \* the device a slot is assigned to, NoDevice when FREE
    snapshot,   \* the slot's last published snapshot
    dirty,      \* the snapshot has not been consumed
    published   \* snapshots published so far

fvars == <<owner, snapshot, dirty, published>>

FInit ==
    /\ owner = [i \in Slots |-> NoDevice]
    /\ snapshot = [i \in Slots |-> 0]
    /\ dirty = [i \in Slots |-> FALSE]
    /\ published = 0

(* assign: a FREE slot goes to a device that holds no slot. *)
Assign(d, i) ==
    /\ owner[i] = NoDevice
    /\ \A j \in Slots : owner[j] # d
    /\ owner' = [owner EXCEPT ![i] = d]
    /\ UNCHANGED <<snapshot, dirty, published>>

(* release: the slot becomes FREE, its contents discarded. *)
Release(i) ==
    /\ owner[i] # NoDevice
    /\ owner' = [owner EXCEPT ![i] = NoDevice]
    /\ snapshot' = [snapshot EXCEPT ![i] = 0]
    /\ dirty' = [dirty EXCEPT ![i] = FALSE]
    /\ UNCHANGED published

(* publish: the slot's snapshot is overwritten by a new one. *)
Publish(i) ==
    /\ owner[i] # NoDevice
    /\ published < MaxPublications
    /\ published' = published + 1
    /\ snapshot' = [snapshot EXCEPT ![i] = published + 1]
    /\ dirty' = [dirty EXCEPT ![i] = TRUE]
    /\ UNCHANGED owner

(* consume: a dirty snapshot of an ASSIGNED slot is taken, once. *)
Consume(i) ==
    /\ owner[i] # NoDevice
    /\ dirty[i]
    /\ dirty' = [dirty EXCEPT ![i] = FALSE]
    /\ UNCHANGED <<owner, snapshot, published>>

FNext ==
    \E i \in Slots :
        \/ \E d \in Devices : Assign(d, i)
        \/ Release(i)
        \/ Publish(i)
        \/ Consume(i)

FSpec == FInit /\ [][FNext]_fvars

-----------------------------------------------------------------------------
FTypeOK ==
    /\ owner \in [Slots -> Devices \cup {NoDevice}]
    /\ snapshot \in [Slots -> Nat]
    /\ dirty \in [Slots -> BOOLEAN]
    /\ published \in Nat

(* A device holds at most one slot: two different slots never name the     *)
(* same device.  This is what the bridge's "already has a slot" test and   *)
(* its clearing of a slot on disconnect must together guarantee.            *)
OwnersDistinct ==
    \A i, j \in Slots : i # j /\ owner[i] # NoDevice => owner[i] # owner[j]

(* A slot changes hands only through FREE: an ASSIGNED slot is never       *)
(* given straight to another device, so a reader that saw the slot         *)
(* assigned sees either the same device or a freed slot next.              *)
OwnerChangesThroughFree ==
    [][\A i \in Slots :
         owner'[i] # owner[i] => owner[i] = NoDevice \/ owner'[i] = NoDevice]_fvars

(* The abstract specification keeps its types. *)
THEOREM FTypeCorrect == FSpec => []FTypeOK
<1>1. FInit => FTypeOK
    BY DEF FInit, FTypeOK
<1>2. FTypeOK /\ [FNext]_fvars => FTypeOK'
    <2> SUFFICES ASSUME FTypeOK, [FNext]_fvars PROVE FTypeOK'
        OBVIOUS
    <2>1. ASSUME NEW i \in Slots, NEW d \in Devices, Assign(d, i) PROVE FTypeOK'
        BY <2>1 DEF Assign, FTypeOK
    <2>2. ASSUME NEW i \in Slots, Release(i) PROVE FTypeOK'
        BY <2>2 DEF Release, FTypeOK
    <2>3. ASSUME NEW i \in Slots, Publish(i) PROVE FTypeOK'
        BY <2>3 DEF Publish, FTypeOK
    <2>4. ASSUME NEW i \in Slots, Consume(i) PROVE FTypeOK'
        BY <2>4 DEF Consume, FTypeOK
    <2>5. CASE UNCHANGED fvars
        BY <2>5 DEF fvars, FTypeOK
    <2>6. QED
        BY <2>1, <2>2, <2>3, <2>4, <2>5 DEF FNext
<1>3. QED
    BY <1>1, <1>2, PTL DEF FSpec

(* No device ever holds two slots of the abstract bridge. *)
THEOREM FOwnersDistinct == FSpec => []OwnersDistinct
<1>1. FInit => OwnersDistinct
    BY DEF FInit, OwnersDistinct
<1>2. OwnersDistinct /\ [FNext]_fvars => OwnersDistinct'
    <2> SUFFICES ASSUME OwnersDistinct, [FNext]_fvars PROVE OwnersDistinct'
        OBVIOUS
    <2>1. ASSUME NEW i \in Slots, NEW d \in Devices, Assign(d, i)
          PROVE  OwnersDistinct'
        BY <2>1 DEF Assign, OwnersDistinct
    <2>2. ASSUME NEW i \in Slots, Release(i) PROVE OwnersDistinct'
        BY <2>2 DEF Release, OwnersDistinct
    <2>3. ASSUME NEW i \in Slots, Publish(i) \/ Consume(i) PROVE OwnersDistinct'
        BY <2>3 DEF Publish, Consume, OwnersDistinct
    <2>4. CASE UNCHANGED fvars
        BY <2>4 DEF fvars, OwnersDistinct
    <2>5. QED
        BY <2>1, <2>2, <2>3, <2>4 DEF FNext
<1>3. QED
    BY <1>1, <1>2, PTL DEF FSpec

(* Every step of the abstract bridge moves a slot's owner only to or from *)
(* FREE.                                                                    *)
THEOREM FOwnerChangesThroughFree == FSpec => OwnerChangesThroughFree
<1> DEFINE ViaFree == \A i \in Slots :
                owner'[i] # owner[i] => owner[i] = NoDevice \/ owner'[i] = NoDevice
<1>1. FTypeOK /\ [FNext]_fvars => ViaFree
    <2> SUFFICES ASSUME FTypeOK, [FNext]_fvars PROVE ViaFree
        OBVIOUS
    <2>1. ASSUME NEW i \in Slots, NEW d \in Devices, Assign(d, i) PROVE ViaFree
        BY <2>1 DEF Assign, FTypeOK
    <2>2. ASSUME NEW i \in Slots, Release(i) PROVE ViaFree
        BY <2>2 DEF Release, FTypeOK
    <2>3. ASSUME NEW i \in Slots, Publish(i) \/ Consume(i) PROVE ViaFree
        BY <2>3 DEF Publish, Consume
    <2>4. CASE UNCHANGED fvars
        BY <2>4 DEF fvars
    <2>5. QED
        BY <2>1, <2>2, <2>3, <2>4 DEF FNext
<1>2. QED
    BY <1>1, FTypeCorrect, PTL DEF FSpec, OwnerChangesThroughFree

=============================================================================
