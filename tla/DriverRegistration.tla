------------------------ MODULE DriverRegistration ------------------------
(***************************************************************************)
(* driver/windows_virtual_asio_registration.cpp and, of                    *)
(* tools/sar_engine_service.cpp, synchronize_virtual_asio_registration():  *)
(* the entries of the registry by which a DAW finds the Virtual ASIO       *)
(* devices.  A device has a COM class, whose in-process server is a DLL,   *)
(* and an ASIO discovery entry, whose name a DAW lists and which leads to  *)
(* the class.                                                              *)
(*                                                                         *)
(* Every write may fail and leaves behind those before it, so that a call  *)
(* has a set of outcomes: what it returns, and the registry afterwards.    *)
(***************************************************************************)
LOCAL INSTANCE Naturals
LOCAL INSTANCE Sequences

CONSTANTS
  Absent,   \* no such key
  Blank,    \* the key is there, and not yet the value that matters
  OwnDll,   \* path of the driver beside the engine
  Clsids, RegistryNames

ASSUME DriverMarksAssumption ==
  /\ Absent # Blank /\ Absent # OwnDll /\ Blank # OwnDll
  /\ Absent \notin Clsids /\ Blank \notin Clsids

Registries ==
  [class : [Clsids -> {Absent, Blank, OwnDll}],
   discovery : [RegistryNames -> {Absent, Blank} \union Clsids]]

Outcome(ok, registry) == [ok |-> ok, registry |-> registry]

-----------------------------------------------------------------------------
(* One device.                                                             *)

KeyOrBlank(value) == IF value = Absent THEN Blank ELSE value

\* verify_windows_virtual_asio_driver_registration()
Verified(registry, device) ==
  /\ registry.class[device.clsid] = OwnDll
  /\ registry.discovery[device.registry_name] = device.clsid

\* register_windows_virtual_asio_driver(): class key, server path, discovery
\* key and class id, in this order; then everything is read back.
Register(registry, device) ==
  LET named   == [registry EXCEPT !.class[device.clsid] = KeyOrBlank(@)]
      served  == [named EXCEPT !.class[device.clsid] = OwnDll]
      listed  == [served EXCEPT !.discovery[device.registry_name] = KeyOrBlank(@)]
      leading == [listed EXCEPT !.discovery[device.registry_name] = device.clsid]
  IN  {Outcome(FALSE, r) : r \in {registry, named, served, listed, leading}}
        \union {Outcome(Verified(leading, device), leading)}

\* unregister_windows_virtual_asio_driver_if_owned(): nothing is done for a
\* class that another DLL serves, or none; else discovery key, then class.
UnregisterIfOwned(registry, device) ==
  LET unlisted == [registry EXCEPT !.discovery[device.registry_name] = Absent]
      gone     == [unlisted EXCEPT !.class[device.clsid] = Absent]
  IN  IF registry.class[device.clsid] # OwnDll
      THEN {Outcome(TRUE, registry)}
      ELSE {Outcome(FALSE, registry), Outcome(FALSE, unlisted), Outcome(TRUE, gone)}

-----------------------------------------------------------------------------
(* Several devices, in the order of their list.  A loop makes one call for *)
(* each; with stops the first failure ends it, else failures are ignored.  *)

RegisterLoop(stops)         == [call |-> "register", stops |-> stops, kept |-> <<>>]
UnregisterLoop(stops, kept) == [call |-> "unregister", stops |-> stops, kept |-> kept]

\* enabled_with_clsid: a device of these has the class of the device.
HasClass(devices, device) == \E i \in DOMAIN devices : devices[i].clsid = device.clsid

\* A device whose class is one of the kept devices' is passed over.
Call(loop, registry, device) ==
  CASE HasClass(loop.kept, device) -> {Outcome(TRUE, registry)}
    [] loop.call = "register"      -> Register(registry, device)
    [] OTHER                       -> UnregisterIfOwned(registry, device)

\* What outcome o of the devices before becomes with this one.
Turn(loop, o, device) ==
  IF loop.stops /\ ~o.ok THEN {o}
  ELSE {Outcome(o.ok /\ n.ok, n.registry) : n \in Call(loop, o.registry, device)}

Turns(loop, outcomes, device) == UNION {Turn(loop, o, device) : o \in outcomes}

\* After n devices, the outcomes so far.
LoopOutcomes(loop, registry, devices) ==
  LET After[n \in 0 .. Len(devices)] ==
        IF n = 0 THEN {Outcome(TRUE, registry)}
        ELSE Turns(loop, After[n - 1], devices[n])
  IN  After

ForEach(loop, registry, devices) == LoopOutcomes(loop, registry, devices)[Len(devices)]

\* Fault: new devices of a list that failed stay registered.
RestoreRegistersOnly(registry, previous, desired) ==
  ForEach(RegisterLoop(FALSE), registry, previous)

\* restore_previous
Restore(registry, previous, desired) ==
  UNION {{Outcome(o.ok /\ n.ok, n.registry) :
            n \in ForEach(UnregisterLoop(FALSE, previous), o.registry, desired)} :
          o \in ForEach(RegisterLoop(FALSE), registry, previous)}

\* All of desired are registered, then those of previous that are no longer
\* wanted are unregistered.
Forward(registry, previous, desired) ==
  LET registered == ForEach(RegisterLoop(TRUE), registry, desired)
  IN  {o \in registered : ~o.ok} \union
      UNION {ForEach(UnregisterLoop(TRUE, desired), o.registry, previous) :
               o \in {x \in registered : x.ok}}

\* synchronize_virtual_asio_registration().  An outcome also says whether a
\* restoration was complete.
Synchronize(registry, previous, desired) ==
  {[ok |-> TRUE, complete |-> TRUE, registry |-> o.registry] :
     o \in {x \in Forward(registry, previous, desired) : x.ok}}
  \union
  UNION {{[ok |-> FALSE, complete |-> n.ok, registry |-> n.registry] :
            n \in Restore(o.registry, previous, desired)} :
          o \in {x \in Forward(registry, previous, desired) : ~x.ok}}

\* What a kill during the call may leave.
Interrupted(registry, previous, desired) ==
  {o.registry : o \in Forward(registry, previous, desired) \union
                      Synchronize(registry, previous, desired)}

-----------------------------------------------------------------------------
\* A DAW lists the discovery entries and loads the class an entry leads to.
Listed(registry) == {name \in RegistryNames : registry.discovery[name] # Absent}

\* Exactly these devices are listed, and each leads to the driver.
Offers(registry, devices) ==
  /\ Listed(registry) = {devices[i].registry_name : i \in DOMAIN devices}
  /\ \A i \in DOMAIN devices : Verified(registry, devices[i])

\* The registrations of these devices and no others.
RegistryOf(devices) ==
  [class |-> [c \in Clsids |->
     IF \E i \in DOMAIN devices : devices[i].clsid = c THEN OwnDll ELSE Absent],
   discovery |-> [name \in RegistryNames |->
     IF \E i \in DOMAIN devices : devices[i].registry_name = name
     THEN devices[CHOOSE i \in DOMAIN devices : devices[i].registry_name = name].clsid
     ELSE Absent]]
=============================================================================
