-------------------------- MODULE MCEngineSession --------------------------
(* Instances of EngineSession for TLC.                                      *)
EXTENDS EngineSession, TLC

Symmetry == Permutations(CommandIds)

CONSTANTS matrixA, duplex, legacy, unity, high, none, first, second

One == [clsid |-> first, registry_name |-> "One", channels |-> 2]
Again == [clsid |-> first, registry_name |-> "Two", channels |-> 2]
Two == [clsid |-> second, registry_name |-> "Two", channels |-> 2]

MCClsids        == {first, second}
MCRegistryNames == {"One", "Two"}
MCDefault       == <<One>>
\* One device becomes two, and two become one; or the one is renamed.
MCTopologies    == {<<One>>, <<One, Two>>, <<Again>>}

\* Bound: nothing is followed beyond a change of the registry that was cut short
\* or that renames a device.
RegistryIsWhole == ~torn /\ ~renamed

MCEdits == {[ports |-> legacy, gain |-> high], [ports |-> matrixA, gain |-> high]}

\* Left by a change of the devices: the ports are numbered.
MCLoadable == {[channels |-> 2, lettered |-> FALSE, ports |-> {legacy},
                gain |-> [group \in PortGroups |-> IF group = legacy THEN high ELSE none]]}
MCChannels == {2, 4}
=============================================================================
