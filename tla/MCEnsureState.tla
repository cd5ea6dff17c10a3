---------------------------- MODULE MCEnsureState ----------------------------
(* EnsureState for TLC: one program.                                        *)
EXTENDS EnsureState

CONSTANTS k1, d1, h1

OneHost     == [k \in Clients |-> h1]
OneDetector == [k \in Clients |-> d1]
FieldValues == {-1, 0, 1, 2, 24, 32}

Ask(op, field, index, value) == [op |-> op, field |-> field, index |-> index, value |-> value]

\* What bodies do: fields that share storage, failing sets, and a get.
Bodies == {Ask("set", "lock", 0, 1), Ask("set", "readout_flags", 0, 2),
           Ask("set", "dynamic_range", 0, 24), Ask("set", "dynamic_range", 0, 2),
           Ask("set", "master_mode", 0, 1), Ask("set", "master_mode", 0, 24),
           Ask("set", "wait_states", 0, 2), Ask("get", "dynamic_range", 0, 0)}

\* Of dir()'s list the properties that bodies change, and synchronization_mode.
Properties == <<"dynamic_range", "lock", "master_mode", "readout_flags",
                "synchronization_mode", "wait_states">>

\* What is left of it for a program that wants no error.
Known == {<<"dynamic_range", "lock", "master_mode", "readout_flags", "wait_states">>}
=============================================================================
