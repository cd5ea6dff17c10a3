----------------------------- MODULE MCCommands -----------------------------
(* Commands for TLC: two clients on one host.                           *)
EXTENDS Commands

CONSTANTS k1, k2, d1, h1

\* Two programs of one host.
OneHost     == [k \in Clients |-> h1]
OneDetector == [k \in Clients |-> d1]
FieldValues == {-1, 0, 1, 2, 24, 32}

Ask(op, field, index, value) == [op |-> op, field |-> field, index |-> index, value |-> value]

\* One request of each way to succeed and to fail.
Mixed == {Ask("set", "nb_frames", 0, -1), Ask("get", "dynamic_range", 0, 0),
          Ask("set", "lock", 0, 2), Ask("set", "dynamic_range", 0, 24),
          Ask("update", "nb_frames", 0, 0), Ask("set", "master_mode", 0, 32),
          Ask("set", "actual_time", 0, 1), Ask("get", "measurement_time", 0, 0),
          Ask("set", "module", -1, 1), Ask("set", "module", 2, 1),
          Ask("get", "settings", 1, 0), Ask("set", "external_signal", 1, 32),
          Ask("set", "synchronization_mode", 0, 1)}
=============================================================================
