--------------------------- MODULE MCResourceState --------------------------
(* Five qubits on two cores, a microwave and a flux instrument, and seven gates: *)
(* of equal and different functions, of length 0, 1 and 2, within and between    *)
(* the cores.                                                                    *)
EXTENDS ResourceState

MCMin == -9
MCMax == 19
MCQubits == 0 .. 4
MCInstruments == {"mw", "flux"}
MCCores == {"c0", "c1"}
MCSingle == [q \in MCQubits |-> IF q < 2 THEN {"mw"} ELSE {}]
MCTwo == [i \in 1 .. 2 |-> [q \in MCQubits |-> IF q < 2 THEN {"flux"} ELSE {}]]
MCEdge == [e \in MCQubits \X MCQubits |-> IF e = <<0, 3>> THEN {"mw"} ELSE {}]
MCCoreOf == [q \in MCQubits |-> IF q < 3 THEN "c0" ELSE "c1"]
MCCommQubits == MCQubits

Gate(qs, d, f, instrumented, channelled) ==
  [qubits |-> qs, duration |-> d, function |-> f, instrumented |-> instrumented, channelled |-> channelled]

MCGates == {Gate(<<0>>, 2, "x", TRUE, TRUE), Gate(<<1>>, 2, "x", TRUE, TRUE),
            Gate(<<1>>, 1, "y", TRUE, FALSE), Gate(<<2>>, 1, "m", FALSE, TRUE),
            Gate(<<0, 3>>, 2, "z", TRUE, TRUE), Gate(<<4, 1>>, 2, "z", TRUE, TRUE),
            Gate(<<0>>, 0, "n", FALSE, FALSE)}

Config(d, e, o) == [direction |-> d, exclusive |-> e, overlap |-> o]

\* Overlap is left out when scheduling backward, where instruments do share badly
\* (InstrumentOverlap.cfg).
MCConfigs == {Config(d, e, FALSE) : d \in Directions, e \in BOOLEAN}
               \cup {Config("FORWARD", FALSE, TRUE), Config("UNDEFINED", FALSE, TRUE)}

MCOverlapConfigs == {Config("BACKWARD", FALSE, TRUE)}
MCOverlapGates == {Gate(<<0>>, 2, "x", TRUE, FALSE), Gate(<<1>>, 4, "y", TRUE, FALSE),
                   Gate(<<2>>, 1, "y", TRUE, FALSE), Gate(<<0, 2>>, 1, "z", FALSE, FALSE)}
MCOverlapSingle == [q \in MCQubits |-> {"mw"}]
=============================================================================
