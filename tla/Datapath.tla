------------------------------- MODULE Datapath ------------------------------
(***************************************************************************)
(* datapath.cc of the Central Controller backend: which bits of the        *)
(* distributed shared memory (DSM) hold measured bits, and how the inputs  *)
(* (MUX) and conditional outputs (PL) of the slots are configured.         *)
(*                                                                         *)
(* A datapath is a record.  bitOf maps the bits of the program to bits of  *)
(* the DSM; muxes and pls are the configurations of each slot; error is    *)
(* the exception that ended the compilation, "none" while there is none.   *)
(***************************************************************************)
EXTENDS Program, FiniteSetsExt

CONSTANTS Instruments,   \* in order: [type, groups], the latter a sequence of sets of qubits
          SmBits,        \* SM_BIT_CNT
          XferSize,      \* MAX_DSM_XFER_SIZE
          MuxWindow,     \* MUX_SM_WIN_SIZE
          PlWindow,      \* PL_SM_WIN_SIZE
          MuxCount,      \* MUX_CNT
          PlCount        \* PL_CNT

ASSUME DatapathAssumption ==
  /\ {SmBits, XferSize, MuxWindow, PlWindow, MuxCount, PlCount} \subseteq Nat \ {0}
  /\ \A i \in DOMAIN Instruments :
       Instruments[i].type \in STRING /\ Len(Instruments[i].groups) > 0

Slots == DOMAIN Instruments

NewDatapath ==
  [bitOf |-> <<>>, lastBit |-> 0, lastSlot |-> 0, error |-> "none",
   muxes |-> [i \in Slots |-> <<>>], pls |-> [i \in Slots |-> <<>>]]

Refuse(dp, why) == IF dp.error = "none" THEN [dp EXCEPT !.error = why] ELSE dp
Check(dp, ok, why) == IF ok THEN dp ELSE Refuse(dp, why)

RoundUp(n, multiple) == ((n + multiple - 1) \div multiple) * multiple

\* Mutant: instruments share the DSM transfers.
AllocatePacked(dp, breg, i) ==
  LET bit == IF dp.bitOf = <<>> THEN 0 ELSE dp.lastBit + 1
  IN Check([dp EXCEPT !.bitOf = (breg :> bit) @@ @, !.lastBit = bit, !.lastSlot = i],
           bit < SmBits, "out of memory")

\* A new bit for every result of every measurement in the program; it replaces an earlier one
\* of the same bit of the program.
AllocateSmBit(dp, breg, i) ==
  LET bit == IF dp.bitOf = <<>> THEN 0
             ELSE IF i # dp.lastSlot THEN RoundUp(dp.lastBit + 1, XferSize)
             ELSE dp.lastBit + 1
  IN Check([dp EXCEPT !.bitOf = (breg :> bit) @@ @, !.lastBit = bit, !.lastSlot = i],
           bit < SmBits, "out of memory")

Measured(dp, breg) == breg \in DOMAIN dp.bitOf

\* emitMux(), getOrAssignMux(), getMuxSmAddr(): the bits the groups of slot i write, by group.
AddMux(dp, i, bits) ==
  LET windows == {bits[g] \div MuxWindow : g \in DOMAIN bits}
      window  == Min(windows)
      mux     == [window |-> window, bits |-> [g \in DOMAIN bits |-> bits[g] % MuxWindow]]
      e == Check([dp EXCEPT !.muxes[i] = Append(@, mux)], Len(dp.muxes[i]) < MuxCount, "out of MUXes")
  IN Check(e, Cardinality(windows) = 1, "window of MUX")

-----------------------------------------------------------------------------
(* Conditions.                                                             *)

TwoBitKinds == {"and", "or", "xor", "equal"}

OperandsOf(c) == CASE c.kind = "bit" -> <<c.bit>>
                   [] c.kind = "not" -> IF c.of.kind = "bit" THEN <<c.of.bit>> ELSE <<c.of.left, c.of.right>>
                   [] c.kind \in TwoBitKinds -> <<c.left, c.right>>
                   [] OTHER -> <<>>

Binary  == [and |-> "AND", or |-> "OR", xor |-> "XOR", equal |-> "NXOR"]
Negated == [and |-> "NAND", or |-> "NOR", xor |-> "NXOR", equal |-> "XOR"]

\* Mutant: the negation in front of two operands is lost.
DecodeWithoutNot(c) ==
  CASE c.kind = "literal" -> IF c.value THEN "ALWAYS" ELSE "NEVER"
    [] c.kind = "bit"     -> "UNARY"
    [] c.kind = "not"     -> IF c.of.kind = "bit" THEN "NOT" ELSE Binary[c.of.kind]
    [] OTHER              -> Binary[c.kind]

DecodeCondition(c) ==
  CASE c.kind = "literal" -> IF c.value THEN "ALWAYS" ELSE "NEVER"
    [] c.kind = "bit"     -> "UNARY"
    [] c.kind = "not"     -> IF c.of.kind = "bit" THEN "NOT" ELSE Negated[c.of.kind]
    [] OTHER              -> Binary[c.kind]

Inverted == {"NOT", "NAND", "NOR", "NXOR"}

\* The right-hand side of an equation of a PL, and the equation with the inversion of its output.
RightHandSide(type, sm) ==
  CASE type = "ALWAYS" -> TRUE
    [] type = "NEVER"  -> FALSE
    [] type \in {"UNARY", "NOT"} -> sm[1]
    [] type \in {"AND", "NAND"}  -> sm[1] /\ sm[2]
    [] type \in {"OR", "NOR"}    -> sm[1] \/ sm[2]
    [] type \in {"XOR", "NXOR"}  -> sm[1] # sm[2]
Equation(type, sm) == IF type \in Inverted THEN ~RightHandSide(type, sm) ELSE RightHandSide(type, sm)

\* emitPl() and getOrAssignPl(): gates maps the groups of slot i to their values and conditions.
AddPl(dp, i, gates) ==
  LET bitsOf(g) == LET bregs == OperandsOf(gates[g].condition)
                   IN [k \in DOMAIN bregs |-> IF Measured(dp, bregs[k]) THEN dp.bitOf[bregs[k]] ELSE 0]
      bregs   == UNION {Range(OperandsOf(gates[g].condition)) : g \in DOMAIN gates}
      windows == UNION {{b \div PlWindow : b \in Range(bitsOf(g))} : g \in DOMAIN gates}
      pl == [window |-> Min(windows \cup {SmBits}),
             logic |-> [g \in DOMAIN gates |->
                          [value |-> gates[g].value, type |-> DecodeCondition(gates[g].condition),
                           bits |-> [k \in DOMAIN bitsOf(g) |-> bitsOf(g)[k] % PlWindow]]]]
      e == Check([dp EXCEPT !.pls[i] = Append(@, pl)], Len(dp.pls[i]) < PlCount, "out of PLs")
      f == Check(e, \A b \in bregs : Measured(dp, b), "never measured")
  IN Check(f, Cardinality(windows) <= 1, "window of PL")
=============================================================================
