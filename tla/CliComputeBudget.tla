------------------------- MODULE CliComputeBudget -------------------------
(***************************************************************************)
(* The CLI's add_compute_unit_limit_from_simulation: a compute-unit-limit *)
(* instruction at the maximum is appended to the caller's instructions,   *)
(* the transaction is simulated, and the limit is overwritten with the    *)
(* units the simulation consumed, converted to u32.  The simulation's     *)
(* answer is chosen among every outcome the RPC can return.  u32 is       *)
(* scaled to UnitBits bits, which keeps the conversion's edge.            *)
(***************************************************************************)
EXTENDS Naturals, SequencesExt

CONSTANTS
  UnitBits,             \* the width standing for u32
  MaxComputeUnitLimit   \* MAX_COMPUTE_UNIT_LIMIT

U32Max == 2^UnitBits - 1

ASSUME UnitBits \in Nat \ {0} /\ MaxComputeUnitLimit \in 1..U32Max

\* An instruction of the caller's transaction, and the compute budget
\* program's SetComputeUnitLimit instruction.
ProgramInstruction == [kind |-> "Program", units |-> 0]

ComputeLimit(n) == [kind |-> "ComputeLimit", units |-> n]

\* What simulate_transaction answers: an RPC error, a result without
\* units_consumed, or a u64 count of units (here up to one past u32).
SimulationOutcomes ==
  [status: {"RpcError", "NoUnits"}, units: {0}]
    \cup [status: {"Consumed"}, units: 0..(U32Max + 1)]

VARIABLES
  callerInstructions,  \* the caller's instructions on entry
  instructions,  \* the caller's vector, mutated in place
  consumed,      \* the units the simulation reported
  budgetPc,      \* "Start", "Simulate" or "Done"
  budgetResult   \* "Ok" or "Err" once done

budgetVars ==
  <<callerInstructions, instructions, consumed, budgetPc, budgetResult>>

\* Mutant: an `as u32` cast, which wraps instead of failing.
ConvertedUnitsWrapping(n) == [ok |-> TRUE, value |-> n % 2^UnitBits]

\* u32::try_from(units_consumed)?: fails past u32.
ConvertedUnits(n) == [ok |-> n <= U32Max, value |-> n]

\* Mutant: the actual limit is pushed as a second instruction.
SetLastLimitAppending(instrs, n) == Append(instrs, ComputeLimit(n))

\* instructions.last_mut().data = set_compute_unit_limit(n).data
SetLastLimit(instrs, n) == [instrs EXCEPT ![Len(instrs)] = ComputeLimit(n)]

Init ==
  /\ callerInstructions \in {<<ProgramInstruction>>,
                              <<ProgramInstruction, ProgramInstruction>>}
  /\ instructions = callerInstructions
  /\ consumed = 0
  /\ budgetPc = "Start"
  /\ budgetResult = "Ok"

\* instructions.push(set_compute_unit_limit(MAX_COMPUTE_UNIT_LIMIT))
PushMaxLimit ==
  /\ budgetPc = "Start"
  /\ instructions' = Append(instructions, ComputeLimit(MaxComputeUnitLimit))
  /\ budgetPc' = "Simulate"
  /\ UNCHANGED <<callerInstructions, consumed, budgetResult>>

\* Simulate, read units_consumed, convert and overwrite the last
\* instruction; each `?` returns Err with the vector as it is.
Simulate(o) ==
  LET c == ConvertedUnits(o.units) IN
  /\ budgetPc = "Simulate"
  /\ budgetPc' = "Done"
  /\ consumed' = o.units
  /\ IF o.status = "Consumed" /\ c.ok
       THEN /\ instructions' = SetLastLimit(instructions, c.value)
            /\ budgetResult' = "Ok"
       ELSE /\ budgetResult' = "Err"
            /\ UNCHANGED instructions
  /\ UNCHANGED callerInstructions

\* The function has returned.
BudgetReturned == budgetPc = "Done" /\ UNCHANGED budgetVars

BudgetNext ==
  \/ PushMaxLimit
  \/ \E o \in SimulationOutcomes : Simulate(o)
  \/ BudgetReturned

BudgetSpec == Init /\ [][BudgetNext]_budgetVars

-----------------------------------------------------------------------------
(* Properties                                                              *)

\* On return the caller's instructions are intact and followed by exactly
\* one compute-unit-limit instruction.  On Ok its limit is the units the
\* simulation consumed, never a wrapped value.  On Err it is still the
\* maximum: the vector is not restored (client.rs lines 182-187).
ComputeBudgetContract ==
  budgetPc = "Done" =>
    /\ Len(instructions) = Len(callerInstructions) + 1
    /\ Front(instructions) = callerInstructions
    /\ Last(instructions).kind = "ComputeLimit"
    /\ budgetResult = "Ok" => Last(instructions).units = consumed
    /\ budgetResult = "Err" => Last(instructions).units = MaxComputeUnitLimit

====
