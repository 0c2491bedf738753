--------------------------- MODULE MCCliHelpers ----------------------------
(* Model-checking instance of the CLI's two local helpers: the ephemeral   *)
(* seed search and the compute-unit limit from simulation.  They share no *)
(* state, and each step is a step of one of them.                          *)
EXTENDS Naturals

CONSTANTS MaxAttempts, NumSeeds, NoSeed, RpcFailures,
          UnitBits, MaxComputeUnitLimit

VARIABLES ephemeral, seed, pc, result,
          callerInstructions, instructions, consumed, budgetPc, budgetResult

Seeds == INSTANCE CliSeedSearch

Budget == INSTANCE CliComputeBudget

seedVars == <<ephemeral, seed, pc, result>>

budgetVars ==
  <<callerInstructions, instructions, consumed, budgetPc, budgetResult>>

helperVars == <<seedVars, budgetVars>>

HelpersInit == Seeds!Init /\ Budget!Init

HelpersNext ==
  \/ Seeds!Next /\ UNCHANGED budgetVars
  \/ Budget!BudgetNext /\ UNCHANGED seedVars

HelpersSpec == HelpersInit /\ [][HelpersNext]_helperVars

\* The seed search returns the least free seed below max_attempts, or
\* fails exactly when there is none (CliSeedSearch).
SeedSearchMatchesReference == Seeds!SeedSearchMatchesReference

\* add_compute_unit_limit_from_simulation leaves exactly one limit
\* instruction after the caller's, set to the units consumed on Ok and to
\* the maximum on Err (CliComputeBudget).
ComputeBudgetContract == Budget!ComputeBudgetContract

====
