---------------------------- MODULE GrubModules ----------------------------
(***************************************************************************)
(* The module list of mini-bootloader/src/grub_modules.c and the order in   *)
(* which its modules can be started.  A module names those it depends on by *)
(* their place in the list, which may not be filled yet.  Names, types and  *)
(* segments are left out.                                                   *)
(***************************************************************************)
EXTENDS Integers, Sequences, SequencesExt, FiniteSets

CONSTANTS
  Dependencies,     \* sets of dependencies that modules have
  MaxModules        \* GRUB_MODULE_MAX (32)

ASSUME GrubAssumption == MaxModules \in Nat

VARIABLE modules    \* the dependencies of modules[0 .. count - 1]

gmvars == <<modules>>

\* grub_module_list_init, at first and whenever a caller starts over.
GrubInit == modules = << >>
ModuleListInit == modules' = << >>

\* grub_load_module, and grub_register_fs_driver, whose modules depend on
\* nothing.
LoadModule(deps) ==
  /\ Len(modules) < MaxModules
  /\ modules' = Append(modules, deps)

\* Dependencies outside the list are ignored.
KnownDeps(j) == modules[j] \cap DOMAIN modules

\* Mutant: one dependency that is built is enough.
BuildAnyBuilt(built, j) ==
  IF j \notin ToSet(built) /\ (KnownDeps(j) = {} \/ KnownDeps(j) \cap ToSet(built) # {})
  THEN Append(built, j) ELSE built

\* A module not built yet whose dependencies are built is built.
Build(built, j) ==
  IF j \notin ToSet(built) /\ KnownDeps(j) \subseteq ToSet(built)
  THEN Append(built, j) ELSE built

\* One pass over the list: what is built counts for those behind it.
Sweep(built) ==
  LET after[j \in 0 .. Len(modules)] == IF j = 0 THEN built ELSE Build(after[j - 1], j)
  IN  after[Len(modules)]

\* grub_dependency_resolve with grub_topological_sort: as many passes as there
\* are modules; fewer modules than that built is a circular dependency.
LoadOrder ==
  LET passed[n \in 0 .. Len(modules)] == IF n = 0 THEN << >> ELSE Sweep(passed[n - 1])
  IN  passed[Len(modules)]
Resolves == Len(LoadOrder) = Len(modules)

GrubNext ==
  \/ ModuleListInit
  \/ \E deps \in Dependencies : LoadModule(deps)

GrubSpec == GrubInit /\ [][GrubNext]_gmvars

-----------------------------------------------------------------------------
(* Properties.                                                             *)

GrubTypeOK ==
  /\ modules \in Seq(Dependencies)
  /\ Len(modules) <= MaxModules

\* S has no module to start with: each depends on another of them.
Stuck(S) == S # {} /\ \A j \in S : KnownDeps(j) \cap S # {}

\* A module list has an order exactly when no modules wait for each other,
\* and the order has every module once and none before one it depends on.
OrderRespectsDependencies ==
  /\ Resolves <=> ~\E S \in SUBSET DOMAIN modules : Stuck(S)
  /\ IsInjective(LoadOrder)
  /\ \A i \in DOMAIN LoadOrder :
       KnownDeps(LoadOrder[i]) \subseteq {LoadOrder[k] : k \in 1 .. i - 1}
=============================================================================
