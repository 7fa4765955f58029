---------------------------- MODULE BootManager ----------------------------
(***************************************************************************)
(* Boot device selection of mini-boot-process/src/boot_policy.c: boot       *)
(* options in numbered slots that are used again, a boot order and BootNext *)
(* that name them by number, and the variable store.                       *)
(*                                                                         *)
(* Descriptions, paths and optional data are left out but for whether there *)
(* is a path.  No hotkey is ever pressed (boot_hotkey_detect).  Callers give *)
(* BootNext a number of a slot or 0, since boot_manager_select uses it as an *)
(* index unchecked.                                                        *)
(***************************************************************************)
EXTENDS Integers, Sequences, FiniteSets

CONSTANTS
  OptionKinds,      \* what options may be: [attributes, has_path]
  MaxOptions,       \* MAX_BOOT_OPTIONS = MAX_BOOT_ORDER_ENTRIES (16)
  VarNames,         \* names of variables, "BootOrder" among them
  StoredName,       \* the name a name is stored as: names are cut at 63 bytes
  VarData,          \* what other variables hold
  MaxVars,          \* MAX_NVRAM_VARS (32)
  MaxAdds, MaxBoots \* bounds of the model

NotSet == <<-1>>      \* no data is like this

ASSUME BootManagerAssumption ==
  /\ MaxOptions \in Nat \ {0}
  /\ MaxVars \in Nat
  /\ "BootOrder" \in VarNames
  /\ StoredName \in [VarNames -> VarNames]
  /\ StoredName["BootOrder"] = "BootOrder"
  /\ NotSet \notin VarData

VARIABLES
  options,        \* options[0 .. MAX_BOOT_OPTIONS - 1]
  boot_order,
  boot_next,
  nvram_vars,     \* nvram_vars[0 .. nvram_var_count - 1]: [name, data]
  added,          \* history: how many options were added
  meant,          \* history: for each entry of the order, the option it meant when loaded
  order_clean,    \* history: the order was loaded with existing options, each once
  last_set,       \* history: what each name was last set to
  boots           \* history: how many selections were made

bmopt == <<options, boot_order, boot_next, added, meant, order_clean, boots>>
bmvars == <<bmopt, nvram_vars, last_set>>

OptionNumbers == 1 .. MaxOptions
NoOption == [valid |-> FALSE, attributes |-> {}, has_path |-> FALSE, born |-> 0]

\* boot_mgr_init.
BootMgrInit ==
  /\ options = [n \in OptionNumbers |-> NoOption]
  /\ boot_order = << >>
  /\ boot_next = 0
  /\ nvram_vars = << >>
  /\ added = 0
  /\ meant = << >>
  /\ order_clean = TRUE
  /\ last_set = [name \in VarNames |-> NotSet]
  /\ boots = 0

ValidOptions == {n \in OptionNumbers : options[n].valid}

\* boot_option_add: the first slot that is not valid.
OptionAdd(kind) ==
  /\ added < MaxAdds
  /\ \E n \in OptionNumbers \ ValidOptions :
       /\ 1 .. n - 1 \subseteq ValidOptions
       /\ options' = [options EXCEPT ![n] =
            [valid |-> TRUE, attributes |-> kind.attributes, has_path |-> kind.has_path,
             born |-> added + 1]]
  /\ added' = added + 1
  /\ UNCHANGED <<boot_order, boot_next, nvram_vars, meant, order_clean, last_set, boots>>

Without(seq, i) == SubSeq(seq, 1, i - 1) \o SubSeq(seq, i + 1, Len(seq))
Places(n) == {i \in DOMAIN boot_order : boot_order[i] = n}

\* Mutant: the option goes, its place in the order stays.
OptionRemoveKeepsOrder(n) ==
  /\ n \in ValidOptions
  /\ options' = [options EXCEPT ![n].valid = FALSE]
  /\ UNCHANGED <<boot_order, boot_next, nvram_vars, added, meant, order_clean, last_set, boots>>

\* boot_option_remove: the first place in the order goes too; BootNext does not.
OptionRemove(n) ==
  /\ n \in ValidOptions
  /\ options' = [options EXCEPT ![n].valid = FALSE]
  /\ IF Places(n) = {} THEN UNCHANGED <<boot_order, meant>>
     ELSE LET i == CHOOSE i \in Places(n) : \A j \in Places(n) : i <= j
          IN  boot_order' = Without(boot_order, i) /\ meant' = Without(meant, i)
  /\ UNCHANGED <<boot_next, nvram_vars, added, order_clean, last_set, boots>>

\* Mutant: the order is not cut.
OrderLoadUncut(order) ==
  /\ order # << >>
  /\ boot_order' = order
  /\ meant' = [i \in DOMAIN order |->
                 IF order[i] \in ValidOptions THEN options[order[i]].born ELSE 0]
  /\ order_clean' = FALSE
  /\ UNCHANGED <<options, boot_next, nvram_vars, added, last_set, boots>>

\* boot_order_load: whatever the caller gives, cut at the size of the order.
OrderLoad(order) ==
  /\ order # << >>
  /\ boot_order' = SubSeq(order, 1, IF Len(order) > MaxOptions THEN MaxOptions ELSE Len(order))
  /\ meant' = [i \in DOMAIN boot_order' |->
                 IF boot_order'[i] \in ValidOptions THEN options[boot_order'[i]].born ELSE 0]
  /\ order_clean' = /\ \A i \in DOMAIN boot_order' : boot_order'[i] \in ValidOptions
                    /\ \A i, j \in DOMAIN boot_order' : i # j => boot_order'[i] # boot_order'[j]
  /\ UNCHANGED <<options, boot_next, nvram_vars, added, last_set, boots>>

\* boot_next_set.
BootNextSet(n) ==
  /\ boot_next' = n
  /\ UNCHANGED <<options, boot_order, nvram_vars, added, meant, order_clean, last_set, boots>>

\* boot_option_validate.
Bootable(n) ==
  /\ options[n].valid
  /\ "ACTIVE" \in options[n].attributes
  /\ options[n].has_path
  /\ "HIDDEN" \notin options[n].attributes

\* boot_manager_select with boot_next_check: BootNext, else the first in the
\* order that can be booted, else 0 for the menu.
Selected ==
  LET candidates == {i \in DOMAIN boot_order :
                       boot_order[i] \in OptionNumbers /\ Bootable(boot_order[i])}
  IN  IF boot_next # 0 /\ Bootable(boot_next) THEN boot_next
      ELSE IF candidates = {} THEN 0
      ELSE boot_order[CHOOSE i \in candidates : \A j \in candidates : i <= j]

\* A boot: the selection is made, and changes nothing.
ManagerSelect ==
  /\ boots < MaxBoots
  /\ boots' = boots + 1
  /\ UNCHANGED <<options, boot_order, boot_next, nvram_vars, added, meant, order_clean, last_set>>

-----------------------------------------------------------------------------
(* Variables.                                                              *)

\* The entry a name finds: the first that is stored under all of the name.
VarsNamed(name) == {i \in DOMAIN nvram_vars : nvram_vars[i].name = name}

\* nvram_get_variable.
GetVariable(name) ==
  LET found == VarsNamed(name)
  IN  IF found = {} THEN NotSet
      ELSE nvram_vars[CHOOSE i \in found : \A j \in found : i <= j].data

\* Mutant: a variable is added before the list is searched.
SetVariableAppends(name, data) ==
  /\ Len(nvram_vars) < MaxVars
  /\ nvram_vars' = Append(nvram_vars, [name |-> StoredName[name], data |-> data])
  /\ last_set' = [last_set EXCEPT ![name] = data]

\* nvram_set_variable: an entry found is overwritten, a new one needs room.
SetVariable(name, data) ==
  LET found == VarsNamed(name)
      first == CHOOSE i \in found : \A j \in found : i <= j
  IN  /\ found # {} \/ Len(nvram_vars) < MaxVars
      /\ nvram_vars' = IF found # {} THEN [nvram_vars EXCEPT ![first].data = data]
                       ELSE Append(nvram_vars, [name |-> StoredName[name], data |-> data])
      /\ last_set' = [last_set EXCEPT ![name] = data]

\* nvram_set_variable by a caller.
NvramSet(name, data) ==
  /\ SetVariable(name, data)
  /\ UNCHANGED bmopt

\* boot_order_save.
OrderSave ==
  /\ SetVariable("BootOrder", boot_order)
  /\ UNCHANGED bmopt

Orders == UNION {[1 .. n -> 0 .. MaxOptions] : n \in 1 .. MaxOptions + 1}

OptionNext ==
  \/ \E kind \in OptionKinds : OptionAdd(kind)
  \/ \E n \in OptionNumbers : OptionRemove(n)
  \/ \E n \in 0 .. MaxOptions : BootNextSet(n)
  \/ ManagerSelect

VariableNext ==
  \/ OrderSave
  \/ \E name \in VarNames, data \in VarData : NvramSet(name, data)

BootManagerNext ==
  \/ OptionNext
  \/ \E order \in Orders : OrderLoad(order)
  \/ VariableNext

BootManagerSpec == BootMgrInit /\ [][BootManagerNext]_bmvars

-----------------------------------------------------------------------------
(* Properties.                                                             *)

BootManagerTypeOK ==
  /\ \A n \in OptionNumbers : options[n].born \in 0 .. added
  /\ boot_order \in Seq(0 .. MaxOptions) /\ Len(boot_order) <= MaxOptions
  /\ Len(meant) = Len(boot_order)
  /\ boot_next \in 0 .. MaxOptions
  /\ Len(nvram_vars) <= MaxVars

\* Numbers of removed options are given to new ones, yet an order that named
\* existing options when it was loaded never comes to name an option that is
\* gone, or another option in the same slot: boot_option_remove takes an
\* option out of the order before its number is free.
OrderKeepsItsMeaning ==
  order_clean =>
    \A i \in DOMAIN boot_order :
      boot_order[i] \in ValidOptions /\ options[boot_order[i]].born = meant[i]

\* A variable, the saved boot order too, reads as it was last set, also when
\* the store was full in between, unless its name is too long for the store,
\* or is what a longer name is cut to.
VariablesReadBack ==
  \A name \in VarNames :
    (\A other \in VarNames : StoredName[other] = name /\ last_set[other] # NotSet => other = name)
    /\ StoredName[name] = name
      => GetVariable(name) = last_set[name]

\* The boot manager remembers what it was told: orders name the options they were
\* loaded with, variables read as they were last set (boot_policy.c).
BootManagerRemembers == OrderKeepsItsMeaning /\ VariablesReadBack

\* "After the boot attempt (successful or not), BootNext is cleared."
\* (boot_policy.c:323-324)
BootNextIsOneShot == [][ManagerSelect /\ Selected = boot_next => boot_next' = 0]_bmvars
=============================================================================
