------------------------------ MODULE NVStorage ------------------------------
(***************************************************************************)
(* TPM NV storage, mini-measured-boot/src/nv_storage.c: an array of index   *)
(* descriptors that closes up when one is undefined, with attributes, two   *)
(* locks per index and a global lock.                                       *)
(*                                                                         *)
(* Abstracted: a counter's four bytes are a number, a bit field's eight a   *)
(* set, an extend index the sequence of what was extended (hashes do not    *)
(* collide), and an ordinary index its last data, if any.  Sizes matter     *)
(* only for WRITEALL: data fills the index or not.  The attributes WRITTEN  *)
(* and READLOCKED are set and never read; policies are stored, never used.  *)
(***************************************************************************)
EXTENDS Integers, Sequences

CONSTANTS
  NVHandles,      \* the handles callers use
  Templates,      \* the types and attributes callers define
  NVData,         \* data written or extended
  Bits,           \* the bits of a bit field
  AuthValues,     \* index authorisation values
  MaxIndices,     \* NV_MAX_INDICES (32)
  CounterMax,     \* NV_COUNTER_MAX (0xFFFFFFFF)
  MaxNVExtends    \* bound of the model: data extended into one index

ASSUME NVAssumption ==
  /\ {MaxIndices, CounterMax, MaxNVExtends} \subseteq Nat
  /\ \A t \in Templates :
       /\ t.nv_type \in {"ORDINARY", "COUNTER", "BITFIELD", "EXTEND"}
       /\ t.attributes \subseteq
            {"OWNERREAD", "OWNERWRITE", "AUTHREAD", "AUTHWRITE", "PPREAD",
             "PPWRITE", "POLICY_DELETE", "PLATFORMCREATE", "WRITELOCKED",
             "WRITEALL", "WRITEDEFINE", "READ_STCLEAR", "GLOBALLOCK"}

VARIABLES
  indices,       \* indices[0 .. index_count - 1]
  global_lock

nvvars == <<indices, global_lock>>

NVAuths == {"OWNER", "PLATFORM", "INDEX"}

\* nv_storage_init.
NVInit == indices = << >> /\ global_lock = FALSE

-----------------------------------------------------------------------------
\* nv_find_index: the first index with this handle, or 0.
NVFind(h) ==
  LET at == {i \in DOMAIN indices : indices[i].handle = h}
  IN  IF at = {} THEN 0 ELSE CHOOSE i \in at : \A j \in at : i <= j

\* nv_check_read_access.
MayRead(idx, auth, value) ==
  /\ ~idx.read_locked
  /\ \/ auth = "OWNER"    /\ "OWNERREAD" \in idx.attributes
     \/ auth = "PLATFORM" /\ "PPREAD" \in idx.attributes
     \/ auth = "INDEX"    /\ "AUTHREAD" \in idx.attributes /\ value = idx.auth_value

\* Mutant: the lock of an index does not hold against the platform.
MayWriteDespiteLock(idx, auth, value) ==
  \/ auth = "PLATFORM" /\ "PPWRITE" \in idx.attributes
  \/ /\ ~idx.write_locked
     /\ "WRITELOCKED" \notin idx.attributes
     /\ \/ auth = "OWNER" /\ "OWNERWRITE" \in idx.attributes
        \/ auth = "INDEX" /\ "AUTHWRITE" \in idx.attributes /\ value = idx.auth_value

\* nv_check_write_access.
MayWrite(idx, auth, value) ==
  /\ ~idx.write_locked
  /\ "WRITELOCKED" \notin idx.attributes
  /\ \/ auth = "OWNER"    /\ "OWNERWRITE" \in idx.attributes
     \/ auth = "PLATFORM" /\ "PPWRITE" \in idx.attributes
     \/ auth = "INDEX"    /\ "AUTHWRITE" \in idx.attributes /\ value = idx.auth_value

\* The zeroed data of a new index.
Blank(nv_type) ==
  CASE nv_type = "COUNTER"  -> 0
    [] nv_type = "BITFIELD" -> {}
    [] OTHER                -> << >>

\* nv_define_space.
DefineSpace(h, template, value) ==
  /\ Len(indices) < MaxIndices
  /\ NVFind(h) = 0
  /\ indices' = Append(indices,
       [handle       |-> h,
        nv_type      |-> template.nv_type,
        attributes   |-> template.attributes,
        data         |-> Blank(template.nv_type),
        auth_value   |-> value,
        read_locked  |-> FALSE,
        write_locked |-> FALSE])
  /\ UNCHANGED global_lock

\* nv_define_uefi_variable: the authorisation value is the name's hash.
DefineUefiVariable(h, name_hash) ==
  DefineSpace(h, [nv_type    |-> "ORDINARY",
                  attributes |-> {"PPREAD", "AUTHWRITE", "GLOBALLOCK"}],
              name_hash)

\* nv_undefine_space: the later indices move down.
UndefineSpace(h, auth) ==
  LET i == NVFind(h)
  IN  /\ i # 0
      /\ "POLICY_DELETE" \notin indices[i].attributes
      /\ "PLATFORMCREATE" \in indices[i].attributes => auth = "PLATFORM"
      /\ indices' = [j \in 1 .. Len(indices) - 1 |->
                       IF j < i THEN indices[j] ELSE indices[j + 1]]
      /\ UNCHANGED global_lock

\* nv_read, which locks a READ_STCLEAR index against further reads.
NVRead(h, auth, value) ==
  LET i == NVFind(h)
  IN  /\ i # 0
      /\ MayRead(indices[i], auth, value)
      /\ indices' = [indices EXCEPT ![i].read_locked =
                       "READ_STCLEAR" \in indices[i].attributes]
      /\ UNCHANGED global_lock

Globally(idx) == global_lock /\ "GLOBALLOCK" \in idx.attributes

\* nv_write; whole: the data fills the index.
NVWrite(h, data, whole, auth, value) ==
  LET i == NVFind(h)
  IN  /\ i # 0
      /\ indices[i].nv_type = "ORDINARY"
      /\ ~Globally(indices[i])
      /\ "WRITEALL" \in indices[i].attributes => whole
      /\ MayWrite(indices[i], auth, value)
      /\ "WRITEDEFINE" \in indices[i].attributes => indices[i].data = << >>
      /\ indices' = [indices EXCEPT ![i].data = <<data>>]
      /\ UNCHANGED global_lock

\* nv_counter_increment asks for no authorisation, and neither for the
\* attribute WRITELOCKED nor for the global lock.
CounterIncrement(h) ==
  LET i == NVFind(h)
  IN  /\ i # 0
      /\ indices[i].nv_type = "COUNTER"
      /\ ~indices[i].write_locked
      /\ indices[i].data < CounterMax
      /\ indices' = [indices EXCEPT ![i].data = @ + 1]
      /\ UNCHANGED global_lock

\* nv_extend.
NVExtend(h, data, auth, value) ==
  LET i == NVFind(h)
  IN  /\ i # 0
      /\ indices[i].nv_type = "EXTEND"
      /\ MayWrite(indices[i], auth, value)
      /\ ~Globally(indices[i])
      /\ Len(indices[i].data) < MaxNVExtends
      /\ indices' = [indices EXCEPT ![i].data = Append(@, data)]
      /\ UNCHANGED global_lock

\* nv_setbits.
SetBits(h, bits, auth, value) ==
  LET i == NVFind(h)
  IN  /\ i # 0
      /\ indices[i].nv_type = "BITFIELD"
      /\ MayWrite(indices[i], auth, value)
      /\ ~Globally(indices[i])
      /\ indices' = [indices EXCEPT ![i].data = @ \cup bits]
      /\ UNCHANGED global_lock

\* nv_global_lock.
GlobalLock == global_lock' = TRUE /\ UNCHANGED indices

\* nv_read_lock, nv_write_lock.
ReadLock(h) ==
  LET i == NVFind(h)
  IN  /\ i # 0
      /\ indices' = [indices EXCEPT ![i].read_locked = TRUE]
      /\ UNCHANGED global_lock

WriteLock(h) ==
  LET i == NVFind(h)
  IN  /\ i # 0
      /\ indices' = [indices EXCEPT ![i].write_locked = TRUE,
                                    ![i].attributes = @ \cup {"WRITELOCKED"}]
      /\ UNCHANGED global_lock

\* nv_change_auth.
ChangeAuth(h, old_auth, new_auth) ==
  LET i == NVFind(h)
  IN  /\ i # 0
      /\ indices[i].auth_value = old_auth
      /\ indices' = [indices EXCEPT ![i].auth_value = new_auth]
      /\ UNCHANGED global_lock

NVNext ==
  \/ GlobalLock
  \/ \E h \in NVHandles :
       \/ \E t \in Templates, v \in AuthValues : DefineSpace(h, t, v)
       \/ \E v \in AuthValues : DefineUefiVariable(h, v)
       \/ \E auth \in NVAuths : UndefineSpace(h, auth)
       \/ CounterIncrement(h)
       \/ ReadLock(h)
       \/ WriteLock(h)
       \/ \E auth \in NVAuths, v \in AuthValues :
            \/ NVRead(h, auth, v)
            \/ \E d \in NVData, whole \in BOOLEAN : NVWrite(h, d, whole, auth, v)
            \/ \E d \in NVData : NVExtend(h, d, auth, v)
            \/ \E bits \in SUBSET Bits : SetBits(h, bits, auth, v)
       \/ \E v, w \in AuthValues : ChangeAuth(h, v, w)

NVSpec == NVInit /\ [][NVNext]_nvvars

-----------------------------------------------------------------------------
(* Properties.                                                             *)

NVTypeOK ==
  /\ Len(indices) <= MaxIndices
  /\ global_lock \in BOOLEAN
  /\ \A i \in DOMAIN indices :
       /\ indices[i].handle \in NVHandles
       /\ indices[i].auth_value \in AuthValues
       /\ {indices[i].read_locked, indices[i].write_locked} \subseteq BOOLEAN

DefinedHandles == {indices[i].handle : i \in DOMAIN indices}

\* A space as its users see it.  WRITEDEFINE means write once; counters heed
\* neither the attribute WRITELOCKED nor the global lock.
View(idx) ==
  LET counter == idx.nv_type = "COUNTER"
  IN  [kind     |-> IF idx.nv_type = "ORDINARY" /\ "WRITEDEFINE" \in idx.attributes
                    THEN "ONCE" ELSE idx.nv_type,
       content  |-> idx.data,
       locked   |-> idx.write_locked \/ (~counter /\ "WRITELOCKED" \in idx.attributes),
       barrable |-> ~counter /\ "GLOBALLOCK" \in idx.attributes]

\* The array with its look-ups, shifts and three kinds of lock keeps the
\* promise of NVVault: every index evolves as its kind allows, is frozen once
\* locked, and none is disturbed by what is done to another.
Vault == INSTANCE NVVault WITH
           Handles <- NVHandles, barred <- global_lock,
           spaces <- [h \in DefinedHandles |-> View(indices[NVFind(h)])]

KeepsVault == Vault!Spec
=============================================================================
