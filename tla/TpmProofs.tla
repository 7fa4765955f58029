------------------------------ MODULE TpmProofs -------------------------------
(***************************************************************************)
(* Proofs about the TPM of mini-measured-boot, its sessions, keys and NV   *)
(* storage, and about the TPM and measured boot of mini-secure-boot, for   *)
(* all capacities of their tables and all values of their constants.       *)
(***************************************************************************)
EXTENDS NVStorage, TpmAuth, TpmKeys, Tpm2, SrtmLog, ProofLemmas, TLAPS

-----------------------------------------------------------------------------
(* Sessions and lockout.                                                   *)

Session == [is_active : BOOLEAN, policy_digest : Seq(Assertions),
            policy_approved : BOOLEAN]

AuthInv == TpmAuthTypeOK /\ SessionsAccounted

LEMMA SlotsFinite ==
  ASSUME NEW S \in SUBSET Slots PROVE IsFiniteSet(S) /\ Cardinality(S) \in Nat
<1>1. IsFiniteSet(Slots)
  BY AuthAssumption, FS_Interval DEF Slots
<1>2. QED
  BY <1>1, FS_Subset, FS_CardinalityType

\* The slot that tpm_start_auth_session takes is free.
LEMMA FirstFreeSlot ==
  ASSUME ActiveSlots # Slots
  PROVE  Min(Slots \ ActiveSlots) \in Slots \ ActiveSlots
<1> DEFINE Free == Slots \ ActiveSlots
<1>1. Free \in SUBSET Nat /\ Free # {}
  BY AuthAssumption DEF Slots, ActiveSlots
<1> HIDE DEF Free
<1>2. \E i \in Free : \A j \in Free : i <= j
  BY <1>1, LeastNatural
<1>3. Min(Free) \in Free
  BY <1>2 DEF Min
<1>4. QED
  BY <1>3 DEF Free

LEMMA AuthInit == TpmAuthInit => AuthInv
<1> SUFFICES ASSUME TpmAuthInit PROVE AuthInv
  OBVIOUS
<1>1. sessions = [i \in Slots |-> BlankSession]
  BY DEF TpmAuthInit
<1>2. BlankSession \in Session /\ BlankSession.is_active = FALSE
  BY DEF BlankSession, Session
<1>3. sessions \in [Slots -> Session]
  BY <1>1, <1>2
<1>4. ActiveSlots = {}
  BY <1>1, <1>2 DEF ActiveSlots
<1>5. Cardinality(ActiveSlots) = 0
  BY <1>4, FS_EmptySet
<1>6. /\ session_count = 0 /\ lockout_counter = 0 /\ locality = 0
      /\ lockout_active = FALSE
  BY DEF TpmAuthInit
<1>7. TpmAuthTypeOK
  <2>1. MaxSessions \in Nat /\ MaxLockoutCount \in Nat
    BY AuthAssumption
  <2>2. lockout_active \in BOOLEAN
    BY <1>6
  <2>3. session_count \in 0 .. MaxSessions
    BY <1>6, <2>1
  <2>4. lockout_counter \in 0 .. MaxLockoutCount /\ locality \in 0 .. 4
    BY <1>6, <2>1
  <2>5. QED
    BY <1>3, <2>2, <2>3, <2>4 DEF TpmAuthTypeOK, Session
<1>8. SessionsAccounted
  BY <1>1, <1>5, <1>6, AuthAssumption DEF SessionsAccounted
<1>9. QED
  BY <1>7, <1>8 DEF AuthInv

LEMMA StartKeepsAuth ==
  ASSUME AuthInv, StartAuthSession PROVE AuthInv'
<1> DEFINE i == Min(Slots \ ActiveSlots)
<1>1. i \in Slots \ ActiveSlots
  BY FirstFreeSlot DEF StartAuthSession
<1>2. /\ sessions' = [sessions EXCEPT ![i].is_active = TRUE,
                                      ![i].policy_approved = FALSE]
      /\ session_count' = session_count + 1 /\ session_count < MaxSessions
      /\ UNCHANGED <<lockout_counter, lockout_active, locality>>
  BY DEF StartAuthSession
<1> HIDE DEF i
<1>3. sessions \in [Slots -> Session]
  BY DEF AuthInv, TpmAuthTypeOK, Session
<1>4. sessions' \in [Slots -> Session] /\ sessions'[i].is_active
  BY <1>1, <1>2, <1>3 DEF Session
<1>5. \A j \in Slots \ {i} : sessions'[j] = sessions[j]
  BY <1>2, <1>3
<1>6. ActiveSlots' = ActiveSlots \cup {i}
  BY <1>1, <1>4, <1>5 DEF ActiveSlots
<1>7. Cardinality(ActiveSlots') = Cardinality(ActiveSlots) + 1
  <2>1. ActiveSlots \in SUBSET Slots /\ i \notin ActiveSlots
    BY <1>1 DEF ActiveSlots
  <2>2. IsFiniteSet(ActiveSlots)
    BY <2>1, SlotsFinite
  <2>3. QED
    BY <1>6, <2>1, <2>2, FS_AddElement
<1>8. TpmAuthTypeOK'
  BY <1>2, <1>4, AuthAssumption DEF AuthInv, TpmAuthTypeOK, Session
<1>9. SessionsAccounted'
  <2>1. \A j \in Slots \ ActiveSlots' : sessions'[j] = BlankSession
    BY <1>5, <1>6 DEF AuthInv, SessionsAccounted
  <2>2. session_count' = Cardinality(ActiveSlots')
    BY <1>2, <1>7 DEF AuthInv, SessionsAccounted
  <2>3. QED
    BY <1>2, <2>1, <2>2 DEF AuthInv, SessionsAccounted
<1>10. QED
  BY <1>8, <1>9 DEF AuthInv

\* A policy command changes a session that stays active.
LEMMA PolicyKeepsAuth ==
  ASSUME AuthInv, NEW i \in Slots,
         sessions[i].is_active, sessions' \in [Slots -> Session],
         sessions'[i].is_active, \A j \in Slots \ {i} : sessions'[j] = sessions[j],
         UNCHANGED <<session_count, lockout_counter, lockout_active, locality>>
  PROVE  AuthInv'
<1>1. ActiveSlots' = ActiveSlots
  BY DEF ActiveSlots
<1>2. TpmAuthTypeOK'
  BY DEF AuthInv, TpmAuthTypeOK, Session
<1>3. \A j \in Slots \ ActiveSlots' : sessions'[j] = BlankSession
  <2>1. i \in ActiveSlots'
    BY DEF ActiveSlots
  <2>2. QED
    BY <1>1, <2>1 DEF AuthInv, SessionsAccounted
<1>4. SessionsAccounted'
  BY <1>1, <1>3 DEF AuthInv, SessionsAccounted
<1>5. QED
  BY <1>2, <1>4 DEF AuthInv

LEMMA FlushKeepsAuth ==
  ASSUME AuthInv, NEW i \in Slots, FlushContext(i) PROVE AuthInv'
<1>1. /\ i \in ActiveSlots
      /\ sessions' = [sessions EXCEPT ![i] = BlankSession]
      /\ session_count' = session_count - 1
      /\ UNCHANGED <<lockout_counter, lockout_active, locality>>
  BY DEF FlushContext, ActiveSlots
<1>2. sessions \in [Slots -> Session]
  BY DEF AuthInv, TpmAuthTypeOK, Session
<1>3. BlankSession \in Session /\ ~BlankSession.is_active
  BY DEF BlankSession, Session
<1>4. sessions' \in [Slots -> Session] /\ sessions'[i] = BlankSession
  BY <1>1, <1>2, <1>3
<1>5. \A j \in Slots \ {i} : sessions'[j] = sessions[j]
  BY <1>1, <1>2
<1>6. ActiveSlots' = ActiveSlots \ {i}
  BY <1>3, <1>4, <1>5 DEF ActiveSlots
<1>7. /\ Cardinality(ActiveSlots') = Cardinality(ActiveSlots) - 1
      /\ Cardinality(ActiveSlots') \in Nat
  <2>1. ActiveSlots \in SUBSET Slots /\ ActiveSlots' \in SUBSET Slots
    BY <1>6 DEF ActiveSlots
  <2>2. IsFiniteSet(ActiveSlots) /\ Cardinality(ActiveSlots') \in Nat
    BY <2>1, SlotsFinite
  <2>3. QED
    BY <1>1, <1>6, <2>2, FS_RemoveElement
<1>8. session_count' = Cardinality(ActiveSlots')
  BY <1>1, <1>7 DEF AuthInv, SessionsAccounted
<1>9. TpmAuthTypeOK'
  <2>1. session_count' \in 0 .. MaxSessions
    BY <1>1, <1>7, <1>8, AuthAssumption DEF AuthInv, TpmAuthTypeOK
  <2>2. QED
    BY <1>1, <1>4, <2>1 DEF AuthInv, TpmAuthTypeOK, Session
<1>10. \A j \in Slots \ ActiveSlots' : sessions'[j] = BlankSession
  BY <1>4, <1>5, <1>6 DEF AuthInv, SessionsAccounted
<1>11. SessionsAccounted'
  BY <1>1, <1>8, <1>10 DEF AuthInv, SessionsAccounted
<1>12. QED
  BY <1>9, <1>11 DEF AuthInv

\* Lockout is entered by the failure that reaches the limit.
LEMMA AuthorizeKeepsAuth ==
  ASSUME AuthInv, NEW right \in BOOLEAN, AuthorizeCommand(right) PROVE AuthInv'
<1>1. ~lockout_active /\ UNCHANGED <<sessions, session_count, locality>>
  BY DEF AuthorizeCommand
<1>2. ActiveSlots' = ActiveSlots
  BY <1>1 DEF ActiveSlots
<1>3. CASE right
  <2>1. lockout_counter' = 0 /\ lockout_active' = lockout_active
    BY <1>3 DEF AuthorizeCommand
  <2>2. QED
    BY <1>1, <1>2, <2>1, AuthAssumption DEF AuthInv, TpmAuthTypeOK, SessionsAccounted
<1>4. CASE ~right
  <2>1. /\ lockout_counter < MaxLockoutCount
        /\ lockout_counter' = lockout_counter + 1
    BY <1>4 DEF AuthorizeCommand
  <2>2. lockout_active' = (lockout_counter + 1 >= MaxAuthFail)
    BY <1>4, Zenon DEF AuthorizeCommand
  <2>3. lockout_active' \in BOOLEAN
    <3>1. CASE lockout_counter + 1 >= MaxAuthFail
      BY <2>2, <3>1
    <3>2. CASE ~(lockout_counter + 1 >= MaxAuthFail)
      BY <2>2, <3>2
    <3>3. QED
      BY <3>1, <3>2
  <2>4. lockout_active' <=> lockout_counter' >= MaxAuthFail
    BY <2>1, <2>2
  <2>5. lockout_counter' \in 0 .. MaxLockoutCount
    BY <2>1, AuthAssumption DEF AuthInv, TpmAuthTypeOK
  <2>6. TpmAuthTypeOK'
    BY <1>1, <2>3, <2>5 DEF AuthInv, TpmAuthTypeOK
  <2>7. SessionsAccounted'
    BY <1>1, <1>2, <2>4 DEF AuthInv, SessionsAccounted
  <2>8. QED
    BY <2>6, <2>7 DEF AuthInv
<1>5. QED
  BY <1>3, <1>4

LEMMA AuthStep == AuthInv /\ [TpmAuthNext]_tavars => AuthInv'
<1> SUFFICES ASSUME AuthInv, [TpmAuthNext]_tavars PROVE AuthInv'
  OBVIOUS
<1>1. sessions \in [Slots -> Session]
  BY DEF AuthInv, TpmAuthTypeOK, Session
<1>2. CASE StartAuthSession
  BY <1>2, StartKeepsAuth
<1>3. ASSUME NEW i \in Slots, NEW a \in Assertions, PolicyExtend(i, a)
      PROVE  AuthInv'
  <2>1. sessions[i].policy_digest \in Seq(Assertions)
    BY <1>1 DEF Session
  <2>2. Append(sessions[i].policy_digest, a) \in Seq(Assertions)
    BY <2>1
  <2>3. /\ sessions' \in [Slots -> Session] /\ sessions'[i].is_active
        /\ \A j \in Slots \ {i} : sessions'[j] = sessions[j]
    BY <1>1, <1>3, <2>2 DEF PolicyExtend, Session
  <2>4. QED
    BY <1>3, <2>3, PolicyKeepsAuth DEF PolicyExtend
<1>4. ASSUME NEW i \in Slots, PolicyPassword(i) PROVE AuthInv'
  <2>1. /\ sessions' \in [Slots -> Session] /\ sessions'[i].is_active
        /\ \A j \in Slots \ {i} : sessions'[j] = sessions[j]
    BY <1>1, <1>4 DEF PolicyPassword, Session
  <2>2. QED
    BY <1>4, <2>1, PolicyKeepsAuth DEF PolicyPassword
<1>5. ASSUME NEW i \in Slots, FlushContext(i) PROVE AuthInv'
  BY <1>5, FlushKeepsAuth
<1>6. ASSUME NEW right \in BOOLEAN, AuthorizeCommand(right) PROVE AuthInv'
  BY <1>6, AuthorizeKeepsAuth
<1>7. ASSUME NEW l \in 0 .. 4, SetLocality(l) PROVE AuthInv'
  <2>1. /\ UNCHANGED <<sessions, session_count, lockout_counter, lockout_active>>
        /\ locality' = l
    BY <1>7 DEF SetLocality
  <2>2. ActiveSlots' = ActiveSlots
    BY <2>1 DEF ActiveSlots
  <2>3. QED
    BY <2>1, <2>2 DEF AuthInv, TpmAuthTypeOK, SessionsAccounted
<1>8. CASE UNCHANGED tavars
  <2>1. UNCHANGED <<sessions, session_count, lockout_counter, lockout_active, locality>>
    BY <1>8 DEF tavars
  <2>2. ActiveSlots' = ActiveSlots
    BY <2>1 DEF ActiveSlots
  <2>3. QED
    BY <2>1, <2>2 DEF AuthInv, TpmAuthTypeOK, SessionsAccounted
<1>9. QED
  BY <1>2, <1>3, <1>4, <1>5, <1>6, <1>7, <1>8 DEF TpmAuthNext

\* The separate counter says how many sessions there are, a free slot holds
\* nothing of an earlier session, and lockout begins exactly at the limit.
THEOREM SessionsStayAccounted == TpmAuthSpec => []SessionsAccounted
<1>1. AuthInv => SessionsAccounted
  BY DEF AuthInv
<1>2. QED
  BY <1>1, AuthInit, AuthStep, PTL DEF TpmAuthSpec

-----------------------------------------------------------------------------
(* Keys and sealed data.                                                   *)

Key == [handle : Nat, unique : (Hierarchies \X KeyTemplates) \cup {<<u>> : u \in Uniques},
        born : Nat]

\* Keys sit in the order of their creation.
KeysInOrder ==
  /\ \A i \in DOMAIN keys : keys[i].born < keys_made
  /\ \A i, j \in DOMAIN keys : i < j => keys[i].born < keys[j].born

\* While only the newest key is ever flushed, its handle tells a key's place.
HandlesTellPlaces ==
  stacked => \A i \in DOMAIN keys :
    keys[i].handle \in {i - 1, 65536 + (i - 1), 131072 + (i - 1), 256 * i}

\* The key that sealed a blob, while it is loaded, is the first of its handle.
SealedUnder(b, i) ==
  /\ keys[i].handle = b.under
  /\ \A j \in DOMAIN keys : j < i => keys[j].handle # b.under
  /\ b.wrapping = <<keys[i].unique, b.composite>>

BlobsFindTheirKeys ==
  \A b \in blobs :
    /\ b.of \in Nat /\ b.of < keys_made
    /\ \A i \in DOMAIN keys : keys[i].born = b.of => SealedUnder(b, i)

KeysInv ==
  /\ keys \in Seq(Key) /\ Len(keys) <= MaxLoadedKeys
  /\ keys_made \in Nat
  /\ KeysInOrder
  /\ HandlesTellPlaces
  /\ BlobsFindTheirKeys

\* What tpm_flush_key, tpm_seal and tpm_unseal find.
LEMMA FindHandleFirst ==
  ASSUME keys \in Seq(Key), NEW h
  PROVE  /\ FindHandle(h) # 0 =>
              /\ FindHandle(h) \in DOMAIN keys /\ keys[FindHandle(h)].handle = h
              /\ \A j \in DOMAIN keys : j < FindHandle(h) => keys[j].handle # h
         /\ \A i \in DOMAIN keys :
              keys[i].handle = h /\ (\A j \in DOMAIN keys : j < i => keys[j].handle # h)
                => FindHandle(h) = i
<1> DEFINE at == {i \in DOMAIN keys : keys[i].handle = h}
           f  == FindHandle(h)
<1>1. f = FirstIn(at)
  BY DEF FindHandle, FirstIn
<1>2. DOMAIN keys = 1 .. Len(keys) /\ Len(keys) \in Nat
  OBVIOUS
<1>3. at \in SUBSET (Nat \ {0})
  BY <1>2
<1>4. (at = {} => f = 0) /\ (at # {} => f \in at /\ \A j \in at : f <= j)
  <2> HIDE DEF at, f
  <2>1. QED
    BY <1>1, <1>3, FirstInPositions
<1> HIDE DEF f
<1>5. ASSUME f # 0
      PROVE  /\ f \in DOMAIN keys /\ keys[f].handle = h
             /\ \A j \in DOMAIN keys : j < f => keys[j].handle # h
  <2>1. f \in at /\ \A j \in at : f <= j
    BY <1>4, <1>5
  <2>2. f \in DOMAIN keys /\ keys[f].handle = h
    BY <2>1
  <2>3. ASSUME NEW j \in DOMAIN keys, j < f, keys[j].handle = h PROVE FALSE
    <3>1. f <= j
      BY <2>1, <2>3
    <3>2. QED
      BY <1>2, <2>2, <2>3, <3>1
  <2>4. QED
    BY <2>2, <2>3
<1>6. ASSUME NEW i \in DOMAIN keys, keys[i].handle = h,
             \A j \in DOMAIN keys : j < i => keys[j].handle # h
      PROVE  f = i
  <2>1. i \in at
    BY <1>6
  <2>2. f \in at /\ f <= i
    BY <1>4, <2>1
  <2>3. f \in DOMAIN keys /\ keys[f].handle = h
    BY <2>2
  <2>4. ~(f < i)
    BY <1>6, <2>3
  <2>5. QED
    BY <1>2, <2>2, <2>3, <2>4
<1>7. QED
  BY <1>5, <1>6 DEF f

LEMMA KeysInit == TpmKeysInit => KeysInv
<1> SUFFICES ASSUME TpmKeysInit PROVE KeysInv
  OBVIOUS
<1>1. keys = << >> /\ blobs = {} /\ keys_made = 0
  BY DEF TpmKeysInit
<1>2. keys \in Seq(Key) /\ Len(keys) = 0 /\ DOMAIN keys = {}
  BY <1>1
<1>3. QED
  BY <1>1, <1>2, KeysAssumption
     DEF KeysInv, KeysInOrder, HandlesTellPlaces, BlobsFindTheirKeys

\* A key of either kind goes to the end, with a handle that counts the keys.
LEMMA AddKeyKeeps ==
  ASSUME KeysInv, NEW handle \in Nat, NEW unique, HasKeyRoom,
         [handle |-> handle, unique |-> unique, born |-> keys_made] \in Key,
         handle \in {Len(keys), 65536 + Len(keys), 131072 + Len(keys), 256 * (Len(keys) + 1)},
         AddKey(handle, unique)
  PROVE  KeysInv'
<1> DEFINE key == [handle |-> handle, unique |-> unique, born |-> keys_made]
           n == Len(keys)
<1>1. /\ keys' = Append(keys, key) /\ keys_made' = keys_made + 1
      /\ UNCHANGED <<blobs, stacked>> /\ key \in Key
  BY DEF AddKey
<1>2. key.handle = handle /\ key.born = keys_made
  OBVIOUS
<1> HIDE DEF key
<1>3. /\ n \in Nat /\ keys \in Seq(Key) /\ keys' \in Seq(Key) /\ Len(keys') = n + 1
      /\ keys'[n + 1] = key /\ \A i \in 1 .. n : keys'[i] = keys[i]
      /\ DOMAIN keys = 1 .. n /\ DOMAIN keys' = 1 .. n + 1
  BY <1>1 DEF KeysInv
<1>4. Len(keys') <= MaxLoadedKeys
  BY <1>3, KeysAssumption DEF HasKeyRoom
<1>5. keys_made' \in Nat
  BY <1>1 DEF KeysInv
<1>6. \A i \in 1 .. n : keys[i].born \in Nat /\ keys[i].born < keys_made
  <2>1. \A i \in 1 .. n : keys[i] \in Key
    BY <1>3
  <2>2. \A i \in 1 .. n : keys[i].born < keys_made
    BY <1>3 DEF KeysInv, KeysInOrder
  <2>3. \A i \in 1 .. n : keys[i].born \in Nat
    BY <2>1 DEF Key
  <2>4. QED
    BY <2>2, <2>3
<1>7. KeysInOrder'
  <2>1. \A i \in 1 .. n + 1 : keys'[i].born < keys_made'
    BY <1>1, <1>2, <1>3, <1>6 DEF KeysInv
  <2>2. ASSUME NEW i \in 1 .. n + 1, NEW j \in 1 .. n + 1, i < j
        PROVE  keys'[i].born < keys'[j].born
    <3>1. CASE j = n + 1
      BY <1>2, <1>3, <1>6, <2>2, <3>1
    <3>2. CASE j # n + 1
      <4>1. i \in 1 .. n /\ j \in 1 .. n
        BY <1>3, <2>2, <3>2
      <4>2. QED
        BY <1>3, <2>2, <4>1 DEF KeysInv, KeysInOrder
    <3>3. QED
      BY <3>1, <3>2
  <2>3. QED
    BY <1>3, <2>1, <2>2 DEF KeysInOrder
<1>8. HandlesTellPlaces'
  <2> SUFFICES ASSUME stacked', NEW i \in 1 .. n + 1
               PROVE  keys'[i].handle \in
                        {i - 1, 65536 + (i - 1), 131072 + (i - 1), 256 * i}
    BY <1>3 DEF HandlesTellPlaces
  <2>1. CASE i = n + 1
    BY <1>2, <1>3, <2>1
  <2>2. CASE i # n + 1
    <3>1. i \in 1 .. n /\ stacked
      BY <1>1, <1>3, <2>2
    <3>2. HandlesTellPlaces /\ i \in DOMAIN keys
      BY <1>3, <3>1 DEF KeysInv
    <3>3. keys[i].handle \in {i - 1, 65536 + (i - 1), 131072 + (i - 1), 256 * i}
      BY <3>1, <3>2 DEF HandlesTellPlaces
    <3>4. keys'[i] = keys[i]
      BY <1>3, <3>1
    <3>5. QED
      BY <3>3, <3>4
  <2>3. QED
    BY <2>1, <2>2
<1>9. BlobsFindTheirKeys'
  <2> SUFFICES ASSUME NEW b \in blobs
               PROVE  /\ b.of \in Nat /\ b.of < keys_made'
                      /\ \A i \in 1 .. n + 1 : keys'[i].born = b.of => SealedUnder(b, i)'
    BY <1>1, <1>3 DEF BlobsFindTheirKeys
  <2>1. b.of \in Nat /\ b.of < keys_made
    BY DEF KeysInv, BlobsFindTheirKeys
  <2>2. ASSUME NEW i \in 1 .. n + 1, keys'[i].born = b.of PROVE SealedUnder(b, i)'
    <3>1. i # n + 1
      <4>1. keys'[n + 1].born = keys_made
        BY <1>2, <1>3
      <4>2. b.of # keys_made
        BY <2>1 DEF KeysInv
      <4>3. QED
        BY <2>2, <4>1, <4>2
    <3>2. i \in 1 .. n
      BY <1>3, <3>1
    <3>3. SealedUnder(b, i)
      BY <1>3, <2>2, <3>2 DEF KeysInv, BlobsFindTheirKeys
    <3>4. \A j \in 1 .. n + 1 : j < i => j \in 1 .. n
      BY <1>3, <3>2
    <3>5. QED
      BY <1>3, <3>2, <3>3, <3>4 DEF SealedUnder
  <2>3. QED
    BY <1>1, <2>1, <2>2 DEF KeysInv
<1>10. QED
  BY <1>3, <1>4, <1>5, <1>7, <1>8, <1>9 DEF KeysInv

\* The keys that stay keep their handles, their order and their blobs.
LEMMA FlushKeyKeeps ==
  ASSUME KeysInv, NEW h, FlushKey(h) PROVE KeysInv'
<1> DEFINE k == FindHandle(h)
           n == Len(keys)
           Was(j) == IF j < k THEN j ELSE j + 1
<1>1. /\ k # 0
      /\ keys' = [j \in 1 .. n - 1 |-> IF j < k THEN keys[j] ELSE keys[j + 1]]
      /\ stacked' => stacked /\ k = n
      /\ UNCHANGED <<blobs, keys_made>>
  BY DEF FlushKey
<1>2. n \in Nat /\ keys \in Seq(Key) /\ DOMAIN keys = 1 .. n
  BY DEF KeysInv
<1>3. k \in 1 .. n
  BY <1>1, <1>2, FindHandleFirst
<1> HIDE DEF k, n
<1>4. /\ keys' \in Seq(Key) /\ Len(keys') = n - 1
      /\ \A j \in 1 .. n - 1 : j < k => keys'[j] = keys[j]
      /\ \A j \in 1 .. n - 1 : ~(j < k) => keys'[j] = keys[j + 1]
  <2>1. /\ keys' = [j \in 1 .. Len(keys) - 1 |-> IF j < k THEN keys[j] ELSE keys[j + 1]]
        /\ k \in 1 .. Len(keys)
    BY <1>1, <1>3 DEF n
  <2>2. keys' \in Seq(Key) /\ Len(keys') = Len(keys) - 1
    BY <1>2, <2>1, SeqWithout
  <2>3. QED
    BY <1>1, <1>2, <2>2 DEF n
<1>5. DOMAIN keys' = 1 .. n - 1
  BY <1>4
<1>6. \A j \in 1 .. n - 1 : Was(j) \in 1 .. n /\ keys'[j] = keys[Was(j)]
  BY <1>2, <1>3, <1>4
<1>7. \A i, j \in 1 .. n - 1 : i < j => Was(i) < Was(j)
  BY <1>2, <1>3
<1>8. stacked' => \A j \in 1 .. n - 1 : Was(j) = j
  BY <1>1, <1>2, <1>3
<1> HIDE DEF Was
<1>9. Len(keys') <= MaxLoadedKeys
  BY <1>2, <1>4, KeysAssumption DEF KeysInv, n
<1>10. KeysInOrder'
  <2>1. \A j \in 1 .. n - 1 : keys'[j].born < keys_made
    BY <1>2, <1>6 DEF KeysInv, KeysInOrder
  <2>2. ASSUME NEW i \in 1 .. n - 1, NEW j \in 1 .. n - 1, i < j
        PROVE  keys'[i].born < keys'[j].born
    <3>1. /\ Was(i) \in DOMAIN keys /\ Was(j) \in DOMAIN keys /\ Was(i) < Was(j)
          /\ keys'[i] = keys[Was(i)] /\ keys'[j] = keys[Was(j)]
      BY <1>2, <1>6, <1>7, <2>2
    <3>2. keys[Was(i)].born < keys[Was(j)].born
      BY <3>1 DEF KeysInv, KeysInOrder
    <3>3. QED
      BY <3>1, <3>2
  <2>3. QED
    BY <1>1, <1>5, <2>1, <2>2 DEF KeysInOrder
<1>11. HandlesTellPlaces'
  BY <1>1, <1>2, <1>5, <1>6, <1>8 DEF KeysInv, HandlesTellPlaces
<1>12. BlobsFindTheirKeys'
  <2> SUFFICES ASSUME NEW b \in blobs, NEW i \in 1 .. n - 1, keys'[i].born = b.of
               PROVE  SealedUnder(b, i)'
    BY <1>1, <1>5 DEF KeysInv, BlobsFindTheirKeys
  <2>1. SealedUnder(b, Was(i))
    BY <1>2, <1>6 DEF KeysInv, BlobsFindTheirKeys
  <2>2. ASSUME NEW j \in 1 .. n - 1, j < i PROVE keys'[j].handle # b.under
    <3>1. Was(j) \in 1 .. n /\ Was(j) < Was(i) /\ keys'[j] = keys[Was(j)]
      BY <1>6, <1>7, <2>2
    <3>2. QED
      BY <1>2, <2>1, <3>1 DEF SealedUnder
  <2>3. keys'[i] = keys[Was(i)]
    BY <1>6
  <2>4. QED
    BY <1>5, <2>1, <2>2, <2>3 DEF SealedUnder
<1>13. QED
  BY <1>1, <1>4, <1>9, <1>10, <1>11, <1>12 DEF KeysInv

LEMMA SealKeeps ==
  ASSUME KeysInv, NEW h, NEW pcrstate, NEW data, Seal(h, pcrstate, data) PROVE KeysInv'
<1> DEFINE k == FindHandle(h)
           new == [composite |-> pcrstate, data |-> data,
                   wrapping |-> <<keys[k].unique, pcrstate>>,
                   under |-> h, of |-> keys[k].born]
<1>1. /\ k # 0 /\ blobs' = blobs \cup {new}
      /\ UNCHANGED <<keys, keys_made, stacked>>
  BY DEF Seal
<1>2. /\ k \in DOMAIN keys /\ keys[k].handle = h
      /\ \A j \in DOMAIN keys : j < k => keys[j].handle # h
  BY <1>1, FindHandleFirst DEF KeysInv
<1>3. keys[k].born \in Nat /\ keys[k].born < keys_made
  <2>1. keys[k] \in Key
    BY <1>2 DEF KeysInv
  <2>2. QED
    BY <1>2, <2>1 DEF Key, KeysInv, KeysInOrder
<1>4. /\ new.under = h /\ new.of = keys[k].born
      /\ new.wrapping = <<keys[k].unique, new.composite>>
  OBVIOUS
<1> HIDE DEF new, k
<1>5. \A i \in DOMAIN keys : keys[i].born = new.of => i = k
  <2>1. ASSUME NEW i \in DOMAIN keys, i # k PROVE keys[i].born # keys[k].born
    <3>1. i < k \/ k < i
      BY <1>2, <2>1 DEF KeysInv
    <3>2. keys[i].born < keys[k].born \/ keys[k].born < keys[i].born
      BY <1>2, <3>1 DEF KeysInv, KeysInOrder
    <3>3. keys[i] \in Key /\ keys[k] \in Key
      BY <1>2 DEF KeysInv
    <3>4. keys[i].born \in Nat /\ keys[k].born \in Nat
      BY <3>3 DEF Key
    <3>5. QED
      BY <3>2, <3>4
  <2>2. QED
    BY <1>4, <2>1
<1>6. SealedUnder(new, k)
  BY <1>2, <1>4 DEF SealedUnder
<1>7. \A b \in blobs' :
        /\ b.of \in Nat /\ b.of < keys_made
        /\ \A i \in DOMAIN keys : keys[i].born = b.of => SealedUnder(b, i)
  BY <1>1, <1>3, <1>4, <1>5, <1>6 DEF KeysInv, BlobsFindTheirKeys
<1>8. BlobsFindTheirKeys'
  BY <1>1, <1>7 DEF BlobsFindTheirKeys, SealedUnder
<1>9. QED
  BY <1>1, <1>8 DEF KeysInv, KeysInOrder, HandlesTellPlaces

LEMMA KeysStep == KeysInv /\ [TpmKeysNext]_tkvars => KeysInv'
<1> SUFFICES ASSUME KeysInv, [TpmKeysNext]_tkvars PROVE KeysInv'
  OBVIOUS
<1>1. ASSUME UNCHANGED <<keys, blobs, keys_made, stacked>> PROVE KeysInv'
  BY <1>1 DEF KeysInv, KeysInOrder, HandlesTellPlaces, BlobsFindTheirKeys, SealedUnder
<1>2. CASE GeneratePrimarySeeds
  BY <1>1, <1>2 DEF GeneratePrimarySeeds
<1>3. Len(keys) \in Nat /\ keys_made \in Nat
  BY DEF KeysInv
<1>4. ASSUME NEW hierarchy \in Hierarchies, NEW t \in KeyTemplates,
             CreatePrimary(hierarchy, t)
      PROVE  KeysInv'
  <2> DEFINE handle == HierarchyBase[hierarchy] + Len(keys)
             unique == <<hierarchy, t>>
  <2>1. HasKeyRoom /\ AddKey(handle, unique)
    BY <1>4 DEF CreatePrimary
  <2>2. HierarchyBase[hierarchy] \in {0, 65536, 131072}
    BY DEF HierarchyBase, Hierarchies
  <2>3. /\ handle \in Nat
        /\ handle \in {Len(keys), 65536 + Len(keys), 131072 + Len(keys),
                       256 * (Len(keys) + 1)}
    BY <1>3, <2>2
  <2>4. unique \in Hierarchies \X KeyTemplates
    OBVIOUS
  <2> HIDE DEF handle, unique
  <2>5. [handle |-> handle, unique |-> unique, born |-> keys_made] \in Key
    BY <1>3, <2>3, <2>4 DEF Key
  <2>6. QED
    BY <2>1, <2>3, <2>5, AddKeyKeeps
<1>5. ASSUME NEW u \in Uniques, LoadKey(u) PROVE KeysInv'
  <2> DEFINE handle == (Len(keys) + 1) * 256
             unique == <<u>>
  <2>1. HasKeyRoom /\ AddKey(handle, unique)
    BY <1>5 DEF LoadKey
  <2>2. /\ handle \in Nat
        /\ handle \in {Len(keys), 65536 + Len(keys), 131072 + Len(keys),
                       256 * (Len(keys) + 1)}
    BY <1>3
  <2>3. unique \in {<<v>> : v \in Uniques}
    OBVIOUS
  <2> HIDE DEF handle, unique
  <2>4. [handle |-> handle, unique |-> unique, born |-> keys_made] \in Key
    BY <1>3, <2>2, <2>3 DEF Key
  <2>5. QED
    BY <2>1, <2>2, <2>4, AddKeyKeeps
<1>6. ASSUME NEW i \in DOMAIN keys, FlushKey(keys[i].handle) PROVE KeysInv'
  BY <1>6, FlushKeyKeeps
<1>7. ASSUME NEW i \in DOMAIN keys, NEW pcrstate \in PCRStates, NEW d \in SealedData,
             Seal(keys[i].handle, pcrstate, d)
      PROVE  KeysInv'
  BY <1>7, SealKeeps
<1>8. CASE UNCHANGED tkvars
  BY <1>1, <1>8 DEF tkvars
<1>9. QED
  BY <1>2, <1>4, <1>5, <1>6, <1>7, <1>8 DEF TpmKeysNext

\* Sealed data is read back as long as its key is loaded, whatever is loaded
\* and flushed around it; and while keys are flushed in the reverse order of
\* their creation, a handle names one key.
THEOREM KeysRemainUsable == TpmKeysSpec => []KeysStayUsable
<1>1. KeysInv => SealedStaysReadable
  <2> SUFFICES ASSUME KeysInv, NEW b \in blobs, NEW i \in DOMAIN keys,
                      keys[i].born = b.of
               PROVE  Unseal(b.under, b, b.composite) = b.data
    BY DEF SealedStaysReadable
  <2>1. SealedUnder(b, i)
    BY DEF KeysInv, BlobsFindTheirKeys
  <2>2. FindHandle(b.under) = i
    BY <2>1, FindHandleFirst DEF KeysInv, SealedUnder
  <2>3. i # 0
    BY DEF KeysInv
  <2>4. QED
    BY <2>1, <2>2, <2>3 DEF Unseal, SealedUnder
<1>2. KeysInv => StackedHandlesAreUnique
  <2> SUFFICES ASSUME KeysInv, stacked, NEW i \in DOMAIN keys, NEW j \in DOMAIN keys,
                      keys[i].handle = keys[j].handle
               PROVE  i = j
    BY DEF StackedHandlesAreUnique
  <2> DEFINE Placed(h, k) == \/ h = k - 1 \/ h = 65536 + (k - 1)
                            \/ h = 131072 + (k - 1) \/ h = 256 * k
  <2>1. \A k, l \in 1 .. 255 : \A h \in Int : Placed(h, k) /\ Placed(h, l) => k = l
    OBVIOUS
  <2>2. Len(keys) \in Nat /\ Len(keys) <= 255 /\ DOMAIN keys = 1 .. Len(keys)
    BY KeysAssumption DEF KeysInv
  <2>3. i \in 1 .. 255 /\ j \in 1 .. 255
    <3>1. \A n \in Nat : n <= 255 => 1 .. n \subseteq 1 .. 255
      OBVIOUS
    <3>2. 1 .. Len(keys) \subseteq 1 .. 255
      BY <2>2, <3>1
    <3>3. i \in 1 .. Len(keys) /\ j \in 1 .. Len(keys)
      BY <2>2
    <3>4. QED
      BY <3>2, <3>3
  <2>4. Placed(keys[i].handle, i) /\ Placed(keys[j].handle, j)
    BY DEF KeysInv, HandlesTellPlaces
  <2>5. keys[i].handle \in Int
    BY <2>3, <2>4
  <2> HIDE DEF Placed
  <2>6. QED
    BY <2>1, <2>3, <2>4, <2>5
<1>3. KeysInv => KeysStayUsable
  BY <1>1, <1>2 DEF KeysStayUsable
<1>4. QED
  BY <1>3, KeysInit, KeysStep, PTL DEF TpmKeysSpec

-----------------------------------------------------------------------------
(* The measured boot: prefixes and suffixes.                               *)

LEMMA ReverseIndex ==
  ASSUME NEW D, NEW s \in Seq(D)
  PROVE  /\ Reverse(s) \in Seq(D) /\ Len(Reverse(s)) = Len(s)
         /\ \A i \in 1 .. Len(s) : Reverse(s)[i] = s[(Len(s) - i) + 1]
<1>1. Len(s) \in Nat
  OBVIOUS
<1>2. \A i \in 1 .. Len(s) : (Len(s) - i) + 1 \in 1 .. Len(s)
  OBVIOUS
<1>3. \A i \in 1 .. Len(s) : s[i] \in D
  OBVIOUS
<1>4. Reverse(s) \in [1 .. Len(s) -> D]
  BY <1>2, <1>3 DEF Reverse
<1>5. Reverse(s) \in Seq(D) /\ Len(Reverse(s)) = Len(s)
  BY <1>1, <1>4, SeqOfFunction
<1>6. QED
  BY <1>5 DEF Reverse

LEMMA SuffixByIndex ==
  ASSUME NEW D, NEW s \in Seq(D), NEW t \in Seq(D)
  PROVE  IsSuffix(s, t) <=>
           /\ Len(s) <= Len(t)
           /\ \A i \in 1 .. Len(s) : s[i] = t[(Len(t) - Len(s)) + i]
<1> DEFINE r == Reverse(s)
           q == Reverse(t)
<1>1. /\ r \in Seq(D) /\ Len(r) = Len(s) /\ Len(s) \in Nat
      /\ q \in Seq(D) /\ Len(q) = Len(t) /\ Len(t) \in Nat
      /\ \A i \in 1 .. Len(s) : r[i] = s[(Len(s) - i) + 1]
      /\ \A i \in 1 .. Len(t) : q[i] = t[(Len(t) - i) + 1]
  BY ReverseIndex
<1>2. IsSuffix(s, t) <=> Len(s) <= Len(t) /\ \A i \in 1 .. Len(s) : r[i] = q[i]
  <2>1. IsSuffix(s, t) <=> IsPrefix(r, q)
    BY DEF IsSuffix
  <2> HIDE DEF r, q
  <2>2. QED
    BY <1>1, <2>1, PrefixByIndex
<1> HIDE DEF r, q
<1>3. SUFFICES ASSUME Len(s) <= Len(t)
               PROVE  (\A i \in 1 .. Len(s) : r[i] = q[i])
                        <=> \A i \in 1 .. Len(s) : s[i] = t[(Len(t) - Len(s)) + i]
  BY <1>2
<1>4. ASSUME \A i \in 1 .. Len(s) : r[i] = q[i], NEW i \in 1 .. Len(s)
      PROVE  s[i] = t[(Len(t) - Len(s)) + i]
  <2> DEFINE j == (Len(s) - i) + 1
  <2>1. /\ j \in 1 .. Len(s) /\ j \in 1 .. Len(t) /\ (Len(s) - j) + 1 = i
        /\ (Len(t) - j) + 1 = (Len(t) - Len(s)) + i
    BY <1>1, <1>3
  <2> HIDE DEF j
  <2>2. r[j] = s[i] /\ q[j] = t[(Len(t) - Len(s)) + i]
    BY <1>1, <2>1
  <2>3. QED
    BY <1>4, <2>1, <2>2
<1>5. ASSUME \A i \in 1 .. Len(s) : s[i] = t[(Len(t) - Len(s)) + i], NEW i \in 1 .. Len(s)
      PROVE  r[i] = q[i]
  <2> DEFINE j == (Len(s) - i) + 1
  <2>1. /\ j \in 1 .. Len(s) /\ i \in 1 .. Len(t)
        /\ (Len(t) - i) + 1 = (Len(t) - Len(s)) + j
    BY <1>1, <1>3
  <2>2. r[i] = s[j]
    BY <1>1
  <2> HIDE DEF j
  <2>3. q[i] = t[(Len(t) - Len(s)) + j]
    BY <1>1, <2>1
  <2>4. QED
    BY <1>5, <2>1, <2>2, <2>3
<1>6. QED
  BY <1>4, <1>5

\* What two sequences both gain at the end keeps one the suffix of the other.
LEMMA SuffixAppend ==
  ASSUME NEW D, NEW s \in Seq(D), NEW t \in Seq(D), NEW d \in D, IsSuffix(s, t)
  PROVE  IsSuffix(Append(s, d), Append(t, d))
<1> DEFINE s2 == Append(s, d)
           t2 == Append(t, d)
<1>1. /\ s2 \in Seq(D) /\ Len(s2) = Len(s) + 1 /\ s2[Len(s) + 1] = d
      /\ t2 \in Seq(D) /\ Len(t2) = Len(t) + 1 /\ t2[Len(t) + 1] = d
      /\ \A i \in 1 .. Len(s) : s2[i] = s[i]
      /\ \A i \in 1 .. Len(t) : t2[i] = t[i]
  OBVIOUS
<1>2. /\ Len(s) <= Len(t) /\ Len(s) \in Nat /\ Len(t) \in Nat
      /\ \A i \in 1 .. Len(s) : s[i] = t[(Len(t) - Len(s)) + i]
  BY SuffixByIndex
<1> HIDE DEF s2, t2
<1>3. ASSUME NEW i \in 1 .. Len(s2) PROVE s2[i] = t2[(Len(t2) - Len(s2)) + i]
  <2>1. CASE i = Len(s) + 1
    <3>1. (Len(t2) - Len(s2)) + i = Len(t) + 1
      BY <1>1, <1>2, <2>1
    <3>2. QED
      BY <1>1, <2>1, <3>1
  <2>2. CASE i # Len(s) + 1
    <3>1. /\ i \in 1 .. Len(s) /\ (Len(t) - Len(s)) + i \in 1 .. Len(t)
          /\ (Len(t2) - Len(s2)) + i = (Len(t) - Len(s)) + i
      BY <1>1, <1>2, <2>2
    <3>2. QED
      BY <1>1, <1>2, <3>1
  <2>3. QED
    BY <2>1, <2>2
<1>4. Len(s2) <= Len(t2)
  BY <1>1, <1>2
<1>5. IsSuffix(s2, t2)
  BY <1>1, <1>3, <1>4, SuffixByIndex
<1>6. QED
  BY <1>5 DEF s2, t2

LEMMA EmptySuffix ==
  ASSUME NEW D, NEW t \in Seq(D) PROVE IsSuffix(<< >>, t)
<1>1. << >> \in Seq(D) /\ Len(<< >>) = 0 /\ Len(t) \in Nat
  OBVIOUS
<1>2. Len(<< >>) <= Len(t)
  BY <1>1
<1>3. \A i \in 1 .. Len(<< >>) : << >>[i] = t[(Len(t) - Len(<< >>)) + i]
  BY <1>1
<1>4. QED
  BY <1>1, <1>2, <1>3, SuffixByIndex

-----------------------------------------------------------------------------
(* The measured boot: its log.                                             *)

SrtmDigests == Measured \cup {"version", "contents", "launch"}
SrtmTypes == EventTypes \cup {"S_CRTM_VERSION", "S_CRTM_CONTENTS",
                              "EFI_VARIABLE_BOOT", "NONHOST_CODE", "ACTION"}
SrtmEvent == [pcr : SrtmPcrs, type : SrtmTypes, digest : SrtmDigests]

SrtmInv ==
  /\ current_pcrs \in [SrtmPcrs -> Seq(SrtmDigests)]
  /\ events \in Seq(SrtmEvent)
  /\ Len(events) <= MaxLogEvents
  /\ SrtmLogExplains

\* What SrtmLogExplains says of one PCR and a log.
Explained(p, log, value) ==
  IF p \in LateLaunchPcrs
  THEN Len(log) < MaxLogEvents => IsSuffix(value, Replay(log, p))
  ELSE /\ IsPrefix(Replay(log, p), value)
       /\ Len(log) < MaxLogEvents => Replay(log, p) = value

LEMMA SrtmEventDigest == \A e \in SrtmEvent : e.digest \in SrtmDigests
  BY DEF SrtmEvent

\* One more extend, logged if there is room, keeps every PCR explained.
LEMMA ExtendExplained ==
  ASSUME SrtmInv, NEW q \in SrtmPcrs, NEW e \in SrtmEvent, e.pcr = q,
         NEW p \in SrtmPcrs,
         current_pcrs' = [current_pcrs EXCEPT ![q] = Append(@, e.digest)],
         events' = IF Len(events) < MaxLogEvents THEN Append(events, e) ELSE events
  PROVE  Explained(p, events', current_pcrs'[p])
<1> DEFINE value == current_pcrs[p]
           past == Replay(events, p)
<1>1. /\ value \in Seq(SrtmDigests) /\ e.digest \in SrtmDigests
      /\ events \in Seq(SrtmEvent) /\ Explained(p, events, value)
  BY SrtmEventDigest DEF SrtmInv, SrtmLogExplains, Explained
<1>2. past \in Seq(SrtmDigests)
  BY <1>1, SrtmEventDigest, ReplayType
<1>3. current_pcrs'[p] = IF p = q THEN Append(value, e.digest) ELSE value
  BY DEF SrtmInv
<1>4. Replay(Append(events, e), p) = IF p = q THEN Append(past, e.digest) ELSE past
  BY <1>1, SrtmEventDigest, ReplayAppend
<1> HIDE DEF value, past
<1>5. CASE Len(events) < MaxLogEvents
  <2>1. Replay(events', p) = IF p = q THEN Append(past, e.digest) ELSE past
    BY <1>4, <1>5
  <2>2. CASE p \in LateLaunchPcrs
    <3>1. IsSuffix(value, past)
      BY <1>1, <1>5, <2>2 DEF Explained, past
    <3>2. IsSuffix(Append(value, e.digest), Append(past, e.digest))
      BY <1>1, <1>2, <3>1, SuffixAppend
    <3>3. IsSuffix(current_pcrs'[p], Replay(events', p))
      BY <1>3, <2>1, <3>1, <3>2
    <3>4. QED
      BY <2>2, <3>3 DEF Explained
  <2>3. CASE p \notin LateLaunchPcrs
    <3>1. past = value
      BY <1>1, <1>5, <2>3 DEF Explained, past
    <3>2. Replay(events', p) = current_pcrs'[p]
      BY <1>3, <2>1, <3>1
    <3>3. Append(value, e.digest) \in Seq(SrtmDigests) /\ value \in Seq(SrtmDigests)
      BY <1>1
    <3>4. current_pcrs'[p] \in Seq(SrtmDigests)
      BY <1>3, <3>3
    <3>5. IsPrefix(Replay(events', p), current_pcrs'[p])
      BY <1>1, <3>2, <3>4, PrefixAppend
    <3>6. QED
      BY <2>3, <3>2, <3>5 DEF Explained
  <2>4. QED
    BY <2>2, <2>3
<1>6. CASE ~(Len(events) < MaxLogEvents)
  <2>1. events' = events
    BY <1>6
  <2>2. CASE p \in LateLaunchPcrs
    BY <1>6, <2>1, <2>2 DEF Explained
  <2>3. CASE p \notin LateLaunchPcrs
    <3>1. IsPrefix(past, value)
      BY <1>1, <2>3 DEF Explained, past
    <3>2. IsPrefix(past, Append(value, e.digest))
      BY <1>1, <1>2, <3>1, PrefixAppend
    <3>3. IsPrefix(Replay(events', p), current_pcrs'[p])
      BY <1>3, <2>1, <3>1, <3>2 DEF past
    <3>4. QED
      BY <1>6, <2>1, <2>3, <3>3 DEF Explained
  <2>4. QED
    BY <2>2, <2>3
<1>7. QED
  BY <1>5, <1>6

LEMMA AddedEvent ==
  ASSUME events \in Seq(SrtmEvent), Len(events) <= MaxLogEvents, NEW e \in SrtmEvent,
         events' = IF Len(events) < MaxLogEvents THEN Append(events, e) ELSE events
  PROVE  events' \in Seq(SrtmEvent) /\ Len(events') <= MaxLogEvents
<1>1. MaxLogEvents \in Nat
  BY SrtmAssumption
<1>2. QED
  BY <1>1

LEMMA ExtendKeeps ==
  ASSUME SrtmInv, NEW p \in SrtmPcrs, NEW type \in SrtmTypes, NEW d \in SrtmDigests,
         current_pcrs' = [current_pcrs EXCEPT ![p] = Append(@, d)],
         AppendEvent(p, type, d)
  PROVE  SrtmInv'
<1> DEFINE e == [pcr |-> p, type |-> type, digest |-> d]
<1>1. e \in SrtmEvent /\ e.pcr = p /\ e.digest = d
  BY DEF SrtmEvent
<1>2. events' = IF Len(events) < MaxLogEvents THEN Append(events, e) ELSE events
  BY DEF AppendEvent
<1> HIDE DEF e
<1>3. current_pcrs' = [current_pcrs EXCEPT ![p] = Append(@, e.digest)]
  BY <1>1
<1>4. events' \in Seq(SrtmEvent) /\ Len(events') <= MaxLogEvents
  BY <1>1, <1>2, AddedEvent DEF SrtmInv
<1>5. current_pcrs' \in [SrtmPcrs -> Seq(SrtmDigests)]
  BY DEF SrtmInv
<1>6. \A q \in SrtmPcrs : Explained(q, events', current_pcrs'[q])
  BY <1>1, <1>2, <1>3, ExtendExplained
<1>7. QED
  BY <1>4, <1>5, <1>6 DEF SrtmInv, SrtmLogExplains, Explained

\* The launch leaves PCR 17 with what it logs, resets the other PCRs of a late
\* launch and touches no other.
LEMMA LaunchKeeps ==
  ASSUME SrtmInv, DrtmLaunch PROVE SrtmInv'
<1> DEFINE e == [pcr |-> 17, type |-> "ACTION", digest |-> "launch"]
<1>1. 17 \in SrtmPcrs
  BY SrtmAssumption
<1>2. e \in SrtmEvent /\ e.pcr = 17 /\ e.digest = "launch" /\ "launch" \in SrtmDigests
  BY <1>1 DEF SrtmEvent, SrtmTypes, SrtmDigests
<1>3. events' = IF Len(events) < MaxLogEvents THEN Append(events, e) ELSE events
  BY DEF DrtmLaunch, AppendEvent
<1> HIDE DEF e
<1>4. events' \in Seq(SrtmEvent) /\ Len(events') <= MaxLogEvents
  BY <1>2, <1>3, AddedEvent DEF SrtmInv
<1>5. \A p \in SrtmPcrs :
        current_pcrs'[p] = IF p = 17 THEN <<"launch">>
                           ELSE IF p \in LateLaunchPcrs THEN << >> ELSE current_pcrs[p]
  BY DEF DrtmLaunch
<1>6. current_pcrs' \in [SrtmPcrs -> Seq(SrtmDigests)]
  <2>1. <<"launch">> \in Seq(SrtmDigests) /\ << >> \in Seq(SrtmDigests)
    BY <1>2
  <2>2. \A p \in SrtmPcrs : current_pcrs[p] \in Seq(SrtmDigests)
    BY DEF SrtmInv
  <2>3. QED
    BY <2>1, <2>2 DEF DrtmLaunch
<1>7. ASSUME NEW p \in SrtmPcrs PROVE Explained(p, events', current_pcrs'[p])
  <2> DEFINE past == Replay(events, p)
  <2>1. past \in Seq(SrtmDigests)
    BY SrtmEventDigest, ReplayType DEF SrtmInv
  <2>2. Replay(Append(events, e), p) = IF p = 17 THEN Append(past, "launch") ELSE past
    <3>1. Replay(Append(events, e), p) = IF e.pcr = p THEN Append(past, e.digest) ELSE past
      BY <1>2, SrtmEventDigest, ReplayAppend DEF SrtmInv
    <3> HIDE DEF past
    <3>2. QED
      BY <1>2, <3>1
  <2>3. Explained(p, events, current_pcrs[p])
    BY DEF SrtmInv, SrtmLogExplains, Explained
  <2>4. CASE p \in LateLaunchPcrs
    <3> SUFFICES ASSUME Len(events') < MaxLogEvents
                 PROVE  IsSuffix(current_pcrs'[p], Replay(events', p))
      BY <2>4 DEF Explained
    <3>1. events' = Append(events, e)
      <4>1. Len(events) < MaxLogEvents
        BY <1>3
      <4>2. QED
        BY <1>3, <4>1
    <3>2. CASE p = 17
      <4>1. IsSuffix(Append(<< >>, "launch"), Append(past, "launch"))
        <5>1. IsSuffix(<< >>, past) /\ << >> \in Seq(SrtmDigests)
          BY <2>1, EmptySuffix
        <5> HIDE DEF past
        <5>2. QED
          BY <1>2, <2>1, <5>1, SuffixAppend
      <4>2. Append(<< >>, "launch") = <<"launch">>
        OBVIOUS
      <4>3. QED
        BY <1>5, <2>2, <3>1, <3>2, <4>1, <4>2
    <3>3. CASE p # 17
      <4>1. current_pcrs'[p] = << >>
        BY <1>5, <2>4, <3>3
      <4>2. QED
        BY <2>1, <2>2, <3>1, <3>3, <4>1, EmptySuffix
    <3>4. QED
      BY <3>2, <3>3
  <2>5. CASE p \notin LateLaunchPcrs
    <3>1. p # 17
      BY <2>5 DEF LateLaunchPcrs
    <3>2. current_pcrs'[p] = current_pcrs[p]
      BY <1>5, <2>5, <3>1
    <3>3. Replay(events', p) = past
      BY <1>3, <2>2, <3>1
    <3>4. Len(events') < MaxLogEvents => Len(events) < MaxLogEvents
      BY <1>3
    <3>5. QED
      BY <2>3, <2>5, <3>2, <3>3, <3>4 DEF Explained
  <2>6. QED
    BY <2>4, <2>5
<1>8. QED
  BY <1>4, <1>6, <1>7 DEF SrtmInv, SrtmLogExplains, Explained

LEMMA SrtmStart == SrtmInit => SrtmInv
<1> SUFFICES ASSUME SrtmInit PROVE SrtmInv
  OBVIOUS
<1> DEFINE version  == [pcr |-> 0, type |-> "S_CRTM_VERSION", digest |-> "version"]
           contents == [pcr |-> 0, type |-> "S_CRTM_CONTENTS", digest |-> "contents"]
<1>1. 0 \in SrtmPcrs /\ MaxLogEvents \in Nat /\ MaxLogEvents >= 2
  BY SrtmAssumption
<1>2. version \in SrtmEvent /\ contents \in SrtmEvent
  BY <1>1 DEF SrtmEvent, SrtmTypes, SrtmDigests
<1>3. events = <<version, contents>>
  BY DEF SrtmInit
<1>4. events = Append(Append(<< >>, version), contents)
  BY <1>3
<1>5. ASSUME NEW p \in SrtmPcrs
      PROVE  Replay(events, p) = current_pcrs[p]
  <2>1. << >> \in Seq(SrtmEvent) /\ Append(<< >>, version) \in Seq(SrtmEvent)
    BY <1>2
  <2>2. Replay(<< >>, p) = << >>
    BY ReplayEmpty
  <2>3. Replay(Append(<< >>, version), p) = IF p = 0 THEN Append(<< >>, "version") ELSE << >>
    <3>1. version.pcr = 0 /\ version.digest = "version"
      OBVIOUS
    <3> HIDE DEF version
    <3>2. Replay(Append(<< >>, version), p) =
            IF version.pcr = p THEN Append(Replay(<< >>, p), version.digest)
            ELSE Replay(<< >>, p)
      BY <1>2, <2>1, SrtmEventDigest, ReplayAppend
    <3>3. QED
      BY <2>2, <3>1, <3>2
  <2>4. Replay(events, p) = IF p = 0 THEN Append(Append(<< >>, "version"), "contents")
                            ELSE << >>
    <3>1. contents.pcr = 0 /\ contents.digest = "contents"
      OBVIOUS
    <3> DEFINE log == Append(<< >>, version)
    <3> HIDE DEF version, contents
    <3>2. log \in Seq(SrtmEvent)
      BY <2>1
    <3> HIDE DEF log
    <3>3. Replay(Append(log, contents), p) =
            IF contents.pcr = p THEN Append(Replay(log, p), contents.digest)
            ELSE Replay(log, p)
      BY <1>2, <3>2, SrtmEventDigest, ReplayAppend
    <3>4. events = Append(log, contents)
      BY <1>4 DEF log
    <3>5. Replay(log, p) = IF p = 0 THEN Append(<< >>, "version") ELSE << >>
      BY <2>3 DEF log
    <3>6. QED
      BY <3>1, <3>3, <3>4, <3>5
  <2>5. Append(Append(<< >>, "version"), "contents") = <<"version", "contents">>
    <3>1. "version" \in SrtmDigests /\ "contents" \in SrtmDigests
      BY DEF SrtmDigests
    <3>2. QED
      BY <3>1, AppendTwice
  <2>6. current_pcrs[p] = IF p = 0 THEN <<"version", "contents">> ELSE << >>
    BY DEF SrtmInit
  <2>7. CASE p = 0
    BY <2>4, <2>5, <2>6, <2>7
  <2>8. CASE p # 0
    BY <2>4, <2>6, <2>8
  <2>9. QED
    BY <2>7, <2>8
<1>6. events \in Seq(SrtmEvent) /\ Len(events) <= MaxLogEvents
  BY <1>1, <1>2, <1>3
<1>7. current_pcrs \in [SrtmPcrs -> Seq(SrtmDigests)]
  <2>1. <<"version", "contents">> \in Seq(SrtmDigests) /\ << >> \in Seq(SrtmDigests)
    BY DEF SrtmDigests
  <2>2. QED
    BY <2>1 DEF SrtmInit
<1>8. ASSUME NEW p \in SrtmPcrs PROVE Explained(p, events, current_pcrs[p])
  <2>1. current_pcrs[p] \in Seq(SrtmDigests) /\ "launch" \in SrtmDigests
    BY <1>7 DEF SrtmDigests
  <2>2. IsPrefix(current_pcrs[p], current_pcrs[p])
    BY <2>1, PrefixAppend
  <2>3. p \in LateLaunchPcrs => current_pcrs[p] = << >>
    BY DEF SrtmInit, LateLaunchPcrs
  <2>4. p \in LateLaunchPcrs => IsSuffix(current_pcrs[p], Replay(events, p))
    BY <1>5, <2>1, <2>3, EmptySuffix
  <2>5. QED
    BY <1>5, <2>2, <2>4 DEF Explained
<1>9. QED
  BY <1>6, <1>7, <1>8 DEF SrtmInv, SrtmLogExplains, Explained

LEMMA SrtmStep == SrtmInv /\ [SrtmNext]_slvars => SrtmInv'
<1> SUFFICES ASSUME SrtmInv, [SrtmNext]_slvars PROVE SrtmInv'
  OBVIOUS
<1>1. ASSUME NEW p \in SrtmPcrs, NEW type \in SrtmTypes, NEW d \in Measured,
             MeasureFirmware(p, type, d) \/ ExtendPcrWithEvent(p, type, d)
      PROVE  SrtmInv'
  <2>1. d \in SrtmDigests
    BY DEF SrtmDigests
  <2>2. /\ current_pcrs' = [current_pcrs EXCEPT ![p] = Append(@, d)]
        /\ AppendEvent(p, type, d)
    BY <1>1 DEF MeasureFirmware, ExtendPcrWithEvent
  <2>3. QED
    BY <2>1, <2>2, ExtendKeeps
<1>2. ASSUME NEW p \in SrtmPcrs, NEW type \in EventTypes, NEW d \in Measured,
             MeasureFirmware(p, type, d) \/ ExtendPcrWithEvent(p, type, d)
      PROVE  SrtmInv'
  <2>1. type \in SrtmTypes
    BY DEF SrtmTypes
  <2>2. QED
    BY <1>1, <1>2, <2>1
<1>3. ASSUME NEW d \in Measured, MeasureBootVariable(d) \/ DrtmMeasure(d)
      PROVE  SrtmInv'
  <2>1. /\ 1 \in SrtmPcrs /\ 18 \in SrtmPcrs
        /\ "EFI_VARIABLE_BOOT" \in SrtmTypes /\ "NONHOST_CODE" \in SrtmTypes
    BY SrtmAssumption DEF SrtmTypes
  <2>2. \/ MeasureFirmware(1, "EFI_VARIABLE_BOOT", d)
        \/ MeasureFirmware(18, "NONHOST_CODE", d)
    BY <1>3 DEF MeasureBootVariable, DrtmMeasure
  <2>3. QED
    BY <1>1, <2>1, <2>2
<1>4. CASE DetectDrtm
  BY <1>4 DEF DetectDrtm, SrtmInv, SrtmLogExplains
<1>5. CASE DrtmLaunch
  BY <1>5, LaunchKeeps
<1>6. CASE UNCHANGED slvars
  BY <1>6 DEF slvars, SrtmInv, SrtmLogExplains
<1>7. QED
  BY <1>2, <1>3, <1>4, <1>5, <1>6 DEF SrtmNext

\* Replaying the log gives the PCRs it should, with room in the log or without,
\* whatever is measured and launched.
THEOREM LogReplaysToThePcrs == SrtmSpec => []SrtmLogExplains
<1>1. SrtmInv => SrtmLogExplains
  BY DEF SrtmInv
<1>2. QED
  BY <1>1, SrtmStart, SrtmStep, PTL DEF SrtmSpec

-----------------------------------------------------------------------------
(* NV storage: the array as a dictionary.                                  *)

NVTypes == {"ORDINARY", "COUNTER", "BITFIELD", "EXTEND"}
NVAttributes == {"OWNERREAD", "OWNERWRITE", "AUTHREAD", "AUTHWRITE", "PPREAD",
                 "PPWRITE", "POLICY_DELETE", "PLATFORMCREATE", "WRITELOCKED",
                 "WRITEALL", "WRITEDEFINE", "READ_STCLEAR", "GLOBALLOCK"}
Contents == Nat \cup (SUBSET Bits) \cup Seq(NVData)
Index == [handle : NVHandles, nv_type : NVTypes, attributes : SUBSET NVAttributes,
          data : Contents, auth_value : AuthValues,
          read_locked : BOOLEAN, write_locked : BOOLEAN]

\* The data of an index are those of its type.
TypedData(idx) ==
  /\ idx.nv_type = "COUNTER" => idx.data \in Nat
  /\ idx.nv_type = "BITFIELD" => idx.data \in SUBSET Bits
  /\ idx.nv_type = "EXTEND" => idx.data \in Seq(NVData)

HandlesOf(s) == [i \in DOMAIN s |-> s[i].handle]
ViewsOf(s) == [i \in DOMAIN s |-> View(s[i])]

NVInv ==
  /\ indices \in Seq(Index)
  /\ \A i \in DOMAIN indices : TypedData(indices[i])
  /\ NoKeyTwice(HandlesOf(indices))
  /\ global_lock \in BOOLEAN

\* The spaces of the vault.
Spaces == [h \in DefinedHandles |-> View(indices[NVFind(h)])]

LEMMA NVFindPlace ==
  ASSUME NVInv, NEW h
  PROVE  /\ NVFind(h) # 0 =>
              /\ NVFind(h) \in DOMAIN indices /\ indices[NVFind(h)].handle = h
         /\ NVFind(h) = 0 => h \notin DefinedHandles
<1> DEFINE at == {i \in DOMAIN indices : indices[i].handle = h}
           f  == NVFind(h)
<1>1. f = FirstIn(at)
  BY DEF NVFind, FirstIn
<1>2. DOMAIN indices = 1 .. Len(indices) /\ Len(indices) \in Nat
  BY DEF NVInv
<1>3. at \in SUBSET (Nat \ {0})
  BY <1>2
<1>4. (at = {} => f = 0) /\ (at # {} => f \in at)
  <2> HIDE DEF at, f
  <2>1. QED
    BY <1>1, <1>3, FirstInPositions
<1>5. f # 0 => f \in at
  BY <1>4
<1>6. f = 0 => at = {}
  BY <1>3, <1>4
<1> HIDE DEF f
<1>7. at = {} => h \notin DefinedHandles
  BY DEF DefinedHandles
<1>8. QED
  BY <1>5, <1>6, <1>7 DEF f

LEMMA SpacesAreTable ==
  NVInv => Spaces = Dictionary(HandlesOf(indices), ViewsOf(indices))
<1> SUFFICES ASSUME NVInv
             PROVE  Spaces = Dictionary(HandlesOf(indices), ViewsOf(indices))
  OBVIOUS
<1> DEFINE k == HandlesOf(indices)
           v == ViewsOf(indices)
<1>1. DOMAIN k = DOMAIN indices
  BY DEF HandlesOf
<1>2. DefinedHandles = {k[i] : i \in DOMAIN k}
  BY DEF DefinedHandles, HandlesOf
<1>3. ASSUME NEW h \in DefinedHandles
      PROVE  View(indices[NVFind(h)]) = v[FirstIn({i \in DOMAIN k : k[i] = h})]
  <2>1. NVFind(h) \in DOMAIN indices
    BY NVFindPlace
  <2>2. {i \in DOMAIN k : k[i] = h} = {i \in DOMAIN indices : indices[i].handle = h}
    BY DEF HandlesOf
  <2>3. NVFind(h) = FirstIn({i \in DOMAIN indices : indices[i].handle = h})
    BY DEF NVFind, FirstIn
  <2>4. v[NVFind(h)] = View(indices[NVFind(h)])
    BY <2>1 DEF ViewsOf
  <2>5. QED
    BY <2>2, <2>3, <2>4
<1>4. QED
  BY <1>2, <1>3 DEF Spaces, Dictionary

\* What may become of one index.
Kept(old, new) ==
  LET a == View(old)
      b == View(new)
  IN  /\ b.kind = a.kind /\ b.barrable = a.barrable
      /\ a.locked => b.locked
      /\ a.locked \/ (global_lock /\ a.barrable) => b.content = a.content
      /\ Vault!Evolves(a.kind, a.content, b.content)

LEMMA IndexRecord ==
  ASSUME NVInv, NEW i \in DOMAIN indices
  PROVE  indices[i] \in Index /\ TypedData(indices[i]) /\ i \in 1 .. Len(indices)
  BY DEF NVInv

\* An index that is changed as its kind allows leaves the others as they are.
LEMMA ChangeKeeps ==
  ASSUME NVInv, NEW h \in NVHandles, NVFind(h) # 0, NEW e \in Index, TypedData(e),
         indices' = [indices EXCEPT ![NVFind(h)] = e],
         e.handle = indices[NVFind(h)].handle, Kept(indices[NVFind(h)], e),
         UNCHANGED global_lock
  PROVE  NVInv' /\ Vault!Change(h)
<1> DEFINE i == NVFind(h)
           n == Len(indices)
           k == HandlesOf(indices)
           v == ViewsOf(indices)
           w == ViewsOf(indices')
<1>1. i \in 1 .. n /\ n \in Nat /\ DOMAIN indices = 1 .. n /\ indices[i].handle = h
  BY NVFindPlace DEF NVInv
<1>2. /\ indices' \in Seq(Index) /\ DOMAIN indices' = 1 .. n /\ indices'[i] = e
      /\ \A j \in 1 .. n \ {i} : indices'[j] = indices[j]
  BY <1>1 DEF NVInv
<1> HIDE DEF i
<1>3. HandlesOf(indices') = k
  BY <1>1, <1>2 DEF HandlesOf, i
<1>4. NVInv'
  <2>1. \A j \in DOMAIN indices' : TypedData(indices'[j])
    BY <1>1, <1>2 DEF NVInv
  <2>2. QED
    BY <1>2, <1>3, <2>1 DEF NVInv
<1>5. /\ DOMAIN k = 1 .. n /\ k[i] = h /\ NoKeyTwice(k)
      /\ v[i] = View(indices[i]) /\ w[i] = View(e)
      /\ \A j \in 1 .. n \ {i} : w[j] = v[j]
  BY <1>1, <1>2 DEF HandlesOf, ViewsOf, NVInv
<1>6. Spaces = Dictionary(k, v)
  BY SpacesAreTable
<1>7. Spaces' = Dictionary(k, w)
  <2>1. (NVInv => Spaces = Dictionary(HandlesOf(indices), ViewsOf(indices)))'
    BY SpacesAreTable, PTL
  <2>2. QED
    BY <1>3, <1>4, <2>1
<1> HIDE DEF n, k, v, w
<1>8. /\ DOMAIN Spaces' = DOMAIN Spaces /\ h \in DOMAIN Spaces
      /\ \A g \in DOMAIN Spaces \ {h} : Spaces'[g] = Spaces[g]
      /\ Spaces[h] = View(indices[i]) /\ Spaces'[h] = View(e)
  BY <1>1, <1>5, <1>6, <1>7, DictionaryChange
<1>9. Vault!Change(h)
  <2>1. Kept(indices[i], e)
    BY DEF i
  <2>2. QED
    BY <1>8, <2>1 DEF Vault!Change, Vault!Frozen, Kept, Spaces
<1>10. QED
  BY <1>4, <1>9

\* An index whose users see no difference.
LEMMA UnseenKeeps ==
  ASSUME NVInv, NEW i \in DOMAIN indices, NEW e, View(e) = View(indices[i])
  PROVE  Kept(indices[i], e)
<1>1. TypedData(indices[i]) /\ indices[i] \in Index
  BY IndexRecord
<1> DEFINE a == View(indices[i])
<1>2. a.content = indices[i].data
  BY DEF View
<1>3. a.kind = "COUNTER" => a.content \in Nat
  BY <1>1 DEF View, TypedData
<1>4. a.kind = "EXTEND" => a.content \in Seq(NVData)
  BY <1>1 DEF View, TypedData
<1> HIDE DEF a
<1>5. Vault!Evolves(a.kind, a.content, a.content)
  <2>1. CASE a.kind = "COUNTER"
    BY <1>3, <2>1 DEF Vault!Evolves
  <2>2. CASE a.kind = "EXTEND"
    <3>1. SubSeq(a.content, 1, Len(a.content)) = a.content
      BY <1>4, <2>2
    <3>2. Len(a.content) \in Nat
      BY <1>4, <2>2
    <3>3. QED
      BY <2>2, <3>1, <3>2 DEF Vault!Evolves
  <2>3. CASE a.kind # "COUNTER" /\ a.kind # "EXTEND"
    BY <2>3 DEF Vault!Evolves
  <2>4. QED
    BY <2>1, <2>2, <2>3
<1>6. QED
  BY <1>5 DEF Kept, a

-----------------------------------------------------------------------------
(* NV storage: its operations.                                             *)

LEMMA DefineKeeps ==
  ASSUME NVInv, NEW h \in NVHandles, NEW t, t.nv_type \in NVTypes,
         t.attributes \in SUBSET NVAttributes, NEW value \in AuthValues,
         DefineSpace(h, t, value)
  PROVE  NVInv' /\ Vault!Define(h)
<1> DEFINE e == [handle |-> h, nv_type |-> t.nv_type, attributes |-> t.attributes,
                 data |-> Blank(t.nv_type), auth_value |-> value,
                 read_locked |-> FALSE, write_locked |-> FALSE]
           n == Len(indices)
           m == n + 1
           k == HandlesOf(indices)
           l == HandlesOf(indices')
           v == ViewsOf(indices)
           w == ViewsOf(indices')
<1>1. e \in Index /\ TypedData(e) /\ e.handle = h
  <2>1. Blank(t.nv_type) \in Contents
    <3>1. CASE t.nv_type = "COUNTER"
      BY <3>1 DEF Blank, Contents
    <3>2. CASE t.nv_type = "BITFIELD"
      BY <3>2 DEF Blank, Contents
    <3>3. CASE t.nv_type \in {"ORDINARY", "EXTEND"}
      <4>1. Blank(t.nv_type) = << >>
        BY <3>3 DEF Blank
      <4>2. << >> \in Contents
        BY DEF Contents
      <4>3. QED
        BY <4>1, <4>2
    <3>4. QED
      BY <3>1, <3>2, <3>3 DEF NVTypes
  <2>2. TypedData(e)
    BY DEF Blank, NVTypes, TypedData
  <2>3. QED
    BY <2>1, <2>2 DEF Index
<1>2. /\ indices' = Append(indices, e) /\ NVFind(h) = 0 /\ global_lock' = global_lock
      /\ indices \in Seq(Index)
  BY DEF DefineSpace, NVInv
<1> HIDE DEF e
<1>3. /\ indices' \in Seq(Index) /\ n \in Nat /\ m \in Nat /\ m = n + 1 /\ DOMAIN indices = 1 .. n
      /\ DOMAIN indices' = 1 .. m
      /\ indices'[m] = e /\ \A j \in 1 .. n : indices'[j] = indices[j]
  BY <1>1, <1>2
<1>4. \A j \in 1 .. m : j \in 1 .. n \/ j = m
  BY <1>3
<1>5. h \notin DefinedHandles
  BY <1>2, NVFindPlace
<1>6. /\ DOMAIN k = 1 .. n /\ NoKeyTwice(k) /\ DOMAIN l = 1 .. m
      /\ l[m] = h
  BY <1>1, <1>3 DEF HandlesOf, NVInv
<1>7. /\ \A j \in 1 .. n : l[j] = k[j] /\ w[j] = v[j]
      /\ \A j \in 1 .. n : k[j] # l[m]
  <2>1. \A j \in 1 .. n : k[j] \in DefinedHandles
    BY <1>3 DEF HandlesOf, DefinedHandles
  <2>2. \A j \in 1 .. n : j \in 1 .. m
    BY <1>3
  <2>3. QED
    BY <1>3, <1>5, <1>6, <2>1, <2>2 DEF HandlesOf, ViewsOf
<1>8. OneMore(k, v, l, w, n, m)
  <2> HIDE DEF k, l, v, w, n, m
  <2>1. QED
    BY <1>3, <1>6, <1>7 DEF OneMore
<1>9. NVInv'
  <2>1. \A j \in DOMAIN indices' : TypedData(indices'[j])
    BY <1>1, <1>3, <1>4 DEF NVInv
  <2>2. NoKeyTwice(l)
    BY <1>8, DictionaryAdd
  <2>3. QED
    BY <1>2, <1>3, <2>1, <2>2 DEF NVInv
<1>10. Spaces' = Dictionary(l, w)
  <2>1. (NVInv => Spaces = Dictionary(HandlesOf(indices), ViewsOf(indices)))'
    BY SpacesAreTable, PTL
  <2>2. QED
    BY <1>9, <2>1
<1>11. Spaces = Dictionary(k, v)
  BY SpacesAreTable
<1> HIDE DEF n, m, k, l, v, w
<1>12. /\ h \notin DOMAIN Spaces /\ DOMAIN Spaces' = DOMAIN Spaces \cup {h}
       /\ \A g \in DOMAIN Spaces : Spaces'[g] = Spaces[g]
  <2>1. l[m] = h
    BY <1>6
  <2>2. h \notin DOMAIN Dictionary(k, v)
    BY <1>8, <2>1, DictionaryAdd
  <2>3. \A g : g \in DOMAIN Dictionary(l, w) <=> g \in DOMAIN Dictionary(k, v) \/ g = h
    BY <1>8, <2>1, DictionaryAdd
  <2>4. \A g \in DOMAIN Dictionary(k, v) : Dictionary(l, w)[g] = Dictionary(k, v)[g]
    BY <1>8, DictionaryAdd
  <2>5. DOMAIN Dictionary(l, w) = DOMAIN Dictionary(k, v) \cup {h}
    BY <2>3
  <2>6. QED
    BY <1>10, <1>11, <2>2, <2>4, <2>5
<1>13. Vault!Define(h)
  BY <1>2, <1>12 DEF Vault!Define, Spaces
<1>14. QED
  BY <1>9, <1>13

LEMMA UndefineKeeps ==
  ASSUME NVInv, NEW h \in NVHandles, NEW auth, UndefineSpace(h, auth)
  PROVE  NVInv' /\ Vault!Remove({h})
<1> DEFINE i == NVFind(h)
           n == Len(indices)
           k == HandlesOf(indices)
           l == HandlesOf(indices')
           v == ViewsOf(indices)
           w == ViewsOf(indices')
<1>1. i # 0 /\ global_lock' = global_lock
  BY DEF UndefineSpace
<1>2. indices' = [j \in 1 .. Len(indices) - 1 |->
                    IF j < i THEN indices[j] ELSE indices[j + 1]]
  BY DEF UndefineSpace
<1>3. /\ i \in 1 .. n /\ n \in Nat /\ DOMAIN indices = 1 .. n /\ indices[i].handle = h
      /\ indices \in Seq(Index)
  BY <1>1, NVFindPlace DEF NVInv
<1> HIDE DEF i
<1>4. /\ indices' \in Seq(Index) /\ DOMAIN indices' = 1 .. n - 1
      /\ \A j \in 1 .. n - 1 : j < i => indices'[j] = indices[j]
      /\ \A j \in 1 .. n - 1 : ~(j < i) => indices'[j] = indices[j + 1]
  <2>1. indices' \in Seq(Index) /\ Len(indices') = n - 1
    BY <1>2, <1>3, SeqWithout
  <2>2. QED
    BY <1>2, <1>3, <2>1
<1>5. \A j \in 1 .. n - 1 : j \in 1 .. n /\ j + 1 \in 1 .. n
  BY <1>3
<1>6. /\ DOMAIN k = 1 .. n /\ NoKeyTwice(k) /\ k[i] = h /\ DOMAIN l = 1 .. n - 1
  BY <1>3, <1>4 DEF HandlesOf, NVInv
<1>7. \A j \in 1 .. n - 1 : /\ l[j] = IF j < i THEN k[j] ELSE k[j + 1]
                            /\ w[j] = IF j < i THEN v[j] ELSE v[j + 1]
  BY <1>3, <1>4, <1>5 DEF HandlesOf, ViewsOf
<1>8. Spaces = Dictionary(k, v) /\ DOMAIN Spaces = DefinedHandles /\ h \in DefinedHandles
  BY <1>3, SpacesAreTable DEF Spaces, DefinedHandles
<1>9. /\ NoKeyTwice(l)
      /\ \A g : g \in DOMAIN Dictionary(l, w) <=> g \in DOMAIN Dictionary(k, v) /\ g # h
      /\ \A g \in DOMAIN Dictionary(l, w) : Dictionary(l, w)[g] = Dictionary(k, v)[g]
  <2> HIDE DEF k, l, v, w, n
  <2>1. OneLess(k, v, l, w, n, i)
    BY <1>3, <1>6, <1>7 DEF OneLess
  <2>2. k[i] = h
    BY <1>6
  <2>3. NoKeyTwice(l)
    BY <2>1, DictionaryRemove
  <2>4. \A g : g \in DOMAIN Dictionary(l, w) <=> g \in DOMAIN Dictionary(k, v) /\ g # h
    BY <2>1, <2>2, DictionaryRemove
  <2>5. \A g \in DOMAIN Dictionary(l, w) : Dictionary(l, w)[g] = Dictionary(k, v)[g]
    BY <2>1, DictionaryRemove
  <2>6. QED
    BY <2>3, <2>4, <2>5
<1>10. NVInv'
  <2>1. \A j \in DOMAIN indices' : TypedData(indices'[j])
    BY <1>3, <1>4, <1>5 DEF NVInv
  <2>2. QED
    BY <1>1, <1>4, <1>9, <2>1 DEF NVInv
<1>11. Spaces' = Dictionary(l, w)
  <2>1. (NVInv => Spaces = Dictionary(HandlesOf(indices), ViewsOf(indices)))'
    BY SpacesAreTable, PTL
  <2>2. QED
    BY <1>10, <2>1
<1> HIDE DEF n, k, l, v, w
<1>12. Spaces' = [g \in DOMAIN Spaces \ {h} |-> Spaces[g]] /\ h \in DOMAIN Spaces
  <2>1. Spaces' = [g \in DOMAIN Spaces' |-> Spaces'[g]]
    BY DEF Spaces
  <2>2. QED
    BY <1>8, <1>9, <1>11, <2>1
<1>13. Vault!Remove({h})
  BY <1>1, <1>12 DEF Vault!Remove, Spaces
<1>14. QED
  BY <1>10, <1>13

\* Reads, read locks and changes of authorisation, which its users do not see.
LEMMA QuietKeeps ==
  ASSUME NVInv, NEW h \in NVHandles, NVFind(h) # 0,
         NEW r \in BOOLEAN, NEW a \in AuthValues,
         indices' = [indices EXCEPT ![NVFind(h)].read_locked = r,
                                    ![NVFind(h)].auth_value = a],
         UNCHANGED global_lock
  PROVE  NVInv' /\ Vault!Change(h)
<1> DEFINE i == NVFind(h)
           old == indices[i]
           e == [old EXCEPT !.read_locked = r, !.auth_value = a]
<1>1. i \in DOMAIN indices
  BY NVFindPlace
<1>2. old \in Index /\ TypedData(old)
  BY <1>1, IndexRecord
<1>3. indices' = [indices EXCEPT ![i] = e]
  BY <1>1
<1> HIDE DEF old
<1>4. e \in Index /\ e.handle = old.handle
  BY <1>2 DEF Index
<1>5. /\ e.nv_type = old.nv_type /\ e.attributes = old.attributes
      /\ e.data = old.data /\ e.write_locked = old.write_locked
  BY <1>2 DEF Index
<1> HIDE DEF e
<1>6. TypedData(e) /\ View(e) = View(old)
  BY <1>2, <1>5 DEF TypedData, View
<1>7. Kept(indices[i], e)
  BY <1>1, <1>6, UnseenKeeps DEF old
<1>8. QED
  BY <1>3, <1>4, <1>6, <1>7, ChangeKeeps DEF old

LEMMA WriteLockKeeps ==
  ASSUME NVInv, NEW h \in NVHandles, WriteLock(h)
  PROVE  NVInv' /\ Vault!Change(h)
<1> DEFINE i == NVFind(h)
           old == indices[i]
           e == [old EXCEPT !.write_locked = TRUE,
                            !.attributes = @ \cup {"WRITELOCKED"}]
<1>1. i # 0 /\ i \in DOMAIN indices /\ UNCHANGED global_lock
  BY NVFindPlace DEF WriteLock
<1>2. old \in Index /\ TypedData(old)
  BY <1>1, IndexRecord
<1>3. indices' = [indices EXCEPT ![i] = e]
  BY <1>1 DEF WriteLock
<1>4. Kept(old, old)
  BY <1>1, UnseenKeeps
<1> HIDE DEF old
<1>5. e \in Index /\ e.handle = old.handle
  BY <1>2 DEF Index, NVAttributes
<1>6. /\ e.nv_type = old.nv_type /\ e.data = old.data /\ e.write_locked = TRUE
      /\ e.attributes = old.attributes \cup {"WRITELOCKED"}
  BY <1>2 DEF Index
<1> HIDE DEF e
<1>7. TypedData(e)
  BY <1>2, <1>6 DEF TypedData
<1>8. /\ View(e).kind = View(old).kind /\ View(e).barrable = View(old).barrable
      /\ View(e).content = View(old).content /\ View(e).locked
  BY <1>6 DEF View
<1>9. Kept(old, e)
  BY <1>4, <1>8 DEF Kept
<1>10. QED
  BY <1>1, <1>3, <1>5, <1>7, <1>9, ChangeKeeps DEF old

\* New data, written, counted, extended or set.
LEMMA DataKeeps ==
  ASSUME NVInv, NEW h \in NVHandles, NVFind(h) # 0, NEW d \in Contents,
         indices' = [indices EXCEPT ![NVFind(h)].data = d], UNCHANGED global_lock,
         LET old == indices[NVFind(h)]
             a == View(old)
         IN  /\ old.nv_type = "COUNTER" => d \in Nat /\ d >= old.data
             /\ old.nv_type = "BITFIELD" => d \in SUBSET Bits /\ old.data \subseteq d
             /\ old.nv_type = "EXTEND" => \E x \in NVData : d = Append(old.data, x)
             /\ old.nv_type = "ORDINARY" /\ "WRITEDEFINE" \in old.attributes
                  => old.data = << >>
             /\ ~a.locked /\ ~(global_lock /\ a.barrable)
  PROVE  NVInv' /\ Vault!Change(h)
<1> DEFINE i == NVFind(h)
           old == indices[i]
           e == [old EXCEPT !.data = d]
<1>1. i \in DOMAIN indices
  BY NVFindPlace
<1>2. old \in Index /\ TypedData(old)
  BY <1>1, IndexRecord
<1>3. indices' = [indices EXCEPT ![i] = e]
  BY <1>1
<1>4. /\ old.nv_type = "COUNTER" => d \in Nat /\ d >= old.data
      /\ old.nv_type = "BITFIELD" => d \in SUBSET Bits /\ old.data \subseteq d
      /\ old.nv_type = "EXTEND" => \E x \in NVData : d = Append(old.data, x)
      /\ old.nv_type = "ORDINARY" /\ "WRITEDEFINE" \in old.attributes
           => old.data = << >>
      /\ ~View(old).locked /\ ~(global_lock /\ View(old).barrable)
  OBVIOUS
<1> HIDE DEF old
<1>5. e \in Index /\ e.handle = old.handle
  BY <1>2 DEF Index
<1>6. /\ e.nv_type = old.nv_type /\ e.data = d /\ e.write_locked = old.write_locked
      /\ e.attributes = old.attributes
  BY <1>2 DEF Index
<1> HIDE DEF e
<1>7. TypedData(e)
  <2>1. CASE old.nv_type = "EXTEND"
    <3>1. PICK x \in NVData : d = Append(old.data, x)
      BY <1>4, <2>1
    <3>2. old.data \in Seq(NVData)
      BY <1>2, <2>1 DEF TypedData
    <3>3. QED
      BY <1>6, <2>1, <3>1, <3>2 DEF TypedData
  <2>2. CASE old.nv_type # "EXTEND"
    BY <1>4, <1>6, <2>2 DEF TypedData
  <2>3. QED
    BY <2>1, <2>2
<1>8. /\ View(e).kind = View(old).kind /\ View(e).barrable = View(old).barrable
      /\ View(e).content = d /\ View(old).content = old.data
  BY <1>6 DEF View
<1>9. Vault!Evolves(View(old).kind, old.data, d)
  <2>1. CASE old.nv_type = "COUNTER"
    BY <1>4, <2>1 DEF View, Vault!Evolves
  <2>2. CASE old.nv_type = "BITFIELD"
    BY <1>4, <2>2 DEF View, Vault!Evolves
  <2>3. CASE old.nv_type = "EXTEND"
    <3>1. PICK x \in NVData : d = Append(old.data, x)
      BY <1>4, <2>3
    <3>2. old.data \in Seq(NVData)
      BY <1>2, <2>3 DEF TypedData
    <3>3. Len(old.data) <= Len(d) /\ SubSeq(d, 1, Len(old.data)) = old.data
      BY <3>1, <3>2
    <3>4. View(old).kind = "EXTEND"
      BY <2>3 DEF View
    <3>5. QED
      BY <3>3, <3>4 DEF Vault!Evolves
  <2>4. CASE old.nv_type = "ORDINARY"
    <3>1. CASE "WRITEDEFINE" \in old.attributes
      BY <1>4, <2>4, <3>1 DEF View, Vault!Evolves
    <3>2. CASE "WRITEDEFINE" \notin old.attributes
      BY <2>4, <3>2 DEF View, Vault!Evolves
    <3>3. QED
      BY <3>1, <3>2
  <2>5. QED
    BY <1>2, <2>1, <2>2, <2>3, <2>4 DEF Index, NVTypes
<1>10. Kept(old, e)
  BY <1>4, <1>8, <1>9 DEF Kept
<1>11. QED
  BY <1>3, <1>5, <1>7, <1>10, ChangeKeeps DEF old

LEMMA NVStart == NVInit => NVInv /\ Vault!Init
<1> SUFFICES ASSUME NVInit PROVE NVInv /\ Vault!Init
  OBVIOUS
<1>1. indices = << >> /\ global_lock = FALSE /\ DOMAIN indices = {}
  BY DEF NVInit
<1>2. indices \in Seq(Index)
  BY <1>1
<1>3. NVInv
  BY <1>1, <1>2 DEF NVInv, NoKeyTwice, HandlesOf
<1>4. DefinedHandles = {}
  BY <1>1 DEF DefinedHandles
<1>5. QED
  BY <1>1, <1>3, <1>4 DEF Vault!Init

\* What each write needs of an index that is neither locked nor barred.
LEMMA OpenIndex ==
  ASSUME NEW idx, NEW auth, NEW value, MayWrite(idx, auth, value), ~Globally(idx)
  PROVE  ~View(idx).locked /\ ~(global_lock /\ View(idx).barrable)
  BY DEF MayWrite, Globally, View

LEMMA WriteKeeps ==
  ASSUME NVInv, NEW h \in NVHandles, NEW data \in NVData, NEW whole, NEW auth, NEW value,
         NVWrite(h, data, whole, auth, value)
  PROVE  NVInv' /\ Vault!Change(h)
<1> DEFINE idx == indices[NVFind(h)]
<1>1. /\ NVFind(h) # 0 /\ idx.nv_type = "ORDINARY" /\ UNCHANGED global_lock
      /\ "WRITEDEFINE" \in idx.attributes => idx.data = << >>
      /\ indices' = [indices EXCEPT ![NVFind(h)].data = <<data>>]
  BY DEF NVWrite
<1>2. ~View(idx).locked /\ ~(global_lock /\ View(idx).barrable)
  BY OpenIndex DEF NVWrite
<1>3. <<data>> \in Contents
  <2>1. <<data>> \in Seq(NVData)
    OBVIOUS
  <2>2. QED
    BY <2>1 DEF Contents
<1>4. QED
  BY <1>1, <1>2, <1>3, DataKeeps

LEMMA IncrementKeeps ==
  ASSUME NVInv, NEW h \in NVHandles, CounterIncrement(h)
  PROVE  NVInv' /\ Vault!Change(h)
<1> DEFINE idx == indices[NVFind(h)]
<1>1. /\ NVFind(h) # 0 /\ idx.nv_type = "COUNTER" /\ ~idx.write_locked
      /\ UNCHANGED global_lock
      /\ indices' = [indices EXCEPT ![NVFind(h)].data = idx.data + 1]
  BY DEF CounterIncrement
<1>2. ~View(idx).locked /\ ~(global_lock /\ View(idx).barrable)
  BY <1>1 DEF View
<1>3. idx.data \in Nat
  BY <1>1, NVFindPlace, IndexRecord DEF TypedData
<1>4. idx.data + 1 \in Contents /\ idx.data + 1 \in Nat /\ idx.data + 1 >= idx.data
  BY <1>3 DEF Contents
<1>5. QED
  BY <1>1, <1>2, <1>4, DataKeeps

LEMMA ExtendNVKeeps ==
  ASSUME NVInv, NEW h \in NVHandles, NEW data \in NVData, NEW auth, NEW value,
         NVExtend(h, data, auth, value)
  PROVE  NVInv' /\ Vault!Change(h)
<1> DEFINE idx == indices[NVFind(h)]
<1>1. /\ NVFind(h) # 0 /\ idx.nv_type = "EXTEND" /\ UNCHANGED global_lock
      /\ indices' = [indices EXCEPT ![NVFind(h)].data = Append(idx.data, data)]
  BY DEF NVExtend
<1>2. ~View(idx).locked /\ ~(global_lock /\ View(idx).barrable)
  BY OpenIndex DEF NVExtend
<1>3. idx.data \in Seq(NVData)
  BY <1>1, NVFindPlace, IndexRecord DEF TypedData
<1>4. Append(idx.data, data) \in Contents
  BY <1>3 DEF Contents
<1>5. QED
  BY <1>1, <1>2, <1>4, DataKeeps

LEMMA SetBitsKeeps ==
  ASSUME NVInv, NEW h \in NVHandles, NEW bits \in SUBSET Bits, NEW auth, NEW value,
         SetBits(h, bits, auth, value)
  PROVE  NVInv' /\ Vault!Change(h)
<1> DEFINE idx == indices[NVFind(h)]
<1>1. /\ NVFind(h) # 0 /\ idx.nv_type = "BITFIELD" /\ UNCHANGED global_lock
      /\ indices' = [indices EXCEPT ![NVFind(h)].data = idx.data \cup bits]
  BY DEF SetBits
<1>2. ~View(idx).locked /\ ~(global_lock /\ View(idx).barrable)
  BY OpenIndex DEF SetBits
<1>3. idx.data \in SUBSET Bits
  BY <1>1, NVFindPlace, IndexRecord DEF TypedData
<1>4. /\ idx.data \cup bits \in Contents /\ idx.data \cup bits \in SUBSET Bits
      /\ idx.data \subseteq idx.data \cup bits
  BY <1>3 DEF Contents
<1>5. QED
  BY <1>1, <1>2, <1>4, DataKeeps

\* Operations that only touch the read lock or the authorisation value.
LEMMA QuietStep ==
  ASSUME NVInv, NEW h \in NVHandles,
         \/ \E auth \in NVAuths, v \in AuthValues : NVRead(h, auth, v)
         \/ ReadLock(h)
         \/ \E v, w \in AuthValues : ChangeAuth(h, v, w)
  PROVE  NVInv' /\ Vault!Change(h)
<1> DEFINE i == NVFind(h)
<1>1. i # 0 /\ UNCHANGED global_lock
  BY DEF NVRead, ReadLock, ChangeAuth
<1>2. i \in DOMAIN indices /\ indices[i] \in Index /\ indices \in Seq(Index)
  BY <1>1, NVFindPlace, IndexRecord DEF NVInv
<1>3. \E r \in BOOLEAN, a \in AuthValues :
        indices' = [indices EXCEPT ![i].read_locked = r, ![i].auth_value = a]
  <2> DEFINE b == indices[i].read_locked
             c == indices[i].auth_value
             Set(r, a) == [indices EXCEPT ![i].read_locked = r, ![i].auth_value = a]
  <2>1. b \in BOOLEAN /\ c \in AuthValues
    BY <1>2 DEF Index
  <2>2. /\ \A r : [indices EXCEPT ![i].read_locked = r] = Set(r, c)
        /\ \A a : [indices EXCEPT ![i].auth_value = a] = Set(b, a)
    <3> HIDE DEF i
    <3>1. \A r : [indices EXCEPT ![i].read_locked = r] = Set(r, c)
      BY <1>2 DEF Index
    <3>2. \A a : [indices EXCEPT ![i].auth_value = a] = Set(b, a)
      BY <1>2 DEF Index
    <3>3. QED
      BY <3>1, <3>2
  <2> HIDE DEF Set, b, c
  <2>3. ASSUME NEW auth \in NVAuths, NEW v \in AuthValues, NVRead(h, auth, v)
        PROVE  \E r \in BOOLEAN, a \in AuthValues : indices' = Set(r, a)
    <3> DEFINE r == "READ_STCLEAR" \in indices[i].attributes
    <3>1. indices' = [indices EXCEPT ![i].read_locked = r]
      BY <2>3 DEF NVRead
    <3>2. r \in BOOLEAN
      <4>1. CASE "READ_STCLEAR" \in indices[i].attributes
        BY <4>1
      <4>2. CASE "READ_STCLEAR" \notin indices[i].attributes
        BY <4>2
      <4>3. QED
        BY <4>1, <4>2
    <3> HIDE DEF r
    <3>3. indices' = Set(r, c)
      BY <2>2, <3>1
    <3>4. QED
      BY <2>1, <3>2, <3>3
  <2>4. ASSUME ReadLock(h)
        PROVE  \E r \in BOOLEAN, a \in AuthValues : indices' = Set(r, a)
    <3>1. indices' = [indices EXCEPT ![i].read_locked = TRUE]
      BY <2>4 DEF ReadLock
    <3>2. QED
      BY <2>1, <2>2, <3>1
  <2>5. ASSUME NEW v \in AuthValues, NEW w \in AuthValues, ChangeAuth(h, v, w)
        PROVE  \E r \in BOOLEAN, a \in AuthValues : indices' = Set(r, a)
    <3>1. indices' = [indices EXCEPT ![i].auth_value = w]
      BY <2>5 DEF ChangeAuth
    <3>2. QED
      BY <2>1, <2>2, <3>1
  <2>6. \E r \in BOOLEAN, a \in AuthValues : indices' = Set(r, a)
    BY <2>3, <2>4, <2>5
  <2>7. QED
    BY <2>6 DEF Set
<1>4. QED
  BY <1>1, <1>3, QuietKeeps

LEMMA NVStep == NVInv /\ [NVNext]_nvvars => NVInv' /\ [Vault!Next]_(Vault!vars)
<1> SUFFICES ASSUME NVInv, [NVNext]_nvvars
             PROVE  NVInv' /\ (Vault!Next \/ UNCHANGED <<Spaces, global_lock>>)
  BY DEF Vault!vars, Spaces
<1>1. CASE GlobalLock
  <2>1. Spaces' = Spaces
    BY <1>1 DEF GlobalLock, Spaces, DefinedHandles, NVFind
  <2>2. Vault!Bar
    BY <1>1, <2>1 DEF GlobalLock, Vault!Bar, Spaces
  <2>3. NVInv'
    BY <1>1 DEF GlobalLock, NVInv
  <2>4. QED
    BY <2>2, <2>3 DEF Vault!Next
<1>2. ASSUME NEW h \in NVHandles, NVInv' /\ Vault!Change(h)
      PROVE  NVInv' /\ Vault!Next
  BY <1>2 DEF Vault!Next
<1>3. ASSUME NEW h \in NVHandles, NEW t, t.nv_type \in NVTypes,
             t.attributes \in SUBSET NVAttributes, NEW v \in AuthValues, DefineSpace(h, t, v)
      PROVE  NVInv' /\ Vault!Next
  BY <1>3, DefineKeeps DEF Vault!Next
<1>4. ASSUME NEW h \in NVHandles, NEW t \in Templates, NEW v \in AuthValues,
             DefineSpace(h, t, v)
      PROVE  NVInv' /\ Vault!Next
  <2>1. t.nv_type \in NVTypes /\ t.attributes \in SUBSET NVAttributes
    BY NVAssumption DEF NVTypes, NVAttributes
  <2>2. QED
    BY <1>3, <1>4, <2>1
<1>5. ASSUME NEW h \in NVHandles, NEW v \in AuthValues, DefineUefiVariable(h, v)
      PROVE  NVInv' /\ Vault!Next
  <2> DEFINE t == [nv_type |-> "ORDINARY",
                   attributes |-> {"PPREAD", "AUTHWRITE", "GLOBALLOCK"}]
  <2>1. DefineSpace(h, t, v)
    BY <1>5 DEF DefineUefiVariable
  <2>2. t.nv_type \in NVTypes /\ t.attributes \in SUBSET NVAttributes
    BY DEF NVTypes, NVAttributes
  <2> HIDE DEF t
  <2>3. QED
    BY <1>3, <2>1, <2>2
<1>6. ASSUME NEW h \in NVHandles, NEW auth \in NVAuths, UndefineSpace(h, auth)
      PROVE  NVInv' /\ Vault!Next
  <2>1. NVInv' /\ Vault!Remove({h}) /\ {h} \in SUBSET NVHandles
    BY <1>6, UndefineKeeps
  <2>2. QED
    BY <2>1 DEF Vault!Next
<1>7. ASSUME NEW h \in NVHandles,
             \/ CounterIncrement(h) \/ ReadLock(h) \/ WriteLock(h)
             \/ \E v, w \in AuthValues : ChangeAuth(h, v, w)
      PROVE  NVInv' /\ Vault!Next
  BY <1>2, <1>7, IncrementKeeps, WriteLockKeeps, QuietStep
<1>8. ASSUME NEW h \in NVHandles, NEW auth \in NVAuths, NEW v \in AuthValues,
             \/ NVRead(h, auth, v)
             \/ \E d \in NVData, whole \in BOOLEAN : NVWrite(h, d, whole, auth, v)
             \/ \E d \in NVData : NVExtend(h, d, auth, v)
             \/ \E bits \in SUBSET Bits : SetBits(h, bits, auth, v)
      PROVE  NVInv' /\ Vault!Next
  BY <1>2, <1>8, QuietStep, WriteKeeps, ExtendNVKeeps, SetBitsKeeps
<1>9. CASE UNCHANGED nvvars
  <2>1. UNCHANGED <<Spaces, global_lock>>
    BY <1>9 DEF nvvars, Spaces, DefinedHandles, NVFind
  <2>2. NVInv'
    BY <1>9 DEF nvvars, NVInv
  <2>3. QED
    BY <2>1, <2>2
<1>10. QED
  BY <1>1, <1>4, <1>5, <1>6, <1>7, <1>8, <1>9 DEF NVNext

\* The array of indices with its searches, its shifts and its three kinds of
\* lock keeps the promise of NVVault.
THEOREM NVKeepsVault == NVSpec => KeepsVault
  BY NVStart, NVStep, PTL DEF NVSpec, KeepsVault, Vault!Spec

-----------------------------------------------------------------------------
(* The NV store of mini-secure-boot's TPM.                                 *)

NvAttributes == {"WRITEDEFINE", "WRITTEN", "READLOCKED"}
NvIndex == [nv_index : NvNames, nv_type : {"ORDINARY", "COUNTER"},
            nv_attributes : SUBSET NvAttributes, nv_data : Nat]

NamesOf(s) == [i \in DOMAIN s |-> s[i].nv_index]
NvViewsOf(s) == [i \in DOMAIN s |-> NvView(s[i])]

Tpm2Inv == nv \in Seq(NvIndex) /\ NoKeyTwice(NamesOf(nv))

DefinedNames == {nv[i].nv_index : i \in DOMAIN nv}
NvDictionary == [n \in DefinedNames |-> NvView(nv[NvAt(n)])]

LEMMA NvAtPlace ==
  ASSUME Tpm2Inv, NEW n
  PROVE  /\ NvAt(n) # 0 => NvAt(n) \in DOMAIN nv /\ nv[NvAt(n)].nv_index = n
         /\ NvAt(n) = 0 => n \notin DefinedNames
<1> DEFINE at == {i \in DOMAIN nv : nv[i].nv_index = n}
           f  == NvAt(n)
<1>1. f = FirstIn(at)
  BY DEF NvAt, FirstIn
<1>2. DOMAIN nv = 1 .. Len(nv) /\ Len(nv) \in Nat
  BY DEF Tpm2Inv
<1>3. at \in SUBSET (Nat \ {0})
  BY <1>2
<1>4. (at = {} => f = 0) /\ (at # {} => f \in at)
  <2> HIDE DEF at, f
  <2>1. QED
    BY <1>1, <1>3, FirstInPositions
<1>5. f # 0 => f \in at
  BY <1>4
<1>6. f = 0 => at = {}
  BY <1>3, <1>4
<1> HIDE DEF f
<1>7. at = {} => n \notin DefinedNames
  BY DEF DefinedNames
<1>8. QED
  BY <1>5, <1>6, <1>7 DEF f

LEMMA NvIsTable ==
  Tpm2Inv => NvDictionary = Dictionary(NamesOf(nv), NvViewsOf(nv))
<1> SUFFICES ASSUME Tpm2Inv
             PROVE  NvDictionary = Dictionary(NamesOf(nv), NvViewsOf(nv))
  OBVIOUS
<1> DEFINE k == NamesOf(nv)
           v == NvViewsOf(nv)
<1>1. DOMAIN k = DOMAIN nv
  BY DEF NamesOf
<1>2. DefinedNames = {k[i] : i \in DOMAIN k}
  BY DEF DefinedNames, NamesOf
<1>3. ASSUME NEW n \in DefinedNames
      PROVE  NvView(nv[NvAt(n)]) = v[FirstIn({i \in DOMAIN k : k[i] = n})]
  <2>1. NvAt(n) \in DOMAIN nv
    BY NvAtPlace
  <2>2. {i \in DOMAIN k : k[i] = n} = {i \in DOMAIN nv : nv[i].nv_index = n}
    BY DEF NamesOf
  <2>3. NvAt(n) = FirstIn({i \in DOMAIN nv : nv[i].nv_index = n})
    BY DEF NvAt, FirstIn
  <2>4. v[NvAt(n)] = NvView(nv[NvAt(n)])
    BY <2>1 DEF NvViewsOf
  <2>5. QED
    BY <2>2, <2>3, <2>4
<1>4. QED
  BY <1>2, <1>3 DEF NvDictionary, Dictionary

\* An index that is changed: what was locked stays locked, and as it was.
LEMMA NvChangeKeeps ==
  ASSUME Tpm2Inv, NEW n \in NvNames, NvAt(n) # 0, NEW e \in NvIndex,
         nv' = [nv EXCEPT ![NvAt(n)] = e], e.nv_index = nv[NvAt(n)].nv_index,
         NvView(nv[NvAt(n)]).locked =>
           NvView(e).locked /\ e.nv_data = nv[NvAt(n)].nv_data
  PROVE  Tpm2Inv' /\ NvSpaces!Change(n)
<1> DEFINE i == NvAt(n)
           m == Len(nv)
           k == NamesOf(nv)
           v == NvViewsOf(nv)
           w == NvViewsOf(nv')
<1>1. i \in 1 .. m /\ m \in Nat /\ DOMAIN nv = 1 .. m /\ nv[i].nv_index = n
  BY NvAtPlace DEF Tpm2Inv
<1>2. /\ nv' \in Seq(NvIndex) /\ DOMAIN nv' = 1 .. m /\ nv'[i] = e
      /\ \A j \in 1 .. m \ {i} : nv'[j] = nv[j]
  BY <1>1 DEF Tpm2Inv
<1>3. NvView(nv[i]).locked => NvView(e).locked /\ e.nv_data = nv[i].nv_data
  OBVIOUS
<1> HIDE DEF i
<1>4. NamesOf(nv') = k
  BY <1>1, <1>2 DEF NamesOf, i
<1>5. Tpm2Inv'
  BY <1>2, <1>4 DEF Tpm2Inv
<1>6. /\ DOMAIN k = 1 .. m /\ k[i] = n /\ NoKeyTwice(k)
      /\ v[i] = NvView(nv[i]) /\ w[i] = NvView(e)
      /\ \A j \in 1 .. m \ {i} : w[j] = v[j]
  BY <1>1, <1>2 DEF NamesOf, NvViewsOf, Tpm2Inv
<1>7. NvDictionary = Dictionary(k, v)
  BY NvIsTable
<1>8. NvDictionary' = Dictionary(k, w)
  <2>1. (Tpm2Inv => NvDictionary = Dictionary(NamesOf(nv), NvViewsOf(nv)))'
    BY NvIsTable, PTL
  <2>2. QED
    BY <1>4, <1>5, <2>1
<1> HIDE DEF m, k, v, w
<1>9. /\ DOMAIN NvDictionary' = DOMAIN NvDictionary /\ n \in DOMAIN NvDictionary
      /\ \A g \in DOMAIN NvDictionary \ {n} : NvDictionary'[g] = NvDictionary[g]
      /\ NvDictionary[n] = NvView(nv[i]) /\ NvDictionary'[n] = NvView(e)
  BY <1>1, <1>6, <1>7, <1>8, DictionaryChange
<1>10. /\ NvView(e).kind = "ORDINARY" /\ NvView(nv[i]).kind = "ORDINARY"
       /\ NvView(e).barrable = FALSE /\ NvView(nv[i]).barrable = FALSE
       /\ NvView(e).content = e.nv_data /\ NvView(nv[i]).content = nv[i].nv_data
  BY DEF NvView
<1>11. NvSpaces!Evolves("ORDINARY", nv[i].nv_data, e.nv_data)
  BY DEF NvSpaces!Evolves
<1>12. NvSpaces!Change(n)
  BY <1>3, <1>9, <1>10, <1>11
     DEF NvSpaces!Change, NvSpaces!Frozen, NvDictionary, DefinedNames
<1>13. QED
  BY <1>5, <1>12

LEMMA NvDefineKeeps ==
  ASSUME Tpm2Inv, NEW n \in NvNames, NEW t \in NvTemplates, NvDefine(n, t)
  PROVE  Tpm2Inv' /\ NvSpaces!Define(n)
<1> DEFINE e == [nv_index |-> n, nv_type |-> t.nv_type,
                 nv_attributes |-> t.attributes, nv_data |-> 0]
           p == Len(nv)
           q == p + 1
           k == NamesOf(nv)
           l == NamesOf(nv')
           v == NvViewsOf(nv)
           w == NvViewsOf(nv')
<1>1. e \in NvIndex /\ e.nv_index = n
  BY Tpm2Assumption DEF NvIndex, NvAttributes
<1>2. nv' = Append(nv, e) /\ NvAt(n) = 0 /\ nv \in Seq(NvIndex)
  BY DEF NvDefine, Tpm2Inv
<1> HIDE DEF e
<1>3. /\ nv' \in Seq(NvIndex) /\ p \in Nat /\ q \in Nat /\ q = p + 1
      /\ DOMAIN nv = 1 .. p /\ DOMAIN nv' = 1 .. q
      /\ nv'[q] = e /\ \A j \in 1 .. p : nv'[j] = nv[j]
  BY <1>1, <1>2
<1>4. n \notin DefinedNames
  BY <1>2, NvAtPlace
<1>5. DOMAIN k = 1 .. p /\ NoKeyTwice(k) /\ DOMAIN l = 1 .. q /\ l[q] = n
  BY <1>1, <1>3 DEF NamesOf, Tpm2Inv
<1>6. /\ \A j \in 1 .. p : l[j] = k[j] /\ w[j] = v[j]
      /\ \A j \in 1 .. p : k[j] # l[q]
  <2>1. \A j \in 1 .. p : k[j] \in DefinedNames
    BY <1>3 DEF NamesOf, DefinedNames
  <2>2. \A j \in 1 .. p : j \in 1 .. q
    BY <1>3
  <2>3. QED
    BY <1>3, <1>4, <1>5, <2>1, <2>2 DEF NamesOf, NvViewsOf
<1>7. OneMore(k, v, l, w, p, q)
  <2> HIDE DEF k, l, v, w, p, q
  <2>1. QED
    BY <1>3, <1>5, <1>6 DEF OneMore
<1>8. Tpm2Inv'
  <2>1. NoKeyTwice(l)
    BY <1>7, DictionaryAdd
  <2>2. QED
    BY <1>3, <2>1 DEF Tpm2Inv
<1>9. NvDictionary' = Dictionary(l, w)
  <2>1. (Tpm2Inv => NvDictionary = Dictionary(NamesOf(nv), NvViewsOf(nv)))'
    BY NvIsTable, PTL
  <2>2. QED
    BY <1>8, <2>1
<1>10. NvDictionary = Dictionary(k, v)
  BY NvIsTable
<1> HIDE DEF p, q, k, l, v, w
<1>11. /\ n \notin DOMAIN NvDictionary /\ DOMAIN NvDictionary' = DOMAIN NvDictionary \cup {n}
       /\ \A g \in DOMAIN NvDictionary : NvDictionary'[g] = NvDictionary[g]
  <2>1. l[q] = n
    BY <1>5
  <2>2. n \notin DOMAIN Dictionary(k, v)
    BY <1>7, <2>1, DictionaryAdd
  <2>3. \A g : g \in DOMAIN Dictionary(l, w) <=> g \in DOMAIN Dictionary(k, v) \/ g = n
    BY <1>7, <2>1, DictionaryAdd
  <2>4. \A g \in DOMAIN Dictionary(k, v) : Dictionary(l, w)[g] = Dictionary(k, v)[g]
    BY <1>7, DictionaryAdd
  <2>5. DOMAIN Dictionary(l, w) = DOMAIN Dictionary(k, v) \cup {n}
    BY <2>3
  <2>6. QED
    BY <1>9, <1>10, <2>2, <2>4, <2>5
<1>12. NvSpaces!Define(n)
  BY <1>11 DEF NvSpaces!Define, NvDictionary, DefinedNames
<1>13. QED
  BY <1>8, <1>12

LEMMA NvUndefineKeeps ==
  ASSUME Tpm2Inv, NEW n \in NvNames, NvUndefine(n)
  PROVE  Tpm2Inv' /\ NvSpaces!Remove({n})
<1> DEFINE i == NvAt(n)
           p == Len(nv)
           k == NamesOf(nv)
           l == NamesOf(nv')
           v == NvViewsOf(nv)
           w == NvViewsOf(nv')
<1>1. i # 0
  BY DEF NvUndefine
<1>2. nv' = [j \in 1 .. Len(nv) - 1 |-> IF j < i THEN nv[j] ELSE nv[j + 1]]
  BY DEF NvUndefine
<1>3. /\ i \in 1 .. p /\ p \in Nat /\ DOMAIN nv = 1 .. p /\ nv[i].nv_index = n
      /\ nv \in Seq(NvIndex)
  BY <1>1, NvAtPlace DEF Tpm2Inv
<1> HIDE DEF i
<1>4. /\ nv' \in Seq(NvIndex) /\ DOMAIN nv' = 1 .. p - 1
      /\ \A j \in 1 .. p - 1 : j < i => nv'[j] = nv[j]
      /\ \A j \in 1 .. p - 1 : ~(j < i) => nv'[j] = nv[j + 1]
  <2>1. nv' \in Seq(NvIndex) /\ Len(nv') = p - 1
    BY <1>2, <1>3, SeqWithout
  <2>2. QED
    BY <1>2, <1>3, <2>1
<1>5. \A j \in 1 .. p - 1 : j \in 1 .. p /\ j + 1 \in 1 .. p
  BY <1>3
<1>6. /\ DOMAIN k = 1 .. p /\ NoKeyTwice(k) /\ k[i] = n /\ DOMAIN l = 1 .. p - 1
  BY <1>3, <1>4 DEF NamesOf, Tpm2Inv
<1>7. \A j \in 1 .. p - 1 : /\ l[j] = IF j < i THEN k[j] ELSE k[j + 1]
                            /\ w[j] = IF j < i THEN v[j] ELSE v[j + 1]
  BY <1>3, <1>4, <1>5 DEF NamesOf, NvViewsOf
<1>8. /\ NvDictionary = Dictionary(k, v) /\ DOMAIN NvDictionary = DefinedNames
      /\ n \in DefinedNames
  BY <1>3, NvIsTable DEF NvDictionary, DefinedNames
<1>9. /\ NoKeyTwice(l)
      /\ \A g : g \in DOMAIN Dictionary(l, w) <=> g \in DOMAIN Dictionary(k, v) /\ g # n
      /\ \A g \in DOMAIN Dictionary(l, w) : Dictionary(l, w)[g] = Dictionary(k, v)[g]
  <2> HIDE DEF k, l, v, w, p
  <2>1. OneLess(k, v, l, w, p, i)
    BY <1>3, <1>6, <1>7 DEF OneLess
  <2>2. k[i] = n
    BY <1>6
  <2>3. NoKeyTwice(l)
    BY <2>1, DictionaryRemove
  <2>4. \A g : g \in DOMAIN Dictionary(l, w) <=> g \in DOMAIN Dictionary(k, v) /\ g # n
    BY <2>1, <2>2, DictionaryRemove
  <2>5. \A g \in DOMAIN Dictionary(l, w) : Dictionary(l, w)[g] = Dictionary(k, v)[g]
    BY <2>1, DictionaryRemove
  <2>6. QED
    BY <2>3, <2>4, <2>5
<1>10. Tpm2Inv'
  BY <1>4, <1>9 DEF Tpm2Inv
<1>11. NvDictionary' = Dictionary(l, w)
  <2>1. (Tpm2Inv => NvDictionary = Dictionary(NamesOf(nv), NvViewsOf(nv)))'
    BY NvIsTable, PTL
  <2>2. QED
    BY <1>10, <2>1
<1> HIDE DEF p, k, l, v, w
<1>12. /\ NvDictionary' = [g \in DOMAIN NvDictionary \ {n} |-> NvDictionary[g]]
       /\ n \in DOMAIN NvDictionary
  <2>1. NvDictionary' = [g \in DOMAIN NvDictionary' |-> NvDictionary'[g]]
    BY DEF NvDictionary
  <2>2. QED
    BY <1>8, <1>9, <1>11, <2>1
<1>13. NvSpaces!Remove({n})
  BY <1>12 DEF NvSpaces!Remove, NvDictionary, DefinedNames
<1>14. QED
  BY <1>10, <1>13

\* Clearing the TPM removes every index at once.
LEMMA ClearKeeps ==
  ASSUME Tpm2Inv, TpmClear
  PROVE  Tpm2Inv' /\ \E gone \in SUBSET NvNames : NvSpaces!Remove(gone)
<1>1. nv' = << >> /\ DOMAIN nv' = {}
  BY DEF TpmClear
<1>2. Tpm2Inv'
  BY <1>1 DEF Tpm2Inv, NoKeyTwice, NamesOf
<1>3. DefinedNames \in SUBSET NvNames
  <2>1. \A i \in DOMAIN nv : nv[i] \in NvIndex
    BY DEF Tpm2Inv
  <2>2. QED
    BY <2>1 DEF DefinedNames, NvIndex
<1>4. DefinedNames' = {}
  BY <1>1 DEF DefinedNames
<1>5. NvDictionary' = [g \in DOMAIN NvDictionary \ DefinedNames |-> NvDictionary[g]]
  BY <1>4 DEF NvDictionary
<1>6. ASSUME NEW gone, gone = DefinedNames
      PROVE  gone \in SUBSET NvNames /\ NvSpaces!Remove(gone)
  BY <1>3, <1>5, <1>6 DEF NvSpaces!Remove, NvDictionary, DefinedNames
<1>7. \E gone : gone = DefinedNames
  OBVIOUS
<1>8. QED
  BY <1>2, <1>6, <1>7

\* Writing, counting and locking change one index.
LEMMA NvUpdateKeeps ==
  ASSUME Tpm2Inv, NEW n \in NvNames,
         \/ \E v \in 0 .. NvModulus - 1 : NvWrite(n, v)
         \/ NvIncrement(n)
         \/ \E attribute \in {"WRITTEN", "READLOCKED"} : NvLock(n, attribute)
  PROVE  Tpm2Inv' /\ NvSpaces!Change(n)
<1> DEFINE i == NvAt(n)
           old == nv[i]
<1>1. i # 0 /\ i \in DOMAIN nv /\ old \in NvIndex
  BY NvAtPlace DEF NvWrite, NvIncrement, NvLock, Tpm2Inv
<1>2. ASSUME NEW v \in Nat, nv' = [nv EXCEPT ![i].nv_data = v], ~NvView(old).locked
      PROVE  Tpm2Inv' /\ NvSpaces!Change(n)
  <2> DEFINE e == [old EXCEPT !.nv_data = v]
  <2>1. nv' = [nv EXCEPT ![i] = e]
    BY <1>2
  <2>2. e \in NvIndex /\ e.nv_index = old.nv_index
    BY <1>1 DEF NvIndex
  <2> HIDE DEF e
  <2>3. QED
    BY <1>1, <1>2, <2>1, <2>2, NvChangeKeeps
<1>3. ASSUME NEW v \in 0 .. NvModulus - 1, NvWrite(n, v)
      PROVE  Tpm2Inv' /\ NvSpaces!Change(n)
  <2>1. v \in Nat /\ nv' = [nv EXCEPT ![i].nv_data = v] /\ Writable(old)
    BY <1>3, Tpm2Assumption DEF NvWrite
  <2>2. ~NvView(old).locked
    BY <2>1 DEF NvView
  <2>3. QED
    BY <1>2, <2>1, <2>2
<1>4. CASE NvIncrement(n)
  <2>1. old.nv_type = "COUNTER" /\ nv' = [nv EXCEPT ![i].nv_data = (old.nv_data + 1) % NvModulus]
    BY <1>4 DEF NvIncrement
  <2>2. ~NvView(old).locked
    BY <2>1 DEF NvView
  <2>3. (old.nv_data + 1) % NvModulus \in Nat
    <3>1. old.nv_data \in Nat
      BY <1>1 DEF NvIndex
    <3>2. NvModulus \in Nat /\ NvModulus > 0
      BY Tpm2Assumption
    <3>3. QED
      BY <3>1, <3>2
  <2>4. QED
    BY <1>2, <2>1, <2>2, <2>3
<1>5. ASSUME NEW attribute \in {"WRITTEN", "READLOCKED"}, NvLock(n, attribute)
      PROVE  Tpm2Inv' /\ NvSpaces!Change(n)
  <2> DEFINE e == [old EXCEPT !.nv_attributes = @ \cup {attribute}]
  <2>1. nv' = [nv EXCEPT ![i] = e]
    BY <1>5 DEF NvLock
  <2>2. e \in NvIndex /\ e.nv_index = old.nv_index
    BY <1>1 DEF NvIndex, NvAttributes
  <2>3. /\ e.nv_type = old.nv_type /\ e.nv_data = old.nv_data
        /\ e.nv_attributes = old.nv_attributes \cup {attribute}
    BY <1>1 DEF NvIndex
  <2> HIDE DEF e, old
  <2>4. NvView(old).locked => NvView(e).locked
    BY <2>3 DEF NvView, Writable
  <2>5. QED
    BY <1>1, <2>1, <2>2, <2>3, <2>4, NvChangeKeeps DEF old
<1>6. QED
  BY <1>3, <1>4, <1>5

LEMMA Tpm2Start == Tpm2Init => Tpm2Inv /\ NvSpaces!Init
<1> SUFFICES ASSUME Tpm2Init PROVE Tpm2Inv /\ NvSpaces!Init
  OBVIOUS
<1>1. nv = << >> /\ DOMAIN nv = {}
  BY DEF Tpm2Init
<1>2. Tpm2Inv
  BY <1>1 DEF Tpm2Inv, NoKeyTwice, NamesOf
<1>3. NvSpaces!Init
  BY <1>1 DEF NvSpaces!Init
<1>4. QED
  BY <1>2, <1>3

LEMMA Tpm2Step ==
  Tpm2Inv /\ [Tpm2Next]_t2vars => Tpm2Inv' /\ [NvSpaces!Next]_(NvSpaces!vars)
<1> SUFFICES ASSUME Tpm2Inv, [Tpm2Next]_t2vars
             PROVE  Tpm2Inv' /\ (NvSpaces!Next \/ UNCHANGED <<NvDictionary, FALSE>>)
  BY DEF NvSpaces!vars, NvDictionary, DefinedNames
<1>1. CASE TpmClear
  BY <1>1, ClearKeeps DEF NvSpaces!Next
<1>2. ASSUME NEW n \in NvNames, NEW t \in NvTemplates, NvDefine(n, t)
      PROVE  Tpm2Inv' /\ NvSpaces!Next
  BY <1>2, NvDefineKeeps DEF NvSpaces!Next
<1>3. ASSUME NEW n \in NvNames,
             \/ \E v \in 0 .. NvModulus - 1 : NvWrite(n, v)
             \/ NvIncrement(n)
             \/ \E attribute \in {"WRITTEN", "READLOCKED"} : NvLock(n, attribute)
      PROVE  Tpm2Inv' /\ NvSpaces!Next
  BY <1>3, NvUpdateKeeps DEF NvSpaces!Next
<1>4. ASSUME NEW n \in NvNames, NvUndefine(n) PROVE Tpm2Inv' /\ NvSpaces!Next
  <2>1. Tpm2Inv' /\ NvSpaces!Remove({n}) /\ {n} \in SUBSET NvNames
    BY <1>4, NvUndefineKeeps
  <2>2. QED
    BY <2>1 DEF NvSpaces!Next
<1>5. CASE NvNext
  BY <1>2, <1>3, <1>4, <1>5 DEF NvNext
<1>6. CASE PcrNext \/ SessionNext \/ UNCHANGED t2vars
  <2>1. nv' = nv
    BY <1>6 DEF PcrNext, StartupClear, FullSelfTest, PcrReset, PcrAllocate, PcrExtend,
       SessionNext, StartSession, FlushSession, DaIncrement, DaLockReset, t2vars
  <2>2. QED
    BY <2>1 DEF Tpm2Inv, NvDictionary, DefinedNames, NvAt
<1>7. QED
  BY <1>1, <1>5, <1>6 DEF Tpm2Next

\* The NV store of this TPM keeps the promise of NVVault too: a locked index is
\* frozen until it is undefined or the TPM cleared, and no operation on one
\* index, on a PCR or on a session disturbs another.
THEOREM Tpm2KeepsVault == Tpm2Spec => TpmKeepsVault
  BY Tpm2Start, Tpm2Step, PTL DEF Tpm2Spec, TpmKeepsVault, NvSpaces!Spec
=============================================================================
