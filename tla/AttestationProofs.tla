-------------------------- MODULE AttestationProofs ---------------------------
(***************************************************************************)
(* Proofs about the measuring platform of mini-measured-boot and about its *)
(* remote attestation, for every log capacity, every set of stages and     *)
(* digests and every number of challenges, quotes and platform resets.     *)
(***************************************************************************)
EXTENDS Attestation, ProofLemmas, TLAPS

-----------------------------------------------------------------------------
(* Prefixes and suffixes.                                                  *)

LEMMA BeginsReflexive ==
  ASSUME NEW D, NEW s \in Seq(D) PROVE Begins(s, s) /\ Ends(s, s)
  BY DEF Begins, Ends

LEMMA BeginsAppend ==
  ASSUME NEW D, NEW s \in Seq(D), NEW t \in Seq(D), NEW d \in D, Begins(s, t)
  PROVE  Begins(s, Append(t, d))
  BY DEF Begins

\* What two sequences both gain at the end keeps one the end of the other.
LEMMA EndsAppend ==
  ASSUME NEW D, NEW s \in Seq(D), NEW t \in Seq(D), NEW d \in D, Ends(s, t)
  PROVE  Ends(Append(s, d), Append(t, d))
<1> DEFINE s2 == Append(s, d)
           t2 == Append(t, d)
<1>1. /\ s2 \in Seq(D) /\ Len(s2) = Len(s) + 1 /\ s2[Len(s) + 1] = d
      /\ t2 \in Seq(D) /\ Len(t2) = Len(t) + 1 /\ t2[Len(t) + 1] = d
  OBVIOUS
<1>2. Len(s2) <= Len(t2)
  BY <1>1 DEF Ends
<1>3. ASSUME NEW i \in 1 .. Len(s2) PROVE s2[i] = t2[Len(t2) - Len(s2) + i]
  <2>1. CASE i = Len(s) + 1
    BY <1>1, <2>1
  <2>2. CASE i # Len(s) + 1
    <3>1. i \in 1 .. Len(s) /\ Len(t) - Len(s) + i \in 1 .. Len(t)
      BY <1>1, <2>2 DEF Ends
    <3>2. s2[i] = s[i] /\ t2[Len(t) - Len(s) + i] = t[Len(t) - Len(s) + i]
      BY <3>1
    <3>3. s[i] = t[Len(t) - Len(s) + i]
      BY <3>1 DEF Ends
    <3>4. Len(t2) - Len(s2) + i = Len(t) - Len(s) + i
      BY <1>1
    <3>5. QED
      BY <3>2, <3>3, <3>4
  <2>3. QED
    BY <2>1, <2>2
<1>4. QED
  BY <1>2, <1>3 DEF Ends

LEMMA EmptyEnds ==
  ASSUME NEW D, NEW t \in Seq(D) PROVE Ends(<< >>, t)
  BY DEF Ends

-----------------------------------------------------------------------------
(* Stages and the bank.                                                    *)

Banks == [PCRs -> Seq(Digests)]

\* The PCR an event names is one its stage extends, and the only one but 8.
LEMMA LoggedIsExtended ==
  ASSUME NEW stage \in Stages
  PROVE  /\ Logged(stage) \in PCRs
         /\ Logged(stage) \in Extended(stage)
         /\ Extended(stage) \subseteq {Logged(stage), 8}
  BY MeasuredBootAssumption DEF AllStages, Logged, Extended, PCRs

LEMMA PcrExtendType ==
  ASSUME NEW bank \in Banks, NEW targets, NEW d \in Digests
  PROVE  PcrExtend(bank, targets, d) \in Banks
  BY DEF Banks, PcrExtend

LEMMA EventLogAddType ==
  ASSUME NEW log \in Seq(Event), Len(log) <= MaxEvents, NEW e \in Event
  PROVE  /\ EventLogAdd(log, e) \in Seq(Event)
         /\ Len(EventLogAdd(log, e)) <= MaxEvents
         /\ Len(EventLogAdd(log, e)) < MaxEvents => Len(log) < MaxEvents
         /\ Len(log) < MaxEvents => EventLogAdd(log, e) = Append(log, e)
         /\ ~(Len(log) < MaxEvents) => EventLogAdd(log, e) = log
  BY MeasuredBootAssumption DEF EventLogAdd

-----------------------------------------------------------------------------
(* The replay of a log.                                                    *)

\* f is the run of event_log_replay over the log: f[n] is its bank after n
\* events.
IsReplay(f, log) ==
  f = [n \in 0 .. Len(log) |->
         IF n = 0 THEN [p \in PCRs |-> << >>]
         ELSE PcrExtend(f[n - 1], {log[n].pcr_index}, log[n].digest)]

LEMMA ReplayExists ==
  ASSUME NEW log \in Seq(Event)
  PROVE  \E f \in [0 .. Len(log) -> Banks] : IsReplay(f, log)
<1> DEFINE zero == [p \in PCRs |-> << >>]
           g == [n \in 1 .. Len(log) |-> [bank \in Banks |->
                   PcrExtend(bank, {log[n].pcr_index}, log[n].digest)]]
<1>1. zero \in Banks
  BY DEF Banks
<1>2. \A n \in 1 .. Len(log) : log[n].digest \in Digests
  <2>1. \A n \in 1 .. Len(log) : log[n] \in Event
    OBVIOUS
  <2>2. QED
    BY <2>1 DEF Event
<1>3. g \in [1 .. Len(log) -> [Banks -> Banks]]
  BY <1>2, PcrExtendType
<1>4. PICK f \in [0 .. Len(log) -> Banks] :
        f[0] = zero /\ \A n \in 1 .. Len(log) : f[n] = g[n][f[n - 1]]
  <2> HIDE DEF g, zero
  <2>1. Len(log) \in Nat
    OBVIOUS
  <2>2. QED
    <3>1. ASSUME NEW N \in Nat, N = Len(log)
          PROVE  \E f \in [0 .. N -> Banks] :
                   f[0] = zero /\ \A n \in 1 .. N : f[n] = g[n][f[n - 1]]
      <4>1. g \in [1 .. N -> [Banks -> Banks]]
        BY <1>3, <3>1
      <4>2. QED
        BY ONLY <1>1, <4>1, IterationExists
    <3>2. QED
      BY <2>1, <3>1
<1>5. ASSUME NEW n \in 1 .. Len(log)
      PROVE  f[n] = PcrExtend(f[n - 1], {log[n].pcr_index}, log[n].digest)
  <2>1. f[n - 1] \in Banks
    BY <1>4
  <2>2. QED
    BY <1>4, <2>1
<1>6. IsReplay(f, log)
  <2>1. \A n \in 0 .. Len(log) : n # 0 => n \in 1 .. Len(log)
    OBVIOUS
  <2>2. QED
    BY <1>4, <1>5, <2>1 DEF IsReplay
<1>7. QED
  BY <1>4, <1>6

\* Logs that begin alike are replayed alike up to there.
LEMMA ReplayAgrees ==
  ASSUME NEW s \in Seq(Event), NEW t \in Seq(Event), Begins(s, t),
         NEW f, IsReplay(f, s), NEW h, IsReplay(h, t)
  PROVE  \A n \in 0 .. Len(s) : f[n] = h[n]
<1> DEFINE S == {n \in Nat : n <= Len(s) => f[n] = h[n]}
<1>1. Len(s) \in Nat /\ Len(t) \in Nat /\ Len(s) <= Len(t)
  BY DEF Begins
<1>2. 0 \in S
  BY <1>1 DEF IsReplay
<1>3. ASSUME NEW n \in Nat, n \in S PROVE n + 1 \in S
  <2> SUFFICES ASSUME n + 1 <= Len(s) PROVE f[n + 1] = h[n + 1]
    OBVIOUS
  <2>1. /\ n + 1 \in 0 .. Len(s) /\ n + 1 \in 0 .. Len(t) /\ n + 1 # 0
        /\ n + 1 \in 1 .. Len(s) /\ (n + 1) - 1 = n /\ n <= Len(s)
    BY <1>1
  <2>2. s[n + 1] = t[n + 1]
    BY <2>1 DEF Begins
  <2>3. f[n] = h[n]
    BY <1>3, <2>1
  <2>4. f[n + 1] = PcrExtend(f[n], {s[n + 1].pcr_index}, s[n + 1].digest)
    BY <2>1 DEF IsReplay
  <2>5. h[n + 1] = PcrExtend(h[n], {t[n + 1].pcr_index}, t[n + 1].digest)
    BY <2>1 DEF IsReplay
  <2>6. QED
    BY <2>2, <2>3, <2>4, <2>5
<1>4. \A n \in Nat : n \in S
  <2> HIDE DEF S
  <2>1. QED
    BY <1>2, <1>3, NaturalsClosed
<1>5. QED
  BY <1>1, <1>4

\* Any run of the loop gives the replayed bank.
LEMMA ReplayedByRun ==
  ASSUME NEW log \in Seq(Event), NEW f, IsReplay(f, log)
  PROVE  Replayed(log) = f[Len(log)]
<1> DEFINE bank == CHOOSE h : IsReplay(h, log)
<1>1. IsReplay(bank, log)
  OBVIOUS
<1>2. Replayed(log) = bank[Len(log)]
  BY DEF Replayed, IsReplay
<1> HIDE DEF bank
<1>3. Len(log) \in 0 .. Len(log)
  OBVIOUS
<1>4. bank[Len(log)] = f[Len(log)]
  BY <1>1, <1>3, BeginsReflexive, ReplayAgrees
<1>5. QED
  BY <1>2, <1>4

LEMMA ReplayedEmpty == Replayed(<< >>) = [p \in PCRs |-> << >>]
<1>1. << >> \in Seq(Event) /\ Len(<< >>) = 0
  OBVIOUS
<1>2. PICK f \in [0 .. Len(<< >>) -> Banks] : IsReplay(f, << >>)
  BY <1>1, ReplayExists
<1>3. Replayed(<< >>) = f[0]
  BY <1>1, <1>2, ReplayedByRun
<1>4. f[0] = [p \in PCRs |-> << >>]
  BY <1>1, <1>2 DEF IsReplay
<1>5. QED
  BY <1>3, <1>4

LEMMA ReplayedType ==
  ASSUME NEW log \in Seq(Event) PROVE Replayed(log) \in Banks
<1>1. PICK f \in [0 .. Len(log) -> Banks] : IsReplay(f, log)
  BY ReplayExists
<1>2. Len(log) \in 0 .. Len(log)
  OBVIOUS
<1>3. QED
  BY <1>1, <1>2, ReplayedByRun

\* One more event extends one PCR of the replayed bank.
LEMMA ReplayedAppend ==
  ASSUME NEW log \in Seq(Event), NEW e \in Event
  PROVE  Replayed(Append(log, e)) = PcrExtend(Replayed(log), {e.pcr_index}, e.digest)
<1> DEFINE longer == Append(log, e)
<1>1. /\ longer \in Seq(Event) /\ Len(longer) = Len(log) + 1
      /\ longer[Len(longer)] = e /\ Len(log) \in Nat
  OBVIOUS
<1>2. Begins(log, longer)
  BY DEF Begins
<1> HIDE DEF longer
<1>3. PICK f \in [0 .. Len(log) -> Banks] : IsReplay(f, log)
  BY ReplayExists
<1>4. PICK h \in [0 .. Len(longer) -> Banks] : IsReplay(h, longer)
  BY <1>1, ReplayExists
<1>5. f[Len(log)] = h[Len(log)]
  <2>1. Len(log) \in 0 .. Len(log)
    BY <1>1
  <2>2. QED
    BY <1>1, <1>2, <1>3, <1>4, <2>1, ReplayAgrees
<1>6. h[Len(longer)] = PcrExtend(h[Len(log)], {e.pcr_index}, e.digest)
  <2>1. Len(longer) \in 0 .. Len(longer) /\ Len(longer) # 0 /\ Len(longer) - 1 = Len(log)
    BY <1>1
  <2>2. QED
    BY <1>1, <1>4, <2>1 DEF IsReplay
<1>7. Replayed(longer) = h[Len(longer)] /\ Replayed(log) = f[Len(log)]
  BY <1>1, <1>3, <1>4, ReplayedByRun
<1>8. Replayed(longer) = PcrExtend(Replayed(log), {e.pcr_index}, e.digest)
  BY <1>5, <1>6, <1>7
<1>9. QED
  BY <1>8 DEF longer

-----------------------------------------------------------------------------
(* The measured platform.                                                  *)

LEMMA TypeInit == Init => MeasuredBootTypeOK
<1> SUFFICES ASSUME Init PROVE MeasuredBootTypeOK
  OBVIOUS
<1>1. /\ pcr = [p \in PCRs |-> << >>] /\ event_log = << >>
      /\ measured_launch = FALSE
  BY DEF Init, MeasuredBootInit, PowerOn
<1>2. Len(event_log) = 0 /\ event_log \in Seq(Event) /\ << >> \in Seq(Digests)
  BY <1>1
<1>3. pcr \in [PCRs -> Seq(Digests)]
  BY <1>1, <1>2
<1>4. Len(event_log) <= MaxEvents
  BY <1>2, MeasuredBootAssumption
<1>5. QED
  BY <1>1, <1>2, <1>3, <1>4 DEF MeasuredBootTypeOK

\* What a measurement does, with the event it logs.
LEMMA MeasureStep ==
  ASSUME MeasuredBootTypeOK, NEW stage \in Stages, NEW d \in Digests,
         Measure(stage, d)
  PROVE  \E e \in Event :
           /\ e.pcr_index = Logged(stage) /\ e.digest = d
           /\ pcr' = PcrExtend(pcr, Extended(stage), d)
           /\ event_log' = EventLogAdd(event_log, e)
<1> DEFINE e == [pcr_index |-> Logged(stage), digest |-> d]
<1>1. e \in Event
  BY LoggedIsExtended DEF Event
<1>2. QED
  BY <1>1 DEF Measure

LEMMA MeasureType ==
  ASSUME MeasuredBootTypeOK, NEW stage \in Stages, NEW d \in Digests,
         Measure(stage, d)
  PROVE  MeasuredBootTypeOK'
<1>1. PICK e \in Event : /\ pcr' = PcrExtend(pcr, Extended(stage), d)
                        /\ event_log' = EventLogAdd(event_log, e)
  BY MeasureStep
<1>2. pcr' \in Banks
  BY <1>1, PcrExtendType DEF MeasuredBootTypeOK, Banks
<1>3. event_log' \in Seq(Event) /\ Len(event_log') <= MaxEvents
  BY <1>1, EventLogAddType DEF MeasuredBootTypeOK
<1>4. measured_launch' \in BOOLEAN
  <2>1. measured_launch' = (measured_launch \/ stage = "mle")
    BY Zenon DEF Measure
  <2>2. QED
    BY <2>1, Zenon
<1>5. QED
  BY <1>2, <1>3, <1>4 DEF MeasuredBootTypeOK, Banks

LEMMA ResetType ==
  ASSUME MeasuredBootTypeOK, NEW p \in PCRs, PcrReset(p)
  PROVE  MeasuredBootTypeOK'
<1>1. /\ pcr' = [pcr EXCEPT ![p] = << >>] /\ << >> \in Seq(Digests)
      /\ UNCHANGED <<event_log, measured_launch>>
  BY DEF PcrReset
<1>2. QED
  BY <1>1 DEF MeasuredBootTypeOK

LEMMA PowerOnType ==
  ASSUME PlatformReset PROVE MeasuredBootTypeOK'
<1>1. /\ pcr' = [p \in PCRs |-> << >>] /\ event_log' = << >>
      /\ measured_launch' = FALSE
  BY DEF PlatformReset, PowerOn
<1>2. Len(event_log') = 0 /\ event_log' \in Seq(Event) /\ << >> \in Seq(Digests)
  BY <1>1
<1>3. pcr' \in [PCRs -> Seq(Digests)]
  BY <1>1, <1>2
<1>4. Len(event_log') <= MaxEvents
  BY <1>2, MeasuredBootAssumption
<1>5. QED
  BY <1>1, <1>2, <1>3, <1>4 DEF MeasuredBootTypeOK

\* The four ways a step of the composed system can treat the platform.
LEMMA PlatformCases ==
  ASSUME [Next]_vars
  PROVE  \/ \E stage \in Stages, d \in Digests : Measure(stage, d) /\ UNCHANGED avars
         \/ \E p \in PCRs : PcrReset(p) /\ UNCHANGED avars
         \/ PlatformReboots
         \/ UNCHANGED mvars
<1>1. CASE \E indices \in IndexSets : GenerateChallenge(indices)
  BY <1>1 DEF GenerateChallenge
<1>2. CASE CreateQuote
  BY <1>2 DEF CreateQuote
<1>3. CASE \E p \in GoldenPCRs : SetGoldenPcr(p)
  BY <1>3 DEF SetGoldenPcr
<1>4. CASE PlatformMeasures
  BY <1>4 DEF PlatformMeasures
<1>5. CASE PlatformReboots
  BY <1>5
<1>6. CASE UNCHANGED vars
  BY <1>6 DEF vars
<1>7. QED
  BY <1>1, <1>2, <1>3, <1>4, <1>5, <1>6 DEF Next

LEMMA TypeStep == MeasuredBootTypeOK /\ [Next]_vars => MeasuredBootTypeOK'
<1> SUFFICES ASSUME MeasuredBootTypeOK, [Next]_vars PROVE MeasuredBootTypeOK'
  OBVIOUS
<1>1. CASE PlatformReboots
  BY <1>1, PowerOnType DEF PlatformReboots
<1>2. CASE UNCHANGED mvars
  BY <1>2 DEF mvars, MeasuredBootTypeOK
<1>3. QED
  BY <1>1, <1>2, PlatformCases, MeasureType, ResetType

\* The bank and the log always hold digests, and the log never outgrows
\* MAX_EVENTS.
THEOREM MeasuredBootTypes == Spec => []MeasuredBootTypeOK
<1>1. Init => MeasuredBootTypeOK
  BY TypeInit
<1>2. MeasuredBootTypeOK /\ [Next]_vars => MeasuredBootTypeOK'
  BY TypeStep
<1>3. QED
  BY <1>1, <1>2, PTL DEF Spec

-----------------------------------------------------------------------------
(* Static PCRs.                                                            *)

\* A step of the platform leaves each static PCR with what it had, and more.
LEMMA MeasureGrows ==
  ASSUME MeasuredBootTypeOK, NEW stage \in Stages, NEW d \in Digests,
         Measure(stage, d), NEW p \in PCRs
  PROVE  pcr'[p] \in {pcr[p], Append(pcr[p], d)}
<1>1. pcr' = PcrExtend(pcr, Extended(stage), d)
  BY DEF Measure
<1>2. QED
  BY <1>1 DEF PcrExtend

LEMMA StaticGrows ==
  ASSUME MeasuredBootTypeOK, NEW p \in StaticPCRs,
         \/ \E stage \in Stages, d \in Digests : Measure(stage, d)
         \/ \E r \in PCRs : PcrReset(r)
         \/ UNCHANGED mvars,
         NEW s \in Seq(Digests), Begins(s, pcr[p])
  PROVE  Begins(s, pcr'[p])
<1>1. p \in PCRs /\ p \notin DynamicPCRs /\ pcr[p] \in Seq(Digests)
  BY DEF StaticPCRs, MeasuredBootTypeOK
<1>2. ASSUME NEW stage \in Stages, NEW d \in Digests, Measure(stage, d)
      PROVE  Begins(s, pcr'[p])
  <2>1. pcr'[p] \in {pcr[p], Append(pcr[p], d)}
    BY <1>1, <1>2, MeasureGrows
  <2>2. QED
    BY <1>1, <2>1, BeginsAppend
<1>3. ASSUME NEW r \in PCRs, PcrReset(r) PROVE Begins(s, pcr'[p])
  <2>1. r # p /\ pcr' = [pcr EXCEPT ![r] = << >>]
    BY <1>1, <1>3 DEF PcrReset, Resettable
  <2>2. pcr'[p] = pcr[p]
    BY <1>1, <2>1 DEF MeasuredBootTypeOK
  <2>3. QED
    BY <2>2
<1>4. CASE UNCHANGED mvars
  BY <1>4 DEF mvars
<1>5. QED
  BY <1>2, <1>3, <1>4

\* Static PCRs only ever gain digests, whatever is measured, reset, asked or
\* answered, until the platform itself resets and the log with it.
THEOREM StaticPCRsGrow == Spec => StaticPCRsOnlyGrow
<1> DEFINE Grows == \A p \in StaticPCRs : Begins(pcr[p], pcr'[p])
           Restarts == event_log' = << >> /\ \A p \in PCRs : pcr'[p] = << >>
<1>1. MeasuredBootTypeOK /\ [Next]_vars => [Grows \/ Restarts]_mvars
  <2> SUFFICES ASSUME MeasuredBootTypeOK, [Next]_vars
               PROVE  Grows \/ Restarts \/ UNCHANGED mvars
    OBVIOUS
  <2>1. CASE PlatformReboots
    BY <2>1 DEF PlatformReboots, PlatformReset, PowerOn
  <2>2. ASSUME \/ \E stage \in Stages, d \in Digests : Measure(stage, d)
               \/ \E p \in PCRs : PcrReset(p)
        PROVE  Grows
    <3> SUFFICES ASSUME NEW p \in StaticPCRs PROVE Begins(pcr[p], pcr'[p])
      OBVIOUS
    <3>1. pcr[p] \in Seq(Digests)
      BY DEF StaticPCRs, MeasuredBootTypeOK
    <3>2. Begins(pcr[p], pcr[p])
      BY <3>1, BeginsReflexive
    <3>3. QED
      BY <2>2, <3>1, <3>2, StaticGrows
  <2>3. QED
    BY <2>1, <2>2, PlatformCases
<1>2. QED
  BY <1>1, MeasuredBootTypes, PTL DEF Spec, StaticPCRsOnlyGrow

-----------------------------------------------------------------------------
(* The log against the bank.                                               *)

LogInv == MeasuredBootTypeOK /\ LogExplainsBank /\ LogNeverMisreports

LEMMA LogRestarts ==
  ASSUME MeasuredBootTypeOK, event_log = << >>, pcr = [p \in PCRs |-> << >>]
  PROVE  LogExplainsBank /\ LogNeverMisreports
<1>1. /\ StaticPCRs \subseteq PCRs /\ DynamicPCRs \subseteq PCRs
      /\ << >> \in Seq(Digests)
  BY DEF StaticPCRs, DynamicPCRs, PCRs
<1>2. \A p \in PCRs : Replayed(event_log)[p] = << >> /\ pcr[p] = << >>
  BY ReplayedEmpty
<1>3. Begins(<< >>, << >>) /\ Ends(<< >>, << >>)
  BY <1>1, BeginsReflexive
<1>4. QED
  BY <1>1, <1>2, <1>3 DEF LogExplainsBank, LogNeverMisreports, VerifyPcr

\* With room in the log, a measurement extends a PCR and its replay alike.
LEMMA MeasureWithRoom ==
  ASSUME MeasuredBootTypeOK, NEW stage \in Stages, NEW d \in Digests,
         Measure(stage, d), Len(event_log) < MaxEvents, NEW p \in PCRs, p # 8
  PROVE  \/ /\ pcr'[p] = Append(pcr[p], d)
            /\ Replayed(event_log')[p] = Append(Replayed(event_log)[p], d)
         \/ /\ pcr'[p] = pcr[p]
            /\ Replayed(event_log')[p] = Replayed(event_log)[p]
<1>1. PICK e \in Event : /\ e.pcr_index = Logged(stage) /\ e.digest = d
                        /\ pcr' = PcrExtend(pcr, Extended(stage), d)
                        /\ event_log' = EventLogAdd(event_log, e)
  BY MeasureStep
<1>2. event_log' = Append(event_log, e)
  BY <1>1, EventLogAddType DEF MeasuredBootTypeOK
<1>3. Replayed(event_log') = PcrExtend(Replayed(event_log), {Logged(stage)}, d)
  BY <1>1, <1>2, ReplayedAppend DEF MeasuredBootTypeOK
<1>4. p \in Extended(stage) <=> p \in {Logged(stage)}
  BY LoggedIsExtended
<1>5. QED
  BY <1>1, <1>3, <1>4 DEF PcrExtend

LEMMA MeasureExplains ==
  ASSUME LogInv, NEW stage \in Stages, NEW d \in Digests, Measure(stage, d)
  PROVE  LogExplainsBank' /\ LogNeverMisreports'
<1> USE DEF LogInv
<1>1. /\ StaticPCRs \subseteq PCRs /\ DynamicPCRs \subseteq PCRs
      /\ 8 \notin DynamicPCRs
  BY DEF StaticPCRs, DynamicPCRs, PCRs
<1>2. \A p \in PCRs : pcr[p] \in Seq(Digests) /\ Replayed(event_log)[p] \in Seq(Digests)
  BY ReplayedType DEF MeasuredBootTypeOK, Banks
<1>3. MeasuredBootTypeOK'
  BY MeasureType
<1>4. \A p \in PCRs : pcr'[p] \in Seq(Digests)
  BY <1>3 DEF MeasuredBootTypeOK
<1>5. CASE Len(event_log) < MaxEvents
  <2>1. ASSUME NEW p \in StaticPCRs \ {8} PROVE Replayed(event_log')[p] = pcr'[p]
    <3>1. Replayed(event_log)[p] = pcr[p]
      BY <1>5 DEF LogExplainsBank, VerifyPcr
    <3>2. QED
      BY <1>1, <1>5, <3>1, MeasureWithRoom
  <2>2. ASSUME NEW p \in DynamicPCRs PROVE Ends(pcr'[p], Replayed(event_log')[p])
    <3>1. Ends(pcr[p], Replayed(event_log)[p]) /\ p \in PCRs /\ p # 8
      BY <1>1, <1>5 DEF LogExplainsBank
    <3>2. Ends(Append(pcr[p], d), Append(Replayed(event_log)[p], d))
      BY <1>2, <3>1, EndsAppend
    <3>3. QED
      BY <1>5, <3>1, <3>2, MeasureWithRoom
  <2>3. LogExplainsBank'
    BY <2>1, <2>2 DEF LogExplainsBank, VerifyPcr
  <2>4. LogNeverMisreports'
    BY <1>1, <1>4, <2>1, BeginsReflexive DEF LogNeverMisreports
  <2>5. QED
    BY <2>3, <2>4
<1>6. CASE ~(Len(event_log) < MaxEvents)
  <2>1. event_log' = event_log
    BY <1>6, MeasureStep, EventLogAddType DEF MeasuredBootTypeOK
  <2>2. LogExplainsBank'
    BY <1>6, <2>1 DEF LogExplainsBank
  <2>3. ASSUME NEW p \in StaticPCRs \ {8}
        PROVE  Begins(Replayed(event_log)[p], pcr'[p])
    <3>1. Begins(Replayed(event_log)[p], pcr[p])
      BY DEF LogNeverMisreports
    <3>2. Replayed(event_log)[p] \in Seq(Digests)
      BY <1>1, <1>2
    <3>3. QED
      BY <3>1, <3>2, StaticGrows
  <2>4. LogNeverMisreports'
    BY <2>1, <2>3 DEF LogNeverMisreports
  <2>5. QED
    BY <2>2, <2>4
<1>7. QED
  BY <1>5, <1>6

LEMMA ResetExplains ==
  ASSUME LogInv, NEW r \in PCRs, PcrReset(r)
  PROVE  LogExplainsBank' /\ LogNeverMisreports'
<1> USE DEF LogInv
<1>1. r \in DynamicPCRs /\ pcr' = [pcr EXCEPT ![r] = << >>] /\ event_log' = event_log
  BY DEF PcrReset, Resettable
<1>2. \A p \in PCRs \ {r} : pcr'[p] = pcr[p]
  BY <1>1 DEF MeasuredBootTypeOK
<1>3. pcr'[r] = << >>
  BY <1>1 DEF MeasuredBootTypeOK
<1>4. Ends(<< >>, Replayed(event_log)[r])
  BY ReplayedType, EmptyEnds DEF MeasuredBootTypeOK, Banks
<1>5. /\ \A p \in StaticPCRs : p \in PCRs \ {r}
      /\ \A p \in DynamicPCRs : p \in PCRs
  BY <1>1 DEF StaticPCRs, DynamicPCRs, PCRs
<1>6. LogExplainsBank'
  BY <1>1, <1>2, <1>3, <1>4, <1>5 DEF LogExplainsBank, VerifyPcr
<1>7. LogNeverMisreports'
  BY <1>1, <1>2, <1>5 DEF LogNeverMisreports
<1>8. QED
  BY <1>6, <1>7

LEMMA LogInvStep == LogInv /\ [Next]_vars => LogInv'
<1> SUFFICES ASSUME LogInv, [Next]_vars PROVE LogInv'
  OBVIOUS
<1>1. MeasuredBootTypeOK'
  BY TypeStep DEF LogInv
<1>2. ASSUME NEW stage \in Stages, NEW d \in Digests, Measure(stage, d)
      PROVE  LogExplainsBank' /\ LogNeverMisreports'
  BY <1>2, MeasureExplains
<1>3. ASSUME NEW p \in PCRs, PcrReset(p)
      PROVE  LogExplainsBank' /\ LogNeverMisreports'
  BY <1>3, ResetExplains
<1>4. CASE PlatformReboots
  <2>1. event_log' = << >> /\ pcr' = [p \in PCRs |-> << >>]
    BY <1>4 DEF PlatformReboots, PlatformReset, PowerOn
  <2>2. LogExplainsBank' /\ LogNeverMisreports'
    <3>1. (MeasuredBootTypeOK /\ event_log = << >> /\ pcr = [p \in PCRs |-> << >>]
            => LogExplainsBank /\ LogNeverMisreports)'
      BY LogRestarts, PTL
    <3>2. QED
      BY <1>1, <2>1, <3>1
  <2>3. QED
    BY <1>1, <2>2 DEF LogInv
<1>5. CASE UNCHANGED mvars
  BY <1>5 DEF mvars, LogInv, MeasuredBootTypeOK, LogExplainsBank,
              LogNeverMisreports, VerifyPcr
<1>6. QED
  BY <1>1, <1>2, <1>3, <1>4, <1>5, PlatformCases DEF LogInv

LEMMA LogInvHolds == Spec => []LogInv
<1>1. Init => LogInv
  <2> SUFFICES ASSUME Init PROVE LogInv
    OBVIOUS
  <2>1. event_log = << >> /\ pcr = [p \in PCRs |-> << >>]
    BY DEF Init, MeasuredBootInit, PowerOn
  <2>2. QED
    BY <2>1, TypeInit, LogRestarts DEF LogInv
<1>2. QED
  BY <1>1, LogInvStep, PTL DEF Spec

\* While the log has room, a verifier that replays it gets the value of every
\* static PCR but 8, and of each dynamic PCR what was logged since its reset.
THEOREM LogExplains == Spec => []LogExplainsBank
<1>1. LogInv => LogExplainsBank
  BY DEF LogInv
<1>2. QED
  BY <1>1, LogInvHolds, PTL

\* Once the log is full, what it replays to is still how each static PCR began.
THEOREM LogStaysTrue == Spec => []LogNeverMisreports
<1>1. LogInv => LogNeverMisreports
  BY DEF LogInv
<1>2. QED
  BY <1>1, LogInvHolds, PTL

-----------------------------------------------------------------------------
(* Quotes.                                                                 *)

\* What a quote that can still arrive says, and what became of the platform
\* since: a quote of the running boot shows how each static PCR began.
QuoteSound(q) ==
  /\ q.made_during \in Nat /\ q.made_during <= boot
  /\ DOMAIN q.pcr_values = q.pcr_indices
  /\ \A p \in q.pcr_indices \cap StaticPCRs :
       /\ q.pcr_values[p] \in Seq(Digests)
       /\ q.made_during = boot => Begins(q.pcr_values[p], pcr[p])

QuoteInv ==
  /\ MeasuredBootTypeOK
  /\ boot \in Nat
  /\ \A q \in quotes : QuoteSound(q)

\* A step within a boot that makes no quote keeps every quote sound.
LEMMA QuotesStaySound ==
  ASSUME QuoteInv, MeasuredBootTypeOK', UNCHANGED <<quotes, boot>>,
         \/ \E stage \in Stages, d \in Digests : Measure(stage, d)
         \/ \E r \in PCRs : PcrReset(r)
         \/ UNCHANGED mvars
  PROVE  QuoteInv'
<1>1. ASSUME NEW q \in quotes, NEW p \in q.pcr_indices \cap StaticPCRs,
             q.made_during = boot
      PROVE  Begins(q.pcr_values[p], pcr'[p])
  <2>1. q.pcr_values[p] \in Seq(Digests) /\ Begins(q.pcr_values[p], pcr[p])
    BY <1>1 DEF QuoteInv, QuoteSound
  <2>2. QED
    BY <2>1, StaticGrows DEF QuoteInv
<1>2. \A q \in quotes : QuoteSound(q)'
  BY <1>1 DEF QuoteInv, QuoteSound
<1>3. quotes' = quotes /\ boot' = boot
  OBVIOUS
<1>4. \A q \in quotes' : QuoteSound(q)'
  BY <1>2, <1>3
<1>5. QED
  BY <1>3, <1>4 DEF QuoteInv

LEMMA CreateQuoteSound ==
  ASSUME QuoteInv, MeasuredBootTypeOK', CreateQuote PROVE QuoteInv'
<1> DEFINE indices == challenge.pcr_indices
           q == [nonce       |-> challenge.nonce,
                 pcr_indices |-> indices,
                 pcr_values  |-> QuotedValues(indices),
                 made_in     |-> round,
                 made_during |-> boot]
<1>1. quotes' = quotes \cup {q} /\ UNCHANGED <<pcr, boot>>
  BY DEF CreateQuote, mvars
<1>2. QuoteSound(q)
  <2>1. ASSUME NEW p \in indices \cap StaticPCRs
        PROVE  /\ QuotedValues(indices)[p] \in Seq(Digests)
               /\ Begins(QuotedValues(indices)[p], pcr[p])
    <3>1. QuotedValues(indices)[p] = pcr[p] /\ pcr[p] \in Seq(Digests)
      BY DEF QuotedValues, QuoteInv, MeasuredBootTypeOK, StaticPCRs
    <3>2. QED
      BY <3>1, BeginsReflexive
  <2>2. DOMAIN QuotedValues(indices) = indices
    BY DEF QuotedValues
  <2>3. /\ q.made_during = boot /\ q.pcr_indices = indices
        /\ q.pcr_values = QuotedValues(indices) /\ boot \in Nat
    BY DEF QuoteInv
  <2> HIDE DEF q, indices
  <2>4. QED
    BY <2>1, <2>2, <2>3 DEF QuoteSound
<1> HIDE DEF q
<1>3. \A r \in quotes' : QuoteSound(r)
  BY <1>1, <1>2 DEF QuoteInv
<1>4. \A r \in quotes' : QuoteSound(r)'
  BY <1>1, <1>3 DEF QuoteSound
<1>5. QED
  BY <1>1, <1>4 DEF QuoteInv

LEMMA QuoteInvStep == QuoteInv /\ [Next]_vars => QuoteInv'
<1> SUFFICES ASSUME QuoteInv, [Next]_vars PROVE QuoteInv'
  OBVIOUS
<1>1. MeasuredBootTypeOK'
  BY TypeStep DEF QuoteInv
<1>2. CASE \E indices \in IndexSets : GenerateChallenge(indices)
  BY <1>1, <1>2, QuotesStaySound DEF GenerateChallenge
<1>3. CASE CreateQuote
  BY <1>1, <1>3, CreateQuoteSound
<1>4. CASE \E p \in GoldenPCRs : SetGoldenPcr(p)
  BY <1>1, <1>4, QuotesStaySound DEF SetGoldenPcr
<1>5. CASE PlatformMeasures
  BY <1>1, <1>5, QuotesStaySound DEF PlatformMeasures, avars
<1>6. CASE PlatformReboots
  <2>1. boot' = boot + 1 /\ quotes' = quotes
    BY <1>6 DEF PlatformReboots
  <2>2. boot' \in Nat
    BY <2>1 DEF QuoteInv
  <2>3. \A q \in quotes : QuoteSound(q)'
    BY <2>1 DEF QuoteInv, QuoteSound
  <2>4. \A q \in quotes' : QuoteSound(q)'
    BY <2>1, <2>3
  <2>5. QED
    BY <1>1, <2>2, <2>4 DEF QuoteInv
<1>7. CASE UNCHANGED vars
  BY <1>1, <1>7, QuotesStaySound DEF vars, avars
<1>8. QED
  BY <1>2, <1>3, <1>4, <1>5, <1>6, <1>7 DEF Next

\* A response that is accepted, however late, answers for every PCR the
\* verifier now asks for and has a golden value for; if it was made in the
\* running boot, this boot went through the golden measurements.
THEOREM AcceptanceVouches == Spec => []AcceptedVouches
<1>1. Init => QuoteInv
  <2> SUFFICES ASSUME Init PROVE QuoteInv
    OBVIOUS
  <2>1. boot \in Nat /\ quotes = {}
    BY DEF Init
  <2>2. QED
    BY <2>1, TypeInit DEF QuoteInv
<1>2. QuoteInv => AcceptedVouches
  <2> SUFFICES ASSUME QuoteInv, NEW q \in Accepted
               PROVE  /\ \A p \in challenge.pcr_indices \cap GoldenPCRs : golden[p] # None =>
                           p \in DOMAIN q.pcr_values /\ q.pcr_values[p] = golden[p]
                      /\ q.made_during = boot =>
                           \A p \in q.pcr_indices \cap GoldenPCRs \cap StaticPCRs :
                             golden[p] # None => Begins(golden[p], pcr[p])
    BY DEF AcceptedVouches, AcceptedCoversChallenge, AcceptedMeansMeasured
  <2>1. q \in quotes /\ VerifyIntegrity(q)
    BY DEF Accepted
  <2>2. QuoteSound(q)
    BY <2>1 DEF QuoteInv
  <2>3. /\ q.pcr_indices = challenge.pcr_indices
        /\ \A p \in q.pcr_indices \cap GoldenPCRs :
             golden[p] # None => q.pcr_values[p] = golden[p]
    BY <2>1 DEF VerifyIntegrity, VerifyQuote
  <2>4. QED
    BY <2>2, <2>3 DEF QuoteSound
<1>3. QED
  BY <1>1, <1>2, QuoteInvStep, PTL DEF Spec
=============================================================================
