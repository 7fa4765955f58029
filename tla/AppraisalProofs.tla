--------------------------- MODULE AppraisalProofs ---------------------------
(***************************************************************************)
(* What holds of mini-boot-attestation, its service, RATS roles, event logs *)
(* and Merkle trees, for all devices, answers, references and bounds; and   *)
(* what therefore holds of MCTpm, which puts the parts together.            *)
(***************************************************************************)
EXTENDS MCTpm, TpmProofs

-----------------------------------------------------------------------------
(* The attestation service.                                                *)

DbEntry ==
  [device : Devices, expected : Expectations, result : {"TRUSTED", "UNTRUSTED", "UNKNOWN"},
   fails : Nat, locked : BOOLEAN]

JournalEntry ==
  [device : Devices \cup {AcceptedAik}, kind : {"reset", "trusted", "refused", "accepted"},
   to : Nat, asked : Nat]

ServiceTypes ==
  /\ asNow \in Nat
  /\ challenges \in Seq([second : Nat, id : Nat])
  /\ db \in Seq(DbEntry)
  /\ journal \in Seq(JournalEntry)

(* Entries of the data base.                                               *)

\* f is the first entry of device d, or 0.
IsFound(d, f) ==
  \/ f = 0 /\ \A i \in 1 .. Len(db) : db[i].device # d
  \/ /\ f \in 1 .. Len(db) /\ db[f].device = d
     /\ \A i \in 1 .. Len(db) : db[i].device = d => f <= i

AllFound == \A d \in Devices : IsFound(d, FindDevice(d))

LEMMA SearchFinds == ServiceTypes => AllFound
<1> SUFFICES ASSUME ServiceTypes, NEW d \in Devices PROVE IsFound(d, FindDevice(d))
  BY DEF AllFound
<1> DEFINE at == {i \in 1 .. Len(db) : db[i].device = d}
<1>1. FindDevice(d) = IF at # {} THEN CHOOSE i \in at : \A j \in at : i =< j ELSE 0
  BY DEF FindDevice, SelectInSeq, Min
<1>2. Len(db) \in Nat /\ at \in SUBSET Nat
  BY DEF ServiceTypes
<1>3. CASE at = {}
  BY <1>1, <1>3 DEF IsFound
<1>4. CASE at # {}
  <2>1. \E i \in at : \A j \in at : i <= j
    <3> HIDE DEF at
    <3>1. QED
      BY <1>2, <1>4, LeastNatural
  <2>2. FindDevice(d) \in at /\ \A j \in at : FindDevice(d) <= j
    <3> HIDE DEF at
    <3>1. QED
      BY <1>1, <1>4, <2>1
  <2>3. QED
    BY <2>2 DEF IsFound
<1>5. QED
  BY <1>3, <1>4

LEMMA FoundOnce ==
  ASSUME ServiceTypes, NEW d, NEW f, NEW g, IsFound(d, f), IsFound(d, g)
  PROVE  f = g
<1>1. Len(db) \in Nat
  BY DEF ServiceTypes
<1>2. QED
  BY <1>1 DEF IsFound

(* The journal.                                                            *)

Appended(note, n, m) ==
  /\ n \in Nat /\ m = n + 1
  /\ DOMAIN journal = 1 .. n
  /\ DOMAIN journal' = 1 .. m
  /\ journal'[m] = note
  /\ \A k \in 1 .. n : journal'[k] = journal[k]

LEMMA JournalAppend ==
  ASSUME ServiceTypes, NEW note \in JournalEntry, journal' = Append(journal, note)
  PROVE  journal' \in Seq(JournalEntry) /\ Appended(note, Len(journal), Len(journal) + 1)
BY DEF ServiceTypes, Appended

\* A note about another device, or one that is no judgement, changes nothing for d.
LEMMA OthersJudged ==
  ASSUME NEW note, NEW n, NEW m, Appended(note, n, m), NEW d,
         note.device # d \/ note.kind = "accepted"
  PROVE  Judged(d)' = Judged(d) /\ Refused(d)' = Refused(d)
<1>1. ASSUME NEW kinds, "accepted" \notin kinds PROVE JournalOf(d, kinds)' = JournalOf(d, kinds)
  <2>1. m \notin JournalOf(d, kinds)'
    BY <1>1 DEF Appended, JournalOf
  <2>2. \A k \in 1 .. n : k \in 1 .. m /\ journal'[k] = journal[k]
    BY DEF Appended
  <2>3. \A k \in 1 .. m : k = m \/ k \in 1 .. n
    BY DEF Appended
  <2>4. QED
    BY <2>1, <2>2, <2>3 DEF Appended, JournalOf
<1>2. Judged(d)' = Judged(d)
  <2>1. /\ JournalOf(d, {"trusted", "refused"})' = JournalOf(d, {"trusted", "refused"})
        /\ JournalOf(d, {"reset"})' = JournalOf(d, {"reset"})
    BY <1>1
  <2>2. QED
    BY <2>1 DEF Judged
<1>3. \A k \in Judged(d) : journal'[k] = journal[k]
  BY DEF Judged, JournalOf, Appended
<1>4. QED
  BY <1>2, <1>3 DEF Refused

\* Clearing a device forgets what was judged of it.
LEMMA ResetJudges ==
  ASSUME NEW note, NEW n, NEW m, Appended(note, n, m), NEW d,
         note.device = d, note.kind = "reset"
  PROVE  Judged(d)' = {} /\ Refused(d)' = {}
<1>1. m \in JournalOf(d, {"reset"})'
  BY DEF Appended, JournalOf
<1>2. \A k \in JournalOf(d, {"trusted", "refused"})' : k \in 1 .. m
  BY DEF Appended, JournalOf
<1>3. \A k \in 1 .. m : ~(m < k)
  BY DEF Appended
<1>4. Judged(d)' = {}
  BY <1>1, <1>2, <1>3 DEF Judged
<1>5. QED
  BY <1>4 DEF Refused

\* A judgement is the last of what was judged; a refusal adds to the refusals, an
\* answer that is trusted ends them.
LEMMA NoteJudges ==
  ASSUME NEW note, NEW n, NEW m, Appended(note, n, m), NEW d,
         note.device = d, note.kind \in {"trusted", "refused"}
  PROVE  /\ Judged(d)' = Judged(d) \cup {m}
         /\ note.kind = "trusted" => Refused(d)' = {}
         /\ note.kind = "refused" => Refused(d)' = Refused(d) \cup {m}
         /\ m \notin Refused(d)
<1>1. /\ n \in Nat /\ m \in Nat /\ m = n + 1 /\ m \in 1 .. m
      /\ \A k \in 1 .. n : k \in 1 .. m /\ k < m /\ k # m
      /\ \A k \in 1 .. m : k = m \/ k \in 1 .. n
  BY DEF Appended
<1>2. JournalOf(d, {"trusted", "refused"})' = JournalOf(d, {"trusted", "refused"}) \cup {m}
  BY <1>1 DEF Appended, JournalOf
<1>3. JournalOf(d, {"reset"})' = JournalOf(d, {"reset"})
  <2>1. m \notin JournalOf(d, {"reset"})'
    BY DEF Appended, JournalOf
  <2>2. QED
    BY <1>1, <2>1 DEF Appended, JournalOf
<1>4. \A k \in JournalOf(d, {"reset"}) : k \in 1 .. n
  BY DEF Appended, JournalOf
<1>5. Judged(d)' = Judged(d) \cup {m}
  BY <1>1, <1>2, <1>3, <1>4 DEF Judged
<1>6. Judged(d) \subseteq 1 .. n
  BY DEF Judged, JournalOf, Appended
<1>7. /\ \A k \in Judged(d) : journal'[k] = journal[k] /\ k < m /\ ~(m < k) /\ k # m
      /\ journal'[m] = note
      /\ ~(m < m)
  BY <1>1, <1>6 DEF Appended
<1>8. ASSUME note.kind = "trusted" PROVE Refused(d)' = {}
  BY <1>5, <1>7, <1>8 DEF Refused
<1>9. ASSUME note.kind = "refused" PROVE Refused(d)' = Refused(d) \cup {m}
  BY <1>5, <1>7, <1>9 DEF Refused
<1>10. m \notin Refused(d)
  BY <1>7 DEF Refused
<1>11. QED
  BY <1>5, <1>8, <1>9, <1>10

-----------------------------------------------------------------------------
(* The invariant.                                                          *)

\* The first entry of a device tells what was judged of it; one hidden behind it
\* was never touched.
Earned(i) ==
  LET d == db[i].device
  IN  IF i = FindDevice(d)
      THEN /\ db[i].fails = Cardinality(Refused(d))
           /\ db[i].result = IF Judged(d) = {} THEN "UNKNOWN"
                             ELSE IF Refused(d) = {} THEN "TRUSTED" ELSE "UNTRUSTED"
      ELSE db[i].result = "UNKNOWN" /\ db[i].fails = 0 /\ ~db[i].locked

\* What is not registered was never judged.
Unjudged(d) == FindDevice(d) = 0 => Judged(d) = {}

ResultsEarned ==
  /\ \A d \in Devices : Unjudged(d) /\ IsFiniteSet(Refused(d))
  /\ \A i \in DOMAIN db : Earned(i)

\* Nonces are those of the challenges that answers were made for.
NoncesTold ==
  /\ \A c \in DOMAIN challenges : challenges[c].id = (c - 1) % IdSpan
  /\ \A r \in replies : r.to \in DOMAIN challenges /\ r.nonce = challenges[r.to]

FreshlyJudged(note) ==
  note.kind \in {"trusted", "accepted"} =>
    /\ {note.to, note.asked} \subseteq DOMAIN challenges
    /\ challenges[note.to] = challenges[note.asked]
    /\ note.kind = "accepted" => note.device = AcceptedAik

JudgedFreshly == \A j \in DOMAIN journal : FreshlyJudged(journal[j])

ServiceInv == ServiceTypes /\ ResultsEarned /\ NoncesTold /\ JudgedFreshly

LEMMA SameRemainder ==
  ASSUME NEW a \in Int, NEW b \in Int, NEW n \in Nat \ {0}, a % n = b % n
  PROVE  (a - b) % n = 0
<1> DEFINE p == a \div n
           q == b \div n
           r == a % n
<1>1. p \in Int /\ q \in Int /\ a = n * p + r /\ b = n * q + r /\ r \in Int
  OBVIOUS
<1> HIDE DEF p, q, r
<1>2. n * p \in Int /\ n * q \in Int /\ n * p - n * q = n * (p - q)
  BY <1>1
<1>3. a - b = n * (p - q)
  BY <1>1, <1>2
<1>4. \A k \in Int : (n * k) % n = 0
  OBVIOUS
<1>5. QED
  BY <1>1, <1>3, <1>4

LEMMA InvEarns == ServiceInv => VerdictsAreEarned
<1> SUFFICES ASSUME ServiceInv PROVE VerdictsAreEarned
  OBVIOUS
<1>1. \A i \in DOMAIN db : Earned(i)
  BY DEF ServiceInv, ResultsEarned
<1>2. ASSUME NEW j \in DOMAIN journal, journal[j].kind \in {"trusted", "accepted"}
      PROVE  /\ challenges[journal[j].to].second = challenges[journal[j].asked].second
             /\ (journal[j].to - journal[j].asked) % IdSpan = 0
             /\ journal[j].kind = "accepted" => journal[j].device = AcceptedAik
  <2> DEFINE to == journal[j].to
             asked == journal[j].asked
  <2>1. /\ to \in DOMAIN challenges /\ asked \in DOMAIN challenges
        /\ challenges[to] = challenges[asked]
        /\ journal[j].kind = "accepted" => journal[j].device = AcceptedAik
    BY <1>2 DEF ServiceInv, JudgedFreshly, FreshlyJudged
  <2> HIDE DEF to, asked
  <2>2. (to - 1) % IdSpan = (asked - 1) % IdSpan
    BY <2>1 DEF ServiceInv, NoncesTold
  <2>3. to - 1 \in Int /\ asked - 1 \in Int /\ (to - 1) - (asked - 1) = to - asked
    BY <2>1 DEF ServiceInv, ServiceTypes
  <2>4. (to - asked) % IdSpan = 0
    BY <2>2, <2>3, SameRemainder, ServiceAssumption
  <2>5. QED
    BY <2>1, <2>4 DEF to, asked
<1>3. QED
  BY <1>1, <1>2 DEF VerdictsAreEarned, Earned

(* Steps.                                                                  *)

LEMMA EntriesKnown ==
  ASSUME ServiceTypes
  PROVE  /\ DOMAIN db = 1 .. Len(db) /\ Len(db) \in Nat
         /\ \A i \in 1 .. Len(db) : db[i] \in DbEntry /\ db[i].device \in Devices
<1>1. \A e \in DbEntry : e.device \in Devices
  BY DEF DbEntry
<1>2. QED
  BY <1>1 DEF ServiceTypes

LEMMA SearchFindsNext == (ServiceTypes => AllFound)'
BY SearchFinds, PTL

\* As long as entries keep their devices, the first of a device stays the first.
LEMMA FirstStays ==
  ASSUME ServiceTypes, ServiceTypes', Len(db') = Len(db),
         \A i \in 1 .. Len(db) : db'[i].device = db[i].device,
         NEW d \in Devices
  PROVE  FindDevice(d)' = FindDevice(d)
<1> DEFINE f == FindDevice(d)
           g == FindDevice(d)'
<1>1. IsFound(d, f)
  BY SearchFinds DEF AllFound
<1>2. IsFound(d, FindDevice(d))'
  BY SearchFindsNext DEF AllFound
<1>3. \/ g = 0 /\ \A i \in 1 .. Len(db') : db'[i].device # d
      \/ /\ g \in 1 .. Len(db') /\ db'[g].device = d
         /\ \A i \in 1 .. Len(db') : db'[i].device = d => g <= i
  BY <1>2 DEF IsFound
<1> HIDE DEF f, g
<1>4. IsFound(d, g)
  BY <1>3 DEF IsFound
<1>5. f = g
  BY <1>1, <1>4, FoundOnce
<1>6. QED
  BY <1>5 DEF f, g

LEMMA JournalKept ==
  ASSUME UNCHANGED journal, NEW d
  PROVE  Judged(d)' = Judged(d) /\ Refused(d)' = Refused(d)
<1>1. ASSUME NEW kinds PROVE JournalOf(d, kinds)' = JournalOf(d, kinds)
  BY DEF JournalOf
<1>2. Judged(d)' = Judged(d)
  BY <1>1 DEF Judged
<1>3. QED
  BY <1>2 DEF Refused

\* Steps that leave the data base and the journal alone.
LEMMA KeptEarns ==
  ASSUME ServiceTypes, ServiceTypes', ResultsEarned, UNCHANGED <<db, journal>>
  PROVE  ResultsEarned'
<1>1. \A d \in Devices : FindDevice(d)' = FindDevice(d)
  BY FirstStays
<1>2. \A d \in Devices : Judged(d)' = Judged(d) /\ Refused(d)' = Refused(d)
  BY JournalKept
<1>3. ASSUME NEW d \in Devices PROVE Unjudged(d)' /\ IsFiniteSet(Refused(d))'
  BY <1>1, <1>2 DEF ResultsEarned, Unjudged
<1>4. ASSUME NEW i \in DOMAIN db' PROVE Earned(i)'
  <2>1. i \in DOMAIN db /\ Earned(i) /\ db'[i] = db[i] /\ db[i].device \in Devices
    BY EntriesKnown DEF ResultsEarned
  <2>2. QED
    BY <1>1, <1>2, <2>1 DEF Earned
<1>5. QED
  BY <1>3, <1>4 DEF ResultsEarned

\* Steps that change the first entry of a device and what the journal says of it.
LEMMA ChangeEarns ==
  ASSUME ServiceTypes, ServiceTypes', ResultsEarned,
         NEW d \in Devices, NEW entry \in DbEntry, entry.device = d,
         FindDevice(d) # 0, db' = [db EXCEPT ![FindDevice(d)] = entry],
         \A o \in Devices : o # d => Judged(o)' = Judged(o) /\ Refused(o)' = Refused(o),
         IsFiniteSet(Refused(d)'), entry.fails = Cardinality(Refused(d)'),
         entry.result = IF Judged(d)' = {} THEN "UNKNOWN"
                        ELSE IF Refused(d)' = {} THEN "TRUSTED" ELSE "UNTRUSTED"
  PROVE  ResultsEarned'
<1> DEFINE f == FindDevice(d)
<1>1. f \in 1 .. Len(db) /\ db[f].device = d
  BY SearchFinds DEF AllFound, IsFound
<1>2. /\ Len(db') = Len(db) /\ DOMAIN db' = DOMAIN db
      /\ db'[f] = entry /\ \A i \in 1 .. Len(db) : i # f => db'[i] = db[i]
  BY <1>1 DEF ServiceTypes
<1>3. \A i \in 1 .. Len(db) : db'[i].device = db[i].device
  BY <1>1, <1>2
<1>4. \A o \in Devices : FindDevice(o)' = FindDevice(o)
  BY <1>2, <1>3, FirstStays
<1>5. ASSUME NEW o \in Devices PROVE Unjudged(o)' /\ IsFiniteSet(Refused(o))'
  BY <1>4 DEF ResultsEarned, Unjudged
<1>6. ASSUME NEW i \in DOMAIN db' PROVE Earned(i)'
  <2>1. /\ i \in DOMAIN db /\ i \in 1 .. Len(db) /\ Earned(i) /\ db[i].device \in Devices
        /\ db'[i].device = db[i].device
    BY <1>2, <1>3, EntriesKnown DEF ResultsEarned
  <2>2. CASE i = f
    <3>1. db'[i] = entry /\ i = FindDevice(d)'
      BY <1>2, <1>4, <2>2
    <3> HIDE DEF f
    <3>2. QED
      BY <3>1 DEF Earned
  <2>3. CASE i # f
    <3>1. db'[i] = db[i]
      BY <1>2, <2>1, <2>3
    <3>2. CASE db[i].device = d
      <4>1. i # FindDevice(db[i].device)
        BY <2>3, <3>2
      <4>2. /\ i # FindDevice(d)' /\ db'[i].device = d
            /\ db[i].result = "UNKNOWN" /\ db[i].fails = 0 /\ ~db[i].locked
        BY <1>4, <2>1, <3>1, <3>2, <4>1 DEF Earned
      <4>3. QED
        BY <3>1, <4>2 DEF Earned
    <3>3. CASE db[i].device # d
      <4> DEFINE o == db[i].device
      <4>1. o \in Devices /\ FindDevice(o)' = FindDevice(o)
            /\ Judged(o)' = Judged(o) /\ Refused(o)' = Refused(o)
        BY <1>4, <2>1, <3>3
      <4>2. QED
        BY <2>1, <3>1, <4>1 DEF Earned
    <3>4. QED
      BY <3>2, <3>3
  <2>4. QED
    BY <2>2, <2>3
<1>7. QED
  BY <1>5, <1>6 DEF ResultsEarned

\* A new entry is the first of a device that was never judged, or is hidden.
LEMMA RegisterEarns ==
  ASSUME ServiceTypes, ServiceTypes', ResultsEarned, UNCHANGED journal,
         NEW entry \in DbEntry, db' = Append(db, entry),
         entry.result = "UNKNOWN", entry.fails = 0, ~entry.locked
  PROVE  ResultsEarned'
<1> DEFINE d == entry.device
           n == Len(db)
<1>1. /\ n \in Nat /\ Len(db') = n + 1 /\ db'[n + 1] = entry /\ d \in Devices
      /\ \A i \in 1 .. n : db'[i] = db[i]
  BY DEF ServiceTypes, DbEntry
<1>2. \A o \in Devices : Judged(o)' = Judged(o) /\ Refused(o)' = Refused(o)
  BY JournalKept
<1>3. ASSUME NEW o \in Devices
      PROVE  /\ FindDevice(o) # 0 => FindDevice(o)' = FindDevice(o)
             /\ FindDevice(o) = 0 => FindDevice(o)' = IF o = d THEN n + 1 ELSE 0
  <2> DEFINE f == FindDevice(o)
             g == FindDevice(o)'
  <2>1. \/ f = 0 /\ \A i \in 1 .. n : db[i].device # o
        \/ /\ f \in 1 .. n /\ db[f].device = o
           /\ \A i \in 1 .. n : db[i].device = o => f <= i
    BY SearchFinds DEF AllFound, IsFound
  <2>2. IsFound(o, FindDevice(o))'
    BY SearchFindsNext DEF AllFound
  <2>3. \/ g = 0 /\ \A i \in 1 .. Len(db') : db'[i].device # o
        \/ /\ g \in 1 .. Len(db') /\ db'[g].device = o
           /\ \A i \in 1 .. Len(db') : db'[i].device = o => g <= i
    BY <2>2 DEF IsFound
  <2> HIDE DEF f, g
  <2>4. (f # 0 => g = f) /\ (f = 0 => g = IF o = d THEN n + 1 ELSE 0)
    <3> HIDE DEF n
    <3>1. \A i \in 1 .. n : i \in 1 .. (n + 1) /\ db'[i].device = db[i].device
      BY <1>1
    <3>2. \A i \in 1 .. (n + 1) : i = n + 1 \/ i \in 1 .. n
      BY <1>1
    <3>3. n + 1 \in 1 .. (n + 1) /\ db'[n + 1].device = d
      BY <1>1
    <3>4. CASE f = 0
      BY <1>1, <2>1, <2>3, <3>1, <3>2, <3>3, <3>4
    <3>5. CASE f # 0
      BY <1>1, <2>1, <2>3, <3>1, <3>2, <3>3, <3>5
    <3>6. QED
      BY <3>4, <3>5
  <2>5. QED
    BY <2>4 DEF f, g
<1>4. ASSUME NEW o \in Devices PROVE Unjudged(o)' /\ IsFiniteSet(Refused(o))'
  BY <1>2, <1>3, <1>4 DEF ResultsEarned, Unjudged
<1>5. ASSUME NEW i \in 1 .. n PROVE Earned(i)'
  <2> DEFINE o == db[i].device
  <2>1. /\ Earned(i) /\ o \in Devices /\ db'[i] = db[i] /\ IsFound(o, FindDevice(o))
    BY <1>1, SearchFinds, EntriesKnown DEF ResultsEarned, AllFound
  <2>2. FindDevice(o) # 0
    BY <2>1 DEF IsFound
  <2>3. /\ FindDevice(o)' = FindDevice(o)
        /\ Judged(o)' = Judged(o) /\ Refused(o)' = Refused(o)
    BY <1>2, <1>3, <2>1, <2>2
  <2>4. QED
    BY <2>1, <2>3 DEF Earned
<1>6. ASSUME NEW m, m = n + 1 PROVE Earned(m)'
  <2>1. CASE FindDevice(d) = 0
    <3>1. Judged(d)' = {} /\ FindDevice(d)' = m
      BY <1>1, <1>2, <1>3, <1>6, <2>1 DEF ResultsEarned, Unjudged
    <3>2. Refused(d)' = {}
      BY <3>1 DEF Refused
    <3>3. Cardinality(Refused(d)') = 0
      BY <3>2, FS_EmptySet
    <3>4. QED
      BY <1>1, <1>6, <3>1, <3>2, <3>3 DEF Earned
  <2>2. CASE FindDevice(d) # 0
    <3>1. IsFound(d, FindDevice(d)) /\ FindDevice(d)' = FindDevice(d)
      BY <1>1, <1>3, <2>2, SearchFinds DEF AllFound
    <3>2. FindDevice(d)' # m
      BY <1>1, <1>6, <2>2, <3>1 DEF IsFound
    <3>3. QED
      BY <1>1, <1>6, <3>2 DEF Earned
  <2>3. QED
    BY <2>1, <2>2
<1>7. \A i \in DOMAIN db' : i \in 1 .. n \/ i = n + 1
  BY <1>1 DEF ServiceTypes
<1>8. QED
  BY <1>4, <1>5, <1>6, <1>7 DEF ResultsEarned

\* The first entry of a device that was found, and what it tells.
LEMMA FoundEntry ==
  ASSUME ServiceTypes, ResultsEarned, NEW d \in Devices, FindDevice(d) # 0
  PROVE  /\ db[FindDevice(d)] \in DbEntry /\ db[FindDevice(d)].device = d
         /\ FindDevice(d) \in DOMAIN db
         /\ IsFiniteSet(Refused(d))
         /\ db[FindDevice(d)].fails = Cardinality(Refused(d))
         /\ db[FindDevice(d)].result =
              IF Judged(d) = {} THEN "UNKNOWN" ELSE IF Refused(d) = {} THEN "TRUSTED" ELSE "UNTRUSTED"
<1> DEFINE f == FindDevice(d)
<1>1. f \in 1 .. Len(db) /\ db[f].device = d
  BY SearchFinds DEF AllFound, IsFound
<1>2. f \in DOMAIN db /\ db[f] \in DbEntry
  BY <1>1, EntriesKnown
<1>3. Earned(f) /\ IsFiniteSet(Refused(d))
  BY <1>2 DEF ResultsEarned
<1>4. QED
  BY <1>1, <1>2, <1>3 DEF Earned

LEMMA EntryReplaced ==
  ASSUME ServiceTypes, NEW f, NEW entry \in DbEntry, db' = [db EXCEPT ![f] = entry]
  PROVE  db' \in Seq(DbEntry)
<1>1. Len(db) \in Nat /\ db \in [1 .. Len(db) -> DbEntry]
  BY DEF ServiceTypes
<1>2. db' \in [1 .. Len(db) -> DbEntry]
  BY <1>1
<1>3. QED
  BY <1>1, <1>2, SeqOfFunction

\* Notes that are made of an answer to a challenge with the nonce asked for.
LEMMA JournalStaysFresh ==
  ASSUME JudgedFreshly, UNCHANGED challenges, NEW note, NEW n, NEW m, Appended(note, n, m),
         FreshlyJudged(note)
  PROVE  JudgedFreshly'
<1>1. ASSUME NEW any, FreshlyJudged(any) PROVE FreshlyJudged(any)'
  BY <1>1 DEF FreshlyJudged
<1>2. ASSUME NEW j \in DOMAIN journal' PROVE FreshlyJudged(journal[j])' 
  <2>1. j = m \/ (j \in DOMAIN journal /\ journal'[j] = journal[j])
    BY DEF Appended
  <2>2. FreshlyJudged(journal'[j])
    BY <2>1 DEF JudgedFreshly, Appended
  <2>3. QED
    BY <2>2 DEF FreshlyJudged
<1>3. QED
  BY <1>2 DEF JudgedFreshly

LEMMA NothingJudged == ServiceTypes /\ UNCHANGED <<challenges, journal>> /\ JudgedFreshly => JudgedFreshly'
BY DEF JudgedFreshly, FreshlyJudged

LEMMA NoncesStay == UNCHANGED <<challenges, replies>> /\ NoncesTold => NoncesTold'
BY DEF NoncesTold

LEMMA ServiceStarts == ServiceInit => ServiceInv
<1> SUFFICES ASSUME ServiceInit PROVE ServiceInv
  OBVIOUS
<1>1. ServiceTypes
  BY DEF ServiceInit, ServiceTypes
<1>2. ASSUME NEW d PROVE Judged(d) = {} /\ Refused(d) = {}
  <2>1. Judged(d) = {}
    BY DEF ServiceInit, Judged, JournalOf
  <2>2. QED
    BY <2>1 DEF Refused
<1>3. ResultsEarned
  BY <1>2, FS_EmptySet DEF ServiceInit, ResultsEarned, Unjudged
<1>4. QED
  BY <1>1, <1>3 DEF ServiceInit, ServiceInv, NoncesTold, JudgedFreshly

LEMMA ChallengeKeeps == ServiceInv /\ ChallengeCreate => ServiceInv'
<1> SUFFICES ASSUME ServiceInv, ChallengeCreate PROVE ServiceInv'
  OBVIOUS
<1> DEFINE challenge == [second |-> asNow, id |-> Len(challenges) % IdSpan]
           n == Len(challenges)
<1>1. n \in Nat /\ n % IdSpan \in Nat
  BY ServiceAssumption DEF ServiceInv, ServiceTypes
<1>2. challenge \in [second : Nat, id : Nat]
  BY <1>1 DEF ServiceInv, ServiceTypes
<1>3. /\ challenges' \in Seq([second : Nat, id : Nat])
      /\ DOMAIN challenges = 1 .. n /\ DOMAIN challenges' = 1 .. (n + 1)
      /\ challenges'[n + 1] = challenge
      /\ \A c \in 1 .. n : challenges'[c] = challenges[c]
  BY <1>1, <1>2 DEF ChallengeCreate, ServiceInv, ServiceTypes
<1>4. ServiceTypes'
  BY <1>3 DEF ChallengeCreate, ServiceInv, ServiceTypes
<1>5. ResultsEarned'
  BY <1>4, KeptEarns DEF ChallengeCreate, ServiceInv
<1>6. NoncesTold'
  <2>1. ASSUME NEW c \in DOMAIN challenges' PROVE challenges'[c].id = (c - 1) % IdSpan
    <3>1. CASE c = n + 1
      BY <1>1, <1>3, <3>1
    <3>2. CASE c # n + 1
      <4>1. c \in DOMAIN challenges /\ challenges'[c] = challenges[c]
        BY <1>1, <1>3, <3>2
      <4>2. QED
        BY <4>1 DEF ServiceInv, NoncesTold
    <3>3. QED
      BY <3>1, <3>2
  <2>2. ASSUME NEW r \in replies PROVE r.to \in DOMAIN challenges' /\ r.nonce = challenges'[r.to]
    <3>1. r.to \in 1 .. n /\ r.nonce = challenges[r.to]
      BY <1>3 DEF ServiceInv, NoncesTold
    <3>2. QED
      BY <1>1, <1>3, <3>1
  <2>3. QED
    BY <2>1, <2>2 DEF NoncesTold, ChallengeCreate
<1>7. JudgedFreshly'
  <2>1. \A c \in DOMAIN challenges : c \in DOMAIN challenges' /\ challenges'[c] = challenges[c]
    BY <1>1, <1>3
  <2>2. QED
    BY <2>1 DEF ServiceInv, JudgedFreshly, FreshlyJudged, ChallengeCreate
<1>8. QED
  BY <1>4, <1>5, <1>6, <1>7 DEF ServiceInv

LEMMA ResponseKeeps ==
  ASSUME ServiceInv, NEW c \in DOMAIN challenges, NEW answer \in Answers, ResponseCreate(c, answer)
  PROVE  ServiceInv'
<1>1. ServiceTypes' /\ JudgedFreshly'
  BY NothingJudged DEF ResponseCreate, ServiceInv, ServiceTypes
<1>2. ResultsEarned'
  BY <1>1, KeptEarns DEF ResponseCreate, ServiceInv
<1>3. QuoteOf(c, answer).to = c /\ QuoteOf(c, answer).nonce = challenges[c]
  BY DEF QuoteOf
<1>4. NoncesTold'
  BY <1>3 DEF ResponseCreate, ServiceInv, NoncesTold
<1>5. QED
  BY <1>1, <1>2, <1>4 DEF ServiceInv

LEMMA RegisterKeeps ==
  ASSUME ServiceInv, NEW d \in Devices, NEW expected \in Expectations, RegisterDevice(d, expected)
  PROVE  ServiceInv'
<1> DEFINE entry == [device |-> d, expected |-> expected, result |-> "UNKNOWN",
                     fails |-> 0, locked |-> FALSE]
<1>1. entry \in DbEntry /\ db' = Append(db, entry) /\ UNCHANGED <<asNow, challenges, replies, journal>>
  BY DEF DbEntry, RegisterDevice
<1>2. entry.result = "UNKNOWN" /\ entry.fails = 0 /\ ~entry.locked
  OBVIOUS
<1> HIDE DEF entry
<1>3. ServiceTypes'
  BY <1>1 DEF ServiceInv, ServiceTypes
<1>4. ResultsEarned'
  BY <1>1, <1>2, <1>3, RegisterEarns DEF ServiceInv
<1>5. QED
  BY <1>1, <1>3, <1>4, NothingJudged, NoncesStay DEF ServiceInv

\* Ownership, locks and expectations change neither results nor counts.
LEMMA EditKeeps ==
  ASSUME ServiceInv, NEW d \in Devices, NEW entry \in DbEntry, ChangeDevice(d, entry),
         entry.device = d,
         entry.result = db[FindDevice(d)].result, entry.fails = db[FindDevice(d)].fails,
         UNCHANGED journal
  PROVE  ServiceInv'
<1>1. /\ FindDevice(d) # 0 /\ db' = [db EXCEPT ![FindDevice(d)] = entry]
      /\ UNCHANGED <<asNow, challenges, replies>>
  BY DEF ChangeDevice
<1>2. ServiceTypes'
  BY <1>1, EntryReplaced DEF ServiceInv, ServiceTypes
<1>3. \A o : Judged(o)' = Judged(o) /\ Refused(o)' = Refused(o)
  BY JournalKept
<1>4. ResultsEarned'
  BY <1>1, <1>2, <1>3, FoundEntry, ChangeEarns DEF ServiceInv
<1>5. QED
  BY <1>1, <1>2, <1>4, NothingJudged, NoncesStay DEF ServiceInv

LEMMA ClearDeviceKeeps ==
  ASSUME ServiceInv, NEW d \in Devices, ClearDevice(d)
  PROVE  ServiceInv'
<1> DEFINE f == FindDevice(d)
           entry == [db[f] EXCEPT !.fails = 0, !.result = "UNKNOWN", !.locked = FALSE]
           note == Note(d, "reset", 0, 0)
<1>1. /\ f # 0 /\ db' = [db EXCEPT ![f] = entry] /\ journal' = Append(journal, note)
      /\ UNCHANGED <<asNow, challenges, replies>>
  BY DEF ClearDevice, ChangeDevice
<1>2. db[f] \in DbEntry /\ db[f].device = d
  BY <1>1, FoundEntry DEF ServiceInv
<1>3. /\ entry \in DbEntry /\ entry.device = d
      /\ entry.fails = 0 /\ entry.result = "UNKNOWN"
  <2>1. ASSUME NEW e \in DbEntry
        PROVE  [e EXCEPT !.fails = 0, !.result = "UNKNOWN", !.locked = FALSE] \in DbEntry
    BY DEF DbEntry
  <2>2. QED
    BY <1>2, <2>1 DEF DbEntry
<1>4. note \in JournalEntry /\ note.device = d /\ note.kind = "reset"
  BY DEF Note, JournalEntry
<1> HIDE DEF entry, note
<1>5. journal' \in Seq(JournalEntry) /\ Appended(note, Len(journal), Len(journal) + 1)
  BY <1>1, <1>4, JournalAppend DEF ServiceInv
<1>6. ServiceTypes'
  <2>1. db' \in Seq(DbEntry)
    BY <1>1, <1>3, EntryReplaced DEF ServiceInv
  <2>2. QED
    BY <1>1, <1>5, <2>1 DEF ServiceInv, ServiceTypes
<1>7. /\ \A o \in Devices : o # d => Judged(o)' = Judged(o) /\ Refused(o)' = Refused(o)
      /\ Judged(d)' = {} /\ Refused(d)' = {}
  BY <1>4, <1>5, OthersJudged, ResetJudges
<1>8. IsFiniteSet(Refused(d)') /\ Cardinality(Refused(d)') = 0
  BY <1>7, FS_EmptySet
<1>9. ResultsEarned'
  BY <1>1, <1>3, <1>6, <1>7, <1>8, ChangeEarns DEF ServiceInv
<1>10. JudgedFreshly'
  <2>1. FreshlyJudged(note)
    BY <1>4 DEF FreshlyJudged
  <2>2. QED
    BY <1>1, <1>5, <2>1, JournalStaysFresh DEF ServiceInv
<1>11. QED
  BY <1>1, <1>6, <1>9, <1>10, NoncesStay DEF ServiceInv

LEMMA VerifyKeeps ==
  ASSUME ServiceInv, NEW d \in Devices, NEW reply \in replies, NEW c \in DOMAIN challenges,
         VerifyQuoteOf(d, reply, c)
  PROVE  ServiceInv'
<1> DEFINE f == FindDevice(d)
           trusted == AttestVerify(reply, c, db[f].expected, {})
           entry == [db[f] EXCEPT !.result = IF trusted THEN "TRUSTED" ELSE "UNTRUSTED",
                                  !.fails = IF trusted THEN 0 ELSE @ + 1]
           note == Note(d, IF trusted THEN "trusted" ELSE "refused", reply.to, c)
<1>1. /\ f # 0 /\ db' = [db EXCEPT ![f] = entry] /\ journal' = Append(journal, note)
      /\ UNCHANGED <<asNow, challenges, replies>>
  BY DEF VerifyQuoteOf, ChangeDevice
<1>2. /\ db[f] \in DbEntry /\ db[f].device = d
      /\ IsFiniteSet(Refused(d)) /\ db[f].fails = Cardinality(Refused(d))
  BY <1>1, FoundEntry DEF ServiceInv
<1>3. /\ reply.to \in DOMAIN challenges /\ reply.nonce = challenges[reply.to]
      /\ reply.to \in Nat /\ c \in Nat
  BY DEF ServiceInv, ServiceTypes, NoncesTold
<1>4. trusted => challenges[reply.to] = challenges[c]
  BY <1>3 DEF AttestVerify, Fresh
<1> HIDE DEF trusted
<1>5. /\ entry \in DbEntry /\ entry.device = d
      /\ trusted => entry.result = "TRUSTED" /\ entry.fails = 0
      /\ ~trusted => entry.result = "UNTRUSTED" /\ entry.fails = db[f].fails + 1
  <2> DEFINE result == IF trusted THEN "TRUSTED" ELSE "UNTRUSTED"
             fails == IF trusted THEN 0 ELSE db[f].fails + 1
  <2>1. \A e \in DbEntry : e.fails \in Nat /\ "result" \in DOMAIN e /\ "fails" \in DOMAIN e
    BY DEF DbEntry
  <2>2. entry = [db[f] EXCEPT !.result = result, !.fails = fails]
    BY <1>2, <2>1
  <2>3. result \in {"TRUSTED", "UNTRUSTED", "UNKNOWN"} /\ fails \in Nat
    BY <1>2, <2>1
  <2>4. ASSUME NEW e \in DbEntry, NEW r \in {"TRUSTED", "UNTRUSTED", "UNKNOWN"}, NEW k \in Nat
        PROVE  [e EXCEPT !.result = r, !.fails = k] \in DbEntry
    BY DEF DbEntry
  <2>5. ASSUME NEW e \in DbEntry, NEW r, NEW k
        PROVE  /\ [e EXCEPT !.result = r, !.fails = k].device = e.device
               /\ [e EXCEPT !.result = r, !.fails = k].result = r
               /\ [e EXCEPT !.result = r, !.fails = k].fails = k
    BY DEF DbEntry
  <2>6. /\ entry \in DbEntry /\ entry.device = db[f].device
        /\ entry.result = result /\ entry.fails = fails
    <3> DEFINE e == db[f]
    <3>1. e \in DbEntry /\ entry = [e EXCEPT !.result = result, !.fails = fails]
      BY <1>2, <2>2
    <3> HIDE DEF e, entry, result, fails
    <3>2. entry \in DbEntry
      BY <2>3, <2>4, <3>1
    <3>3. entry.device = e.device /\ entry.result = result /\ entry.fails = fails
      BY <2>5, <3>1
    <3>4. QED
      BY <3>2, <3>3 DEF e
  <2>7. QED
    BY <1>2, <2>6
<1>6. /\ note \in JournalEntry /\ note.device = d /\ note.to = reply.to /\ note.asked = c
      /\ trusted => note.kind = "trusted"
      /\ ~trusted => note.kind = "refused"
  BY <1>3 DEF Note, JournalEntry
<1> HIDE DEF entry, note
<1> DEFINE n == Len(journal)
           m == Len(journal) + 1
<1>7. journal' \in Seq(JournalEntry) /\ Appended(note, n, m)
  BY <1>1, <1>6, JournalAppend DEF ServiceInv
<1>8. ServiceTypes'
  <2>1. db' \in Seq(DbEntry)
    BY <1>1, <1>5, EntryReplaced DEF ServiceInv
  <2>2. QED
    BY <1>1, <1>7, <2>1 DEF ServiceInv, ServiceTypes
<1> HIDE DEF n, m
<1>9. /\ \A o \in Devices : o # d => Judged(o)' = Judged(o) /\ Refused(o)' = Refused(o)
      /\ Judged(d)' = Judged(d) \cup {m}
      /\ trusted => Refused(d)' = {}
      /\ ~trusted => Refused(d)' = Refused(d) \cup {m}
      /\ m \notin Refused(d)
  <2>1. note.kind \in {"trusted", "refused"}
    BY <1>6
  <2>2. /\ Judged(d)' = Judged(d) \cup {m}
        /\ note.kind = "trusted" => Refused(d)' = {}
        /\ note.kind = "refused" => Refused(d)' = Refused(d) \cup {m}
        /\ m \notin Refused(d)
    BY <1>6, <1>7, <2>1, NoteJudges
  <2>3. \A o \in Devices : o # d => Judged(o)' = Judged(o) /\ Refused(o)' = Refused(o)
    BY <1>6, <1>7, OthersJudged
  <2>4. QED
    BY <1>6, <2>2, <2>3
<1>10. IsFiniteSet(Refused(d)') /\ entry.fails = Cardinality(Refused(d)')
  <2>1. CASE trusted
    BY <1>5, <1>9, <2>1, FS_EmptySet
  <2>2. CASE ~trusted
    <3>1. /\ IsFiniteSet(Refused(d) \cup {m})
          /\ Cardinality(Refused(d) \cup {m}) = Cardinality(Refused(d)) + 1
      BY <1>2, <1>9, FS_AddElement
    <3>2. QED
      BY <1>2, <1>5, <1>9, <2>2, <3>1
  <2>3. QED
    BY <2>1, <2>2
<1>11. entry.result = IF Judged(d)' = {} THEN "UNKNOWN"
                      ELSE IF Refused(d)' = {} THEN "TRUSTED" ELSE "UNTRUSTED"
  BY <1>5, <1>9
<1>12. ResultsEarned'
  BY <1>1, <1>5, <1>8, <1>9, <1>10, <1>11, ChangeEarns DEF ServiceInv
<1>13. JudgedFreshly'
  <2>1. FreshlyJudged(note)
    BY <1>3, <1>4, <1>6 DEF FreshlyJudged
  <2>2. QED
    BY <1>1, <1>7, <2>1, JournalStaysFresh DEF ServiceInv
<1>14. QED
  BY <1>1, <1>8, <1>12, <1>13, NoncesStay DEF ServiceInv

LEMMA DirectKeeps ==
  ASSUME ServiceInv, NEW reply \in replies, NEW c \in DOMAIN challenges, NEW good,
         VerifyDirectly(reply, c, good)
  PROVE  ServiceInv'
<1> DEFINE note == Note(reply.signer, "accepted", reply.to, c)
<1>1. /\ journal' = Append(journal, note) /\ UNCHANGED <<asNow, challenges, replies, db>>
      /\ reply.nonce = challenges[c] /\ reply.signer = AcceptedAik
  BY DEF VerifyDirectly, AttestVerify, Fresh, SignatureHolds
<1>2. /\ reply.to \in DOMAIN challenges /\ reply.nonce = challenges[reply.to]
      /\ reply.to \in Nat /\ c \in Nat
  BY DEF ServiceInv, ServiceTypes, NoncesTold
<1>3. note \in JournalEntry /\ note.kind = "accepted" /\ FreshlyJudged(note)
  BY <1>1, <1>2 DEF Note, JournalEntry, FreshlyJudged
<1> HIDE DEF note
<1>4. journal' \in Seq(JournalEntry) /\ Appended(note, Len(journal), Len(journal) + 1)
  BY <1>1, <1>3, JournalAppend DEF ServiceInv
<1>5. ServiceTypes'
  BY <1>1, <1>4 DEF ServiceInv, ServiceTypes
<1>6. \A d \in Devices : Judged(d)' = Judged(d) /\ Refused(d)' = Refused(d)
  BY <1>3, <1>4, OthersJudged
<1>7. ResultsEarned'
  <2>1. \A d \in Devices : FindDevice(d)' = FindDevice(d)
    BY <1>1, <1>5, FirstStays DEF ServiceInv
  <2>2. ASSUME NEW d \in Devices PROVE Unjudged(d)' /\ IsFiniteSet(Refused(d))'
    BY <1>6, <2>1 DEF ServiceInv, ResultsEarned, Unjudged
  <2>3. ASSUME NEW i \in DOMAIN db' PROVE Earned(i)'
    <3>1. i \in DOMAIN db /\ Earned(i) /\ db'[i] = db[i] /\ db[i].device \in Devices
      BY <1>1, EntriesKnown DEF ServiceInv, ResultsEarned
    <3>2. QED
      BY <1>6, <2>1, <3>1 DEF Earned
  <2>4. QED
    BY <2>2, <2>3 DEF ResultsEarned
<1>8. QED
  BY <1>1, <1>3, <1>4, <1>5, <1>7, JournalStaysFresh, NoncesStay DEF ServiceInv

LEMMA ServiceStep == ServiceInv /\ [ServiceNext]_asvars => ServiceInv'
<1> SUFFICES ASSUME ServiceInv, [ServiceNext]_asvars PROVE ServiceInv'
  OBVIOUS
<1>1. ASSUME UNCHANGED <<challenges, replies, db, journal>>, asNow' \in Nat PROVE ServiceInv'
  <2>1. ServiceTypes'
    BY <1>1 DEF ServiceInv, ServiceTypes
  <2>2. QED
    BY <1>1, <2>1, KeptEarns, NothingJudged, NoncesStay DEF ServiceInv
<1>2. CASE ServiceTick
  BY <1>1, <1>2 DEF ServiceTick, ServiceInv, ServiceTypes
<1>3. ASSUME NEW d \in Devices, NEW entry \in DbEntry, entry.device = d,
             ChangeDevice(d, entry), UNCHANGED journal,
             entry.result = db[FindDevice(d)].result, entry.fails = db[FindDevice(d)].fails
      PROVE  ServiceInv'
  BY <1>3, EditKeeps
<1>4. ASSUME NEW d \in Devices, FindDevice(d) # 0
      PROVE  db[FindDevice(d)] \in DbEntry /\ db[FindDevice(d)].device = d
  BY <1>4, FoundEntry DEF ServiceInv
<1>5. ASSUME NEW d \in Devices, NEW expected \in Expectations, UpdateExpected(d, expected)
      PROVE  ServiceInv'
  <2>1. FindDevice(d) # 0 /\ UNCHANGED journal
    BY <1>5 DEF UpdateExpected, ChangeDevice
  <2>2. ASSUME NEW e \in DbEntry
        PROVE  /\ [e EXCEPT !.expected = expected] \in DbEntry
               /\ [e EXCEPT !.expected = expected].device = e.device
               /\ [e EXCEPT !.expected = expected].result = e.result
               /\ [e EXCEPT !.expected = expected].fails = e.fails
    BY DEF DbEntry
  <2>3. QED
    BY <1>3, <1>4, <1>5, <2>1, <2>2 DEF UpdateExpected
<1>6. ASSUME NEW d \in Devices, NEW lock \in BOOLEAN,
             ChangeDevice(d, [db[FindDevice(d)] EXCEPT !.locked = lock]), UNCHANGED journal
      PROVE  ServiceInv'
  <2>1. FindDevice(d) # 0
    BY <1>6 DEF ChangeDevice
  <2>2. ASSUME NEW e \in DbEntry
        PROVE  /\ [e EXCEPT !.locked = lock] \in DbEntry
               /\ [e EXCEPT !.locked = lock].device = e.device
               /\ [e EXCEPT !.locked = lock].result = e.result
               /\ [e EXCEPT !.locked = lock].fails = e.fails
    BY DEF DbEntry
  <2>3. QED
    BY <1>3, <1>4, <1>6, <2>1, <2>2
<1>7. ASSUME NEW d \in Devices, TakeOwnership(d) PROVE ServiceInv'
  BY <1>6, <1>7 DEF TakeOwnership
<1>8. ASSUME NEW d \in Devices, NEW lock \in BOOLEAN, LockDevice(d, lock) PROVE ServiceInv'
  BY <1>6, <1>8 DEF LockDevice
<1>9. CASE UNCHANGED asvars
  BY <1>1, <1>9 DEF asvars, ServiceInv, ServiceTypes
<1>10. QED
  BY <1>2, <1>5, <1>7, <1>8, <1>9, ChallengeKeeps, ResponseKeeps, RegisterKeeps, ClearDeviceKeeps,
     VerifyKeeps, DirectKeeps DEF ServiceNext

\* A device's first entry tells what was judged of it since it was cleared; an answer is
\* trusted only with the nonce of the challenge asked for, and accepted only from the AIK
\* that the verifier knows (attest_service_verify_quote, attest_service_clear_device,
\* attest_verify).
THEOREM VerdictsStayEarned == ServiceSpec => []VerdictsAreEarned
<1>1. ServiceInit => ServiceInv
  BY ServiceStarts
<1>2. ServiceInv /\ [ServiceNext]_asvars => ServiceInv'
  BY ServiceStep
<1>3. ServiceInv => VerdictsAreEarned
  BY InvEarns
<1>4. QED
  BY <1>1, <1>2, <1>3, PTL DEF ServiceSpec

-----------------------------------------------------------------------------
(* The RATS roles.                                                         *)

Verifier ==
  [refs : References \cup {<< >>}, since : Nat, fresh : BOOLEAN,
   rules : SUBSET {<<"firmware_version", quote.firmware>> : quote \in Quotes}]

EvidenceMade == \E S : evidence \in Seq(S)

\* Times do not run ahead of the clock.
RatsTimes ==
  /\ rtNow \in Nat
  /\ rtVerifier \in Verifier /\ rtVerifier.since <= rtNow
  /\ \A i \in DOMAIN evidence : evidence[i].time \in Nat /\ evidence[i].time <= rtNow

\* What was made before the references changed is older than they are.
OutdatedIsOlder ==
  \A i \in outdated : i \in DOMAIN evidence /\ evidence[i].time < rtVerifier.since

PassedWasFresh(p) ==
  /\ p.of \in DOMAIN evidence
  /\ p.fresh => p.at - evidence[p.of].time <= MaxAge
  /\ ReferencesMatch(evidence[p.of], p.refs)

RatsInv ==
  /\ EvidenceMade /\ RatsTimes /\ OutdatedIsOlder
  /\ \A p \in passed : PassedWasFresh(p)
  /\ relying.verified => \E p \in passed : p.of = relying.of

LEMMA RatsVerifies == RatsInv => VerifiedWasFresh
<1> SUFFICES ASSUME RatsInv PROVE VerifiedWasFresh
  OBVIOUS
<1>1. ASSUME NEW i \in outdated PROVE ~Appraise(evidence[i])
  <2>1. i \in DOMAIN evidence /\ evidence[i].time < rtVerifier.since
    BY DEF RatsInv, OutdatedIsOlder
  <2>2. evidence[i].time \in Nat /\ rtVerifier.since \in Nat
    BY <2>1 DEF RatsInv, RatsTimes, Verifier
  <2>3. QED
    BY <2>1, <2>2 DEF Appraise
<1>2. QED
  BY <1>1 DEF RatsInv, PassedWasFresh, VerifiedWasFresh

LEMMA RatsStarts == RatsInit => RatsInv
<1> SUFFICES ASSUME RatsInit PROVE RatsInv
  OBVIOUS
<1>1. << >> \in Seq({}) /\ DOMAIN << >> = {}
  OBVIOUS
<1>2. EvidenceMade
  BY <1>1 DEF RatsInit, EvidenceMade
<1>3. RatsTimes
  BY <1>1 DEF RatsInit, RatsTimes, Verifier
<1>4. QED
  BY <1>2, <1>3 DEF RatsInit, RatsInv, OutdatedIsOlder

\* What passed stays so when evidence is added or stays.
LEMMA EvidenceGrows ==
  ASSUME RatsInv, \A i \in DOMAIN evidence : i \in DOMAIN evidence' /\ evidence'[i] = evidence[i]
  PROVE  \A p \in passed : PassedWasFresh(p)'
<1> SUFFICES ASSUME NEW p \in passed PROVE PassedWasFresh(p)'
  OBVIOUS
<1>1. PassedWasFresh(p)
  BY DEF RatsInv
<1>2. p.of \in DOMAIN evidence' /\ evidence'[p.of] = evidence[p.of]
  BY <1>1 DEF PassedWasFresh
<1>3. QED
  BY <1>1, <1>2 DEF PassedWasFresh, ReferencesMatch

LEMMA GenerateKeeps ==
  ASSUME RatsInv, NEW quote, NEW extra, GenerateEvidence(quote, extra)
  PROVE  RatsInv'
<1>1. PICK e : evidence' = Append(evidence, e) /\ e.time = rtNow
  BY DEF GenerateEvidence
<1>2. UNCHANGED <<rtNow, rtVerifier, outdated, passed, relying>>
  BY DEF GenerateEvidence
<1>3. PICK S : evidence \in Seq(S)
  BY DEF RatsInv, EvidenceMade
<1>4. evidence \in Seq(S \cup {e}) /\ e \in S \cup {e}
  <2>1. Len(evidence) \in Nat /\ evidence \in [1 .. Len(evidence) -> S]
    BY <1>3
  <2>2. evidence \in [1 .. Len(evidence) -> S \cup {e}]
    BY <2>1
  <2>3. QED
    BY <2>1, <2>2, SeqOfFunction
<1> DEFINE n == Len(evidence)
<1>5. /\ n \in Nat /\ DOMAIN evidence = 1 .. n
      /\ evidence' \in Seq(S \cup {e}) /\ DOMAIN evidence' = 1 .. (n + 1)
      /\ evidence'[n + 1] = e /\ \A i \in 1 .. n : evidence'[i] = evidence[i]
  BY <1>1, <1>4
<1> HIDE DEF n
<1>6. \A i \in DOMAIN evidence : i \in DOMAIN evidence' /\ evidence'[i] = evidence[i]
  BY <1>5
<1>7. EvidenceMade'
  BY <1>5 DEF EvidenceMade
<1>8. RatsTimes'
  <2>1. ASSUME NEW i \in DOMAIN evidence'
        PROVE  evidence'[i].time \in Nat /\ evidence'[i].time <= rtNow
    <3>1. CASE i = n + 1
      BY <1>1, <1>5, <3>1 DEF RatsInv, RatsTimes
    <3>2. CASE i # n + 1
      BY <1>5, <3>2 DEF RatsInv, RatsTimes
    <3>3. QED
      BY <3>1, <3>2
  <2>2. QED
    BY <1>2, <2>1 DEF RatsInv, RatsTimes
<1>9. OutdatedIsOlder'
  BY <1>2, <1>6 DEF RatsInv, OutdatedIsOlder
<1>10. QED
  BY <1>2, <1>6, <1>7, <1>8, <1>9, EvidenceGrows DEF RatsInv

LEMMA RatsStep == RatsInv /\ [RatsNext]_rtvars => RatsInv'
<1> SUFFICES ASSUME RatsInv, [RatsNext]_rtvars PROVE RatsInv'
  OBVIOUS
<1>1. ASSUME UNCHANGED evidence
      PROVE  EvidenceMade' /\ \A p \in passed : PassedWasFresh(p)'
  BY <1>1, EvidenceGrows DEF RatsInv, EvidenceMade
<1>2. CASE RatsTick
  <2>1. RatsTimes' /\ OutdatedIsOlder'
    BY <1>2 DEF RatsTick, RatsInv, RatsTimes, Verifier, OutdatedIsOlder
  <2>2. QED
    BY <1>1, <1>2, <2>1 DEF RatsTick, RatsInv
<1>3. ASSUME NEW refs \in References, SetReference(refs) PROVE RatsInv'
  <2>1. rtVerifier' \in Verifier /\ rtVerifier'.since = rtNow
    <3>1. ASSUME NEW v \in Verifier, NEW t \in Nat
          PROVE  /\ [v EXCEPT !.refs = refs, !.since = t, !.fresh = TRUE] \in Verifier
                 /\ [v EXCEPT !.refs = refs, !.since = t, !.fresh = TRUE].since = t
      BY DEF Verifier
    <3>2. QED
      BY <1>3, <3>1 DEF SetReference, RatsInv, RatsTimes
  <2>2. RatsTimes' /\ OutdatedIsOlder'
    BY <1>3, <2>1 DEF SetReference, RatsInv, RatsTimes, OutdatedIsOlder
  <2>3. QED
    BY <1>1, <1>3, <2>2 DEF SetReference, RatsInv
<1>4. ASSUME NEW rule \in {<<"firmware_version", quote.firmware>> : quote \in Quotes}, SetRules({rule})
      PROVE  RatsInv'
  <2>1. rtVerifier' \in Verifier /\ rtVerifier'.since = rtVerifier.since
    <3>1. ASSUME NEW v \in Verifier
          PROVE  [v EXCEPT !.rules = {rule}] \in Verifier /\ [v EXCEPT !.rules = {rule}].since = v.since
      BY DEF Verifier
    <3>2. QED
      BY <1>4, <3>1 DEF SetRules, RatsInv, RatsTimes
  <2>2. RatsTimes' /\ OutdatedIsOlder'
    BY <1>4, <2>1 DEF SetRules, RatsInv, RatsTimes, OutdatedIsOlder
  <2>3. QED
    BY <1>1, <1>4, <2>2 DEF SetRules, RatsInv
<1>5. ASSUME NEW i \in DOMAIN evidence, AppraiseEvidence(i) PROVE RatsInv'
  <2> PICK now : now = [of |-> i, at |-> rtNow, refs |-> rtVerifier.refs, fresh |-> rtVerifier.fresh]
    OBVIOUS
  <2>1. /\ passed' = {p \in passed : p.of # i} \cup {now}
        /\ UNCHANGED <<rtNow, rtVerifier, evidence, outdated, relying>> /\ Appraise(evidence[i])
    BY <1>5 DEF AppraiseEvidence
  <2>2. PassedWasFresh(now)
    BY <2>1 DEF Appraise, PassedWasFresh
  <2>3. now.of = i
    OBVIOUS
  <2>4. PassedWasFresh(now)'
    BY <2>1, <2>2 DEF PassedWasFresh, ReferencesMatch
  <2>5. \A p \in passed' : PassedWasFresh(p)'
    BY <1>1, <2>1, <2>4
  <2>6. relying'.verified => \E p \in passed' : p.of = relying'.of
    BY <2>1, <2>3 DEF RatsInv
  <2>7. RatsTimes' /\ OutdatedIsOlder'
    BY <2>1 DEF RatsInv, RatsTimes, OutdatedIsOlder
  <2>8. QED
    BY <1>1, <2>1, <2>5, <2>6, <2>7 DEF RatsInv
<1>6. ASSUME NEW i \in DOMAIN evidence, NEW pass \in BOOLEAN, TellRelyingParty(i, pass)
      PROVE  RatsInv'
  <2>1. /\ UNCHANGED <<rtNow, rtVerifier, evidence, outdated, passed>>
        /\ relying'.verified => \E p \in passed' : p.of = relying'.of
    BY <1>6 DEF TellRelyingParty
  <2>2. RatsTimes' /\ OutdatedIsOlder'
    BY <2>1 DEF RatsInv, RatsTimes, OutdatedIsOlder
  <2>3. QED
    BY <1>1, <2>1, <2>2 DEF RatsInv
<1>7. CASE UNCHANGED rtvars
  <2>1. RatsTimes' /\ OutdatedIsOlder'
    BY <1>7 DEF rtvars, RatsInv, RatsTimes, OutdatedIsOlder
  <2>2. QED
    BY <1>1, <1>7, <2>1 DEF rtvars, RatsInv
<1>8. QED
  BY <1>2, <1>3, <1>4, <1>5, <1>6, <1>7, GenerateKeeps DEF RatsNext

\* What a relying party takes for verified passed an appraisal, fresh and in agreement
\* with the references of then; evidence from before references changed does not pass
\* (rats_appraise_evidence, rats_verifier_set_reference).
THEOREM VerifiedStaysFresh == RatsSpec => []VerifiedWasFresh
<1>1. RatsInit => RatsInv
  BY RatsStarts
<1>2. RatsInv /\ [RatsNext]_rtvars => RatsInv'
  BY RatsStep
<1>3. RatsInv => VerifiedWasFresh
  BY RatsVerifies
<1>4. QED
  BY <1>1, <1>2, <1>3, PTL DEF RatsSpec

-----------------------------------------------------------------------------
(* Evidence: the event log.                                                *)

LEMMA ParityFlips ==
  ASSUME NEW n \in Nat, NEW S \in SUBSET (1 .. n), NEW i \in S
  PROVE  ~(Cardinality(S) % 2 = 1 <=> Cardinality(S \ {i}) % 2 = 1)
<1>1. IsFiniteSet(S)
  BY UpToCardinality, FS_Subset
<1>2. PICK k : k = Cardinality(S \ {i})
  OBVIOUS
<1>3. k \in Nat /\ Cardinality(S) = k + 1
  <2>1. Cardinality(S \ {i}) = Cardinality(S) - 1 /\ IsFiniteSet(S \ {i})
    BY <1>1, FS_RemoveElement
  <2>2. Cardinality(S) \in Nat /\ Cardinality(S \ {i}) \in Nat
    BY <1>1, <2>1, FS_CardinalityType
  <2>3. QED
    BY <1>2, <2>1, <2>2
<1>4. ~((k + 1) % 2 = 1 <=> k % 2 = 1)
  BY <1>3
<1>5. QED
  BY <1>2, <1>3, <1>4

\* What the entry at i had in a field that changes occurs once less.
LEMMA PartsTell ==
  ASSUME NEW entries \in Seq(Event), NEW i \in DOMAIN entries,
         NEW event \in Event \ {entries[i]}
  PROVE  Parts([entries EXCEPT ![i] = event]) # Parts(entries)
<1> DEFINE At(log, field, v) == {j \in DOMAIN log : log[j][field] = v}
           All == {"pcr"} \X EvPcrs \cup {"type"} \X EvTypes \cup {"digest"} \X EvDigests
<1>1. PICK changed : changed = [entries EXCEPT ![i] = event]
  OBVIOUS
<1>2. /\ DOMAIN changed = DOMAIN entries /\ changed[i] = event
      /\ \A j \in DOMAIN entries : j # i => changed[j] = entries[j]
  BY <1>1
<1>3. entries[i] \in Event /\ event \in Event /\ event # entries[i]
  OBVIOUS
<1>4. PICK field \in {"pcr", "type", "digest"} : event[field] # entries[i][field]
  BY <1>3 DEF Event
<1>5. PICK v : v = entries[i][field]
  OBVIOUS
<1>6. <<field, v>> \in All
  BY <1>3, <1>4, <1>5 DEF Event
<1>7. PICK S : S = At(entries, field, v)
  OBVIOUS
<1>8. i \in S /\ At(changed, field, v) = S \ {i}
  BY <1>2, <1>4, <1>5, <1>7
<1>9. S \in SUBSET (1 .. Len(entries)) /\ Len(entries) \in Nat
  BY <1>7
<1>10. ~(Cardinality(S) % 2 = 1 <=> Cardinality(S \ {i}) % 2 = 1)
  BY <1>8, <1>9, ParityFlips
<1>11. /\ Parts(entries) = {part \in All : Cardinality(At(entries, part[1], part[2])) % 2 = 1}
       /\ Parts(changed) = {part \in All : Cardinality(At(changed, part[1], part[2])) % 2 = 1}
  BY DEF Parts
<1> HIDE DEF At, All
<1>12. /\ <<field, v>> \in Parts(entries) <=> Cardinality(S) % 2 = 1
       /\ <<field, v>> \in Parts(changed) <=> Cardinality(S \ {i}) % 2 = 1
  BY <1>6, <1>7, <1>8, <1>11
<1>13. QED
  BY <1>1, <1>10, <1>12

LEMMA SinceAppend ==
  ASSUME NEW D, NEW s \in Seq(D), NEW a \in 0 .. Len(s), NEW d \in D
  PROVE  /\ SubSeq(s, a + 1, Len(s)) \in Seq(D)
         /\ SubSeq(Append(s, d), a + 1, Len(s) + 1) = Append(SubSeq(s, a + 1, Len(s)), d)
<1> DEFINE old == SubSeq(s, a + 1, Len(s))
           new == SubSeq(Append(s, d), a + 1, Len(s) + 1)
           longer == Append(old, d)
<1>1. old \in Seq(D) /\ Len(old) = Len(s) - a /\ \A i \in 1 .. Len(s) - a : old[i] = s[a + i]
  OBVIOUS
<1>2. Append(s, d) \in Seq(D) /\ Len(Append(s, d)) = Len(s) + 1
  OBVIOUS
<1>3. /\ new \in Seq(D) /\ Len(new) = (Len(s) - a) + 1
      /\ \A i \in 1 .. (Len(s) - a) + 1 : new[i] = Append(s, d)[a + i]
  BY <1>2
<1>4. /\ longer \in Seq(D) /\ Len(longer) = (Len(s) - a) + 1 /\ longer[(Len(s) - a) + 1] = d
      /\ \A i \in 1 .. Len(s) - a : longer[i] = old[i]
  <2> HIDE DEF old
  <2>1. QED
    BY <1>1
<1> HIDE DEF new, longer
<1>5. ASSUME NEW i \in 1 .. Len(new) PROVE new[i] = longer[i]
  <2>1. CASE i = (Len(s) - a) + 1
    <3>1. a + i = Len(s) + 1 /\ Append(s, d)[Len(s) + 1] = d
      BY <2>1
    <3>2. QED
      BY <1>3, <1>4, <2>1, <3>1
  <2>2. CASE i # (Len(s) - a) + 1
    <3>1. i \in 1 .. Len(s) - a /\ a + i \in 1 .. Len(s)
      <4>1. i \in 1 .. (Len(s) - a) + 1 /\ Len(s) \in Nat /\ a \in Nat /\ a <= Len(s)
        BY <1>3
      <4>2. QED
        BY <2>2, <4>1
    <3>2. Append(s, d)[a + i] = s[a + i]
      BY <3>1
    <3>3. QED
      BY <1>1, <1>3, <1>4, <3>1, <3>2
  <2>3. QED
    BY <2>1, <2>2
<1>6. new = longer
  BY <1>3, <1>4, <1>5, SeqEqual
<1>7. QED
  BY <1>1, <1>6 DEF new, longer

\* What the log has to say of a PCR that went through since.
Tells(entries, open, p, since) ==
  /\ IsPrefix(Replay(entries, p), since)
  /\ open /\ Len(entries) < MaxLog => Replay(entries, p) = since

SinceStart(p) == SubSeq(pcrBank[p], evStart[p] + 1, Len(pcrBank[p]))

EvidenceTypes ==
  /\ pcrBank \in [EvPcrs -> Seq(EvDigests)]
  /\ evStart \in [EvPcrs -> Nat] /\ \A p \in EvPcrs : evStart[p] <= Len(pcrBank[p])
  /\ evLog \in [entries : Seq(Event), closed : BOOLEAN] /\ Len(evLog.entries) <= MaxLog
  /\ treeBank \in Seq(TreeDigests) /\ Len(treeBank) <= TreePcrs

LogTells == \A p \in EvPcrs : Tells(evLog.entries, ~evLog.closed, p, SinceStart(p))

EvidenceInv == EvidenceTypes /\ LogTells

LEMMA EventDigests == \A e \in Event : e.digest \in EvDigests
  BY DEF Event

LEMMA InvAccounts == EvidenceInv => LogsAccountForTheBank
<1> SUFFICES ASSUME EvidenceInv PROVE LogsAccountForTheBank
  OBVIOUS
<1>1. evLog.entries \in Seq(Event)
  BY DEF EvidenceInv, EvidenceTypes
<1>2. \A i \in DOMAIN evLog.entries : \A event \in Event \ {evLog.entries[i]} :
        Parts([evLog.entries EXCEPT ![i] = event]) # Parts(evLog.entries)
  <2>1. PICK entries : entries = evLog.entries
    OBVIOUS
  <2>2. \A i \in DOMAIN entries : \A event \in Event \ {entries[i]} :
          Parts([entries EXCEPT ![i] = event]) # Parts(entries)
    BY <1>1, <2>1, PartsTell
  <2>3. QED
    BY <2>1, <2>2
<1>3. QED
  BY <1>2 DEF EvidenceInv, LogTells, Tells, SinceStart, LogsAccountForTheBank, LogReplay

\* A log that is started anew accounts for nothing, and nothing happened since.
LEMMA NewLogTells ==
  ASSUME NEW s \in Seq(EvDigests), NEW p, NEW open
  PROVE  Tells(<< >>, open, p, SubSeq(s, Len(s) + 1, Len(s)))
<1>1. SubSeq(s, Len(s) + 1, Len(s)) = << >> /\ << >> \in Seq(EvDigests)
  OBVIOUS
<1>2. IsPrefix(<< >>, << >>)
  <2>1. Len(<< >>) = 0
    OBVIOUS
  <2>2. QED
    BY <2>1 DEF IsPrefix
<1>3. QED
  BY <1>1, <1>2, ReplayEmpty DEF Tells

LEMMA EvidenceStarts == EvidenceInit => EvidenceInv
<1> SUFFICES ASSUME EvidenceInit PROVE EvidenceInv
  OBVIOUS
<1>1. << >> \in Seq(EvDigests) /\ << >> \in Seq(Event) /\ << >> \in Seq(TreeDigests) /\ Len(<< >>) = 0
  OBVIOUS
<1>2. EvidenceTypes
  BY <1>1, EvidenceAssumption DEF EvidenceInit, EvidenceTypes
<1>3. ASSUME NEW p \in EvPcrs PROVE Tells(evLog.entries, ~evLog.closed, p, SinceStart(p))
  <2>1. pcrBank[p] = << >> /\ evStart[p] = Len(<< >>) /\ evLog.entries = << >>
    BY <1>1 DEF EvidenceInit
  <2>2. SinceStart(p) = SubSeq(<< >>, Len(<< >>) + 1, Len(<< >>))
    BY <2>1 DEF SinceStart
  <2>3. PICK open : open = ~evLog.closed
    OBVIOUS
  <2>4. QED
    BY <1>1, <2>1, <2>2, <2>3, NewLogTells
<1>4. QED
  BY <1>2, <1>3 DEF EvidenceInv, LogTells

\* One measurement, for the PCR it extends.
LEMMA MeasuredTells ==
  ASSUME NEW log \in [entries : Seq(Event), closed : BOOLEAN], Len(log.entries) <= MaxLog,
         NEW event \in Event, NEW p, NEW since \in Seq(EvDigests), NEW new,
         Tells(log.entries, ~log.closed, p, since),
         new = IF event.pcr = p THEN Append(since, event.digest) ELSE since
  PROVE  Tells(Logged(log, event).entries, ~Logged(log, event).closed, p, new)
<1>1. PICK entries : entries = log.entries
  OBVIOUS
<1>2. PICK replayed : replayed = Replay(entries, p)
  OBVIOUS
<1>3. entries \in Seq(Event) /\ replayed \in Seq(EvDigests) /\ event.digest \in EvDigests
  BY <1>1, <1>2, ReplayType, EventDigests
<1>4. IsPrefix(replayed, since) /\ (~log.closed /\ Len(entries) < MaxLog => replayed = since)
  BY <1>1, <1>2 DEF Tells
<1>5. CASE log.closed \/ Len(entries) >= MaxLog
  <2>1. Logged(log, event) = log
    BY <1>1, <1>5 DEF Logged
  <2>2. IsPrefix(replayed, new)
    BY <1>3, <1>4, PrefixAppend
  <2>3. Len(entries) \in Nat /\ ~(~log.closed /\ Len(entries) < MaxLog)
    BY <1>3, <1>5, EvidenceAssumption
  <2>4. QED
    BY <1>1, <1>2, <2>1, <2>2, <2>3 DEF Tells
<1>6. CASE ~(log.closed \/ Len(entries) >= MaxLog)
  <2>1. Logged(log, event).entries = Append(entries, event)
    BY <1>1, <1>6 DEF Logged
  <2>2. Len(entries) \in Nat /\ Len(entries) < MaxLog
    BY <1>3, <1>6, EvidenceAssumption
  <2>3. replayed = since
    BY <1>4, <1>6, <2>2
  <2>4. Replay(Append(entries, event), p) = new
    <3>1. Replay(Append(entries, event), p) =
            IF event.pcr = p THEN Append(Replay(entries, p), event.digest) ELSE Replay(entries, p)
      BY <1>3, ReplayAppend, EventDigests
    <3>2. QED
      BY <1>2, <2>3, <3>1
  <2>5. new \in Seq(EvDigests)
    BY <1>3
  <2>6. IsPrefix(new, new)
    BY <1>3, <2>5, PrefixAppend
  <2>7. QED
    BY <2>1, <2>4, <2>6 DEF Tells
<1>7. QED
  BY <1>5, <1>6

LEMMA MeasureTells ==
  ASSUME EvidenceInv, NEW event \in Event, EvidenceMeasure(event)
  PROVE  EvidenceInv'
<1> USE DEF EvidenceMeasure
<1>1. /\ evLog \in [entries : Seq(Event), closed : BOOLEAN] /\ Len(evLog.entries) <= MaxLog
      /\ event.pcr \in EvPcrs /\ event.digest \in EvDigests
  BY EventDigests DEF EvidenceInv, EvidenceTypes, Event
<1>2. ASSUME NEW p \in EvPcrs
      PROVE  /\ pcrBank[p] \in Seq(EvDigests) /\ evStart[p] \in 0 .. Len(pcrBank[p])
             /\ pcrBank'[p] = IF event.pcr = p THEN Append(pcrBank[p], event.digest) ELSE pcrBank[p]
  BY DEF EvidenceInv, EvidenceTypes
<1>3. EvidenceTypes'
  <2>1. evLog' \in [entries : Seq(Event), closed : BOOLEAN] /\ Len(evLog'.entries) <= MaxLog
    <3>1. CASE evLog.closed \/ Len(evLog.entries) >= MaxLog
      BY <1>1, <3>1 DEF Logged
    <3>2. CASE ~(evLog.closed \/ Len(evLog.entries) >= MaxLog)
      <4>1. PICK entries : entries = evLog.entries
        OBVIOUS
      <4>2. /\ entries \in Seq(Event) /\ Append(entries, event) \in Seq(Event)
            /\ Len(Append(entries, event)) <= MaxLog
        BY <1>1, <3>2, <4>1, EvidenceAssumption
      <4>3. evLog' = [evLog EXCEPT !.entries = Append(entries, event)]
        BY <3>2, <4>1 DEF Logged
      <4>4. QED
        BY <1>1, <4>2, <4>3
    <3>3. QED
      BY <3>1, <3>2
  <2>2. pcrBank' \in [EvPcrs -> Seq(EvDigests)]
    BY <1>1 DEF EvidenceInv, EvidenceTypes
  <2>3. \A p \in EvPcrs : evStart'[p] <= Len(pcrBank'[p])
    BY <1>1, <1>2
  <2>4. QED
    BY <2>1, <2>2, <2>3 DEF EvidenceInv, EvidenceTypes
<1>4. ASSUME NEW p \in EvPcrs PROVE Tells(evLog'.entries, ~evLog'.closed, p, SinceStart(p)')
  <2>1. PICK bank, start : bank = pcrBank[p] /\ start = evStart[p]
    OBVIOUS
  <2>2. /\ bank \in Seq(EvDigests) /\ start \in 0 .. Len(bank)
        /\ pcrBank'[p] = (IF event.pcr = p THEN Append(bank, event.digest) ELSE bank)
        /\ evStart'[p] = start
    BY <1>2, <2>1
  <2>3. PICK since : since = SubSeq(bank, start + 1, Len(bank))
    OBVIOUS
  <2>4. /\ since \in Seq(EvDigests)
        /\ SinceStart(p)' = IF event.pcr = p THEN Append(since, event.digest) ELSE since
    <3>1. SinceStart(p)' = SubSeq(pcrBank'[p], start + 1, Len(pcrBank'[p]))
      BY <2>2 DEF SinceStart
    <3>2. /\ since \in Seq(EvDigests)
          /\ SubSeq(Append(bank, event.digest), start + 1, Len(bank) + 1)
               = Append(since, event.digest)
      <4>1. PICK d \in EvDigests : d = event.digest
        BY <1>1
      <4>2. /\ SubSeq(bank, start + 1, Len(bank)) \in Seq(EvDigests)
            /\ SubSeq(Append(bank, d), start + 1, Len(bank) + 1)
                 = Append(SubSeq(bank, start + 1, Len(bank)), d)
        BY <2>2, SinceAppend
      <4>3. QED
        BY <2>3, <4>1, <4>2
    <3>3. Len(Append(bank, event.digest)) = Len(bank) + 1
      BY <1>1, <2>2
    <3>4. QED
      BY <2>2, <2>3, <3>1, <3>2, <3>3
  <2>5. Tells(evLog.entries, ~evLog.closed, p, since)
    BY <2>1, <2>3 DEF EvidenceInv, LogTells, SinceStart
  <2>6. PICK log, new : log = evLog /\ new = SinceStart(p)'
    OBVIOUS
  <2>7. Tells(Logged(log, event).entries, ~Logged(log, event).closed, p, new)
    BY <1>1, <2>4, <2>5, <2>6, MeasuredTells
  <2>8. evLog' = Logged(log, event)
    BY <2>6
  <2>9. QED
    BY <2>6, <2>7, <2>8
<1>5. QED
  BY <1>3, <1>4 DEF EvidenceInv, LogTells

LEMMA EvidenceStep == EvidenceInv /\ [LogNext \/ TreeNext]_evvars => EvidenceInv'
<1> SUFFICES ASSUME EvidenceInv, [LogNext \/ TreeNext]_evvars PROVE EvidenceInv'
  OBVIOUS
<1>1. ASSUME NEW event \in Event, EvidenceMeasure(event) PROVE EvidenceInv'
  BY <1>1, MeasureTells
<1>2. CASE LogClose
  <2>1. /\ evLog'.entries = evLog.entries /\ evLog'.closed = TRUE
        /\ evLog' \in [entries : Seq(Event), closed : BOOLEAN]
    BY <1>2 DEF LogClose, EvidenceInv, EvidenceTypes
  <2>2. UNCHANGED <<pcrBank, evStart, treeBank>>
    BY <1>2 DEF LogClose
  <2>3. EvidenceTypes'
    BY <2>1, <2>2 DEF EvidenceInv, EvidenceTypes
  <2>4. \A p \in EvPcrs : SinceStart(p)' = SinceStart(p)
    BY <2>2 DEF SinceStart
  <2>5. LogTells'
    BY <2>1, <2>4 DEF EvidenceInv, LogTells, Tells
  <2>6. QED
    BY <2>3, <2>5 DEF EvidenceInv
<1>3. CASE LogInit
  <2>1. /\ evLog'.entries = << >> /\ << >> \in Seq(Event) /\ Len(<< >>) = 0
        /\ evLog' \in [entries : Seq(Event), closed : BOOLEAN]
    BY <1>3 DEF LogInit
  <2>2. \A p \in EvPcrs : evStart'[p] = Len(pcrBank[p]) /\ Len(pcrBank[p]) \in Nat
    BY <1>3 DEF LogInit, EvidenceInv, EvidenceTypes
  <2>3. pcrBank' = pcrBank /\ treeBank' = treeBank
    BY <1>3 DEF LogInit
  <2>4. EvidenceTypes'
    BY <1>3, <2>1, <2>2, <2>3, EvidenceAssumption DEF LogInit, EvidenceInv, EvidenceTypes
  <2>5. ASSUME NEW p \in EvPcrs PROVE Tells(evLog'.entries, ~evLog'.closed, p, SinceStart(p)')
    <3>1. PICK s, open : s = pcrBank[p] /\ open = ~evLog'.closed
      OBVIOUS
    <3>2. s \in Seq(EvDigests) /\ SinceStart(p)' = SubSeq(s, Len(s) + 1, Len(s))
      BY <2>2, <2>3, <3>1 DEF SinceStart, EvidenceInv, EvidenceTypes
    <3>3. QED
      BY <2>1, <3>1, <3>2, NewLogTells
  <2>6. QED
    BY <2>4, <2>5 DEF EvidenceInv, LogTells
<1>4. CASE TreeNext \/ UNCHANGED evvars
  <2>1. UNCHANGED <<pcrBank, evLog, evStart>>
    BY <1>4 DEF TreeNext, TreeBankInit, TreeBankAdd, evvars
  <2>2. treeBank' \in Seq(TreeDigests) /\ Len(treeBank') <= TreePcrs
    <3>1. CASE TreeBankInit
      <4>1. << >> \in Seq(TreeDigests) /\ Len(<< >>) = 0
        OBVIOUS
      <4>2. QED
        BY <3>1, <4>1, EvidenceAssumption DEF TreeBankInit
    <3>2. ASSUME NEW digest \in TreeDigests, TreeBankAdd(digest)
          PROVE  treeBank' \in Seq(TreeDigests) /\ Len(treeBank') <= TreePcrs
      <4>1. treeBank \in Seq(TreeDigests) /\ Len(treeBank) \in Nat /\ TreePcrs \in Nat
        BY EvidenceAssumption DEF EvidenceInv, EvidenceTypes
      <4>2. QED
        BY <3>2, <4>1 DEF TreeBankAdd
    <3>3. CASE UNCHANGED evvars
      BY <3>3 DEF evvars, EvidenceInv, EvidenceTypes
    <3>4. QED
      BY <1>4, <3>1, <3>2, <3>3 DEF TreeNext
  <2>3. EvidenceTypes'
    BY <2>1, <2>2 DEF EvidenceInv, EvidenceTypes
  <2>4. LogTells'
    BY <2>1 DEF EvidenceInv, LogTells, SinceStart
  <2>5. QED
    BY <2>3, <2>4 DEF EvidenceInv
<1>5. QED
  BY <1>1, <1>2, <1>3, <1>4 DEF LogNext

-----------------------------------------------------------------------------
(* Evidence: the loop of merkle_verify_proof.                              *)

\* f is a run of the loop over the first k siblings.
IsClimb(f, leaf, siblings, k) ==
  f = [n \in 0 .. k |-> IF n = 0 THEN leaf ELSE Climb(f[n - 1], siblings[n])]

LEMMA ClimbExists ==
  ASSUME NEW leaf, NEW siblings, NEW k \in Nat
  PROVE  \E f : IsClimb(f, leaf, siblings, k)
<1> DEFINE S == {n \in Nat : \E f : IsClimb(f, leaf, siblings, n)}
<1>1. 0 \in S
  <2> DEFINE f == [n \in 0 .. 0 |-> leaf]
  <2>1. IsClimb(f, leaf, siblings, 0)
    BY DEF IsClimb
  <2>2. QED
    BY <2>1
<1>2. ASSUME NEW n \in Nat, n \in S PROVE n + 1 \in S
  <2>1. PICK f : IsClimb(f, leaf, siblings, n)
    BY <1>2
  <2> DEFINE h == [i \in 0 .. n + 1 |-> IF i = n + 1 THEN Climb(f[n], siblings[n + 1]) ELSE f[i]]
  <2>2. ASSUME NEW i \in 0 .. n + 1, i # 0
        PROVE  h[i] = Climb(h[i - 1], siblings[i])
    <3>1. CASE i = n + 1
      <4>1. i - 1 = n /\ n \in 0 .. n + 1 /\ n # n + 1
        BY <3>1
      <4>2. h[i - 1] = f[n] /\ h[i] = Climb(f[n], siblings[n + 1])
        BY <3>1, <4>1
      <4>3. QED
        BY <3>1, <4>2
    <3>2. CASE i # n + 1
      <4>1. i \in 0 .. n /\ i - 1 \in 0 .. n + 1 /\ i - 1 # n + 1
        BY <2>2, <3>2
      <4>2. h[i - 1] = f[i - 1] /\ h[i] = f[i]
        BY <3>2, <4>1
      <4>3. f[i] = Climb(f[i - 1], siblings[i])
        BY <2>1, <2>2, <4>1 DEF IsClimb
      <4>4. QED
        BY <4>2, <4>3
    <3>3. QED
      BY <3>1, <3>2
  <2>3. h[0] = leaf
    BY <2>1 DEF IsClimb
  <2>4. h = [i \in 0 .. n + 1 |-> h[i]]
    OBVIOUS
  <2> HIDE DEF h
  <2>5. IsClimb(h, leaf, siblings, n + 1)
    BY <2>2, <2>3, <2>4 DEF IsClimb
  <2>6. QED
    BY <2>5
<1>3. \A n \in Nat : n \in S
  <2> HIDE DEF S
  <2>1. QED
    BY <1>1, <1>2, NaturalsClosed
<1>4. QED
  BY <1>3

\* What the loop comes to.
LEMMA RootByClimb ==
  ASSUME NEW leaf, NEW siblings, Len(siblings) \in Nat
  PROVE  \E f : /\ IsClimb(f, leaf, siblings, Len(siblings))
                /\ RootOf(leaf, siblings) = f[Len(siblings)]
<1> DEFINE f == CHOOSE h : IsClimb(h, leaf, siblings, Len(siblings))
<1>1. IsClimb(f, leaf, siblings, Len(siblings))
  BY ClimbExists
<1>2. RootOf(leaf, siblings) = f[Len(siblings)]
  BY DEF RootOf, IsClimb
<1>3. QED
  BY <1>1, <1>2

LEMMA RootOfNothing ==
  ASSUME NEW leaf PROVE RootOf(leaf, << >>) = leaf
<1>1. Len(<< >>) = 0
  OBVIOUS
<1>2. QED
  BY <1>1, RootByClimb DEF IsClimb

\* The first sibling leads to the parent, from which the others are climbed.
LEMMA RootOfFirst ==
  ASSUME NEW leaf, NEW s, NEW rest, Len(rest) \in Nat, NEW all, Len(all) = Len(rest) + 1,
         all[1] = s, \A i \in 1 .. Len(rest) : all[i + 1] = rest[i]
  PROVE  RootOf(leaf, all) = RootOf(Climb(leaf, s), rest)
<1> DEFINE N == Len(rest)
<1>1. Len(all) \in Nat
  OBVIOUS
<1>2. PICK f : IsClimb(f, leaf, all, N + 1) /\ RootOf(leaf, all) = f[N + 1]
  BY <1>1, RootByClimb
<1>3. PICK h : IsClimb(h, Climb(leaf, s), rest, N) /\ RootOf(Climb(leaf, s), rest) = h[N]
  BY RootByClimb
<1> DEFINE S == {n \in Nat : n <= N => f[n + 1] = h[n]}
<1>4. 0 \in S
  <2>1. f[0] = leaf /\ f[1] = Climb(f[0], all[1])
    BY <1>2 DEF IsClimb
  <2>2. h[0] = Climb(leaf, s)
    BY <1>3 DEF IsClimb
  <2>3. QED
    BY <2>1, <2>2
<1>5. ASSUME NEW n \in Nat, n \in S PROVE n + 1 \in S
  <2> SUFFICES ASSUME n + 1 <= N PROVE f[(n + 1) + 1] = h[n + 1]
    OBVIOUS
  <2>1. /\ n + 1 \in 1 .. N /\ n + 1 \in 0 .. N /\ n + 1 # 0 /\ (n + 1) - 1 = n
        /\ (n + 1) + 1 \in 0 .. N + 1 /\ (n + 1) + 1 # 0 /\ ((n + 1) + 1) - 1 = n + 1
    OBVIOUS
  <2>2. f[(n + 1) + 1] = Climb(f[n + 1], all[(n + 1) + 1])
    BY <1>2, <2>1 DEF IsClimb
  <2>3. h[n + 1] = Climb(h[n], rest[n + 1])
    BY <1>3, <2>1 DEF IsClimb
  <2>4. all[(n + 1) + 1] = rest[n + 1] /\ f[n + 1] = h[n]
    BY <1>5, <2>1
  <2>5. QED
    BY <2>2, <2>3, <2>4
<1>6. \A n \in Nat : n \in S
  <2> HIDE DEF S
  <2>1. QED
    BY <1>4, <1>5, NaturalsClosed
<1>7. N \in Nat /\ N <= N
  OBVIOUS
<1>8. QED
  BY <1>2, <1>3, <1>6, <1>7

LEMMA NodeBinds ==
  ASSUME NEW a, NEW b, NEW c, NEW d, Node(a, b) = Node(c, d)
  PROVE  a = c /\ b = d
  BY DEF Node

LEMMA ClimbBinds ==
  ASSUME NEW a, NEW b, NEW s, Climb(a, s) = Climb(b, s) PROVE a = b
<1>1. CASE s.is_left
  BY <1>1, NodeBinds DEF Climb
<1>2. CASE ~s.is_left
  BY <1>2, NodeBinds DEF Climb
<1>3. QED
  BY <1>1, <1>2

\* The same siblings lead to the same root from one leaf only.
LEMMA RootBindsLeaf ==
  ASSUME NEW a, NEW b, NEW siblings, Len(siblings) \in Nat,
         RootOf(a, siblings) = RootOf(b, siblings)
  PROVE  a = b
<1> DEFINE N == Len(siblings)
<1>1. PICK f : IsClimb(f, a, siblings, N) /\ RootOf(a, siblings) = f[N]
  BY RootByClimb
<1>2. PICK h : IsClimb(h, b, siblings, N) /\ RootOf(b, siblings) = h[N]
  BY RootByClimb
<1> DEFINE S == {n \in Nat : n <= N => f[N - n] = h[N - n]}
<1>3. 0 \in S
  <2>1. f[N] = h[N]
    BY <1>1, <1>2
  <2>2. N - 0 = N
    OBVIOUS
  <2>3. QED
    BY <2>1, <2>2
<1>4. ASSUME NEW n \in Nat, n \in S PROVE n + 1 \in S
  <2> SUFFICES ASSUME n + 1 <= N PROVE f[N - (n + 1)] = h[N - (n + 1)]
    OBVIOUS
  <2>1. PICK m : m = N - n
    OBVIOUS
  <2>2. m \in 0 .. N /\ m # 0 /\ N - (n + 1) = m - 1
    BY <2>1
  <2>3. f[m] = Climb(f[m - 1], siblings[m]) /\ h[m] = Climb(h[m - 1], siblings[m])
    BY <1>1, <1>2, <2>2 DEF IsClimb
  <2>4. f[m] = h[m]
    BY <1>4, <2>1
  <2>5. QED
    BY <2>2, <2>3, <2>4, ClimbBinds
<1>5. \A n \in Nat : n \in S
  <2> HIDE DEF S
  <2>1. QED
    BY <1>3, <1>4, NaturalsClosed
<1>6. f[0] = h[0]
  <2>1. N \in S /\ N - N = 0
    BY <1>5
  <2>2. QED
    BY <2>1
<1>7. QED
  BY <1>1, <1>2, <1>6 DEF IsClimb

-----------------------------------------------------------------------------
(* Evidence: the tree over a bank.                                         *)

\* What merkle_tree_build puts at place j of a tree with padded leaves.
PlacedAt(nodes, leaves, padded, j) ==
  IF j < (2 * padded - 1) - padded THEN Node(nodes[2 * j + 1], nodes[2 * j + 2])
  ELSE IF (2 * padded - 1) - j <= Len(leaves) THEN Leaf(leaves[(2 * padded - 1) - j])
  ELSE Leaf("zero")

IsTree(nodes, leaves, padded) ==
  nodes = [j \in 0 .. (2 * padded - 1) - 1 |-> PlacedAt(nodes, leaves, padded, j)]

LEMMA TreeExists ==
  ASSUME NEW leaves, NEW padded \in Nat \ {0}
  PROVE  \E nodes : IsTree(nodes, leaves, padded)
<1> DEFINE T == 2 * padded - 1
           From(h, k) == /\ h = [j \in T - k .. T - 1 |-> h[j]]
                         /\ \A j \in T - k .. T - 1 : h[j] = PlacedAt(h, leaves, padded, j)
           S == {k \in Nat : k <= T => \E h : From(h, k)}
<1>1. 0 \in S
  <2> DEFINE h == [j \in T - 0 .. T - 1 |-> 0]
  <2>1. T - 0 .. T - 1 = {}
    OBVIOUS
  <2>2. From(h, 0)
    BY <2>1
  <2>3. QED
    BY <2>2
<1>2. ASSUME NEW k \in Nat, k \in S PROVE k + 1 \in S
  <2> SUFFICES ASSUME k + 1 <= T PROVE \E h : From(h, k + 1)
    OBVIOUS
  <2>1. PICK f : From(f, k)
    BY <1>2
  <2>2. PICK m \in Nat : m = T - (k + 1)
    OBVIOUS
  <2>3. T - k = m + 1 /\ m < T /\ T \in Nat /\ T - (k + 1) = m
    BY <2>2
  <2> DEFINE h == [j \in m .. T - 1 |-> IF j = m THEN PlacedAt(f, leaves, padded, m) ELSE f[j]]
  <2>4. ASSUME NEW j \in m .. T - 1 PROVE h[j] = PlacedAt(f, leaves, padded, j)
    <3>1. CASE j = m
      BY <3>1
    <3>2. CASE j # m
      <4>1. j \in T - k .. T - 1
        BY <2>3, <3>2
      <4>2. h[j] = f[j]
        BY <3>2
      <4>3. QED
        BY <2>1, <4>1, <4>2
    <3>3. QED
      BY <3>1, <3>2
  <2>5. ASSUME NEW j \in m .. T - 1 PROVE PlacedAt(h, leaves, padded, j) = PlacedAt(f, leaves, padded, j)
    <3>1. CASE j < T - padded
      <4>1. /\ 2 * j + 1 \in m .. T - 1 /\ 2 * j + 1 # m
            /\ 2 * j + 2 \in m .. T - 1 /\ 2 * j + 2 # m
        BY <2>3, <3>1
      <4>2. h[2 * j + 1] = f[2 * j + 1] /\ h[2 * j + 2] = f[2 * j + 2]
        BY <4>1
      <4> HIDE DEF h
      <4>3. QED
        BY <3>1, <4>2 DEF PlacedAt
    <3>2. CASE ~(j < T - padded)
      BY <3>2 DEF PlacedAt
    <3>3. QED
      BY <3>1, <3>2
  <2>6. h = [j \in m .. T - 1 |-> h[j]]
    OBVIOUS
  <2> HIDE DEF h
  <2>7. From(h, k + 1)
    BY <2>3, <2>4, <2>5, <2>6
  <2>8. QED
    BY <2>7
<1>3. \A k \in Nat : k \in S
  <2> HIDE DEF S
  <2>1. QED
    BY <1>1, <1>2, NaturalsClosed
<1>4. T \in Nat /\ T <= T /\ T - T = 0
  OBVIOUS
<1>5. PICK h : From(h, T)
  BY <1>3, <1>4
<1>6. h = [j \in 0 .. T - 1 |-> PlacedAt(h, leaves, padded, j)]
  <2>1. /\ h = [j \in 0 .. T - 1 |-> h[j]]
        /\ \A j \in 0 .. T - 1 : h[j] = PlacedAt(h, leaves, padded, j)
    BY <1>4, <1>5
  <2>2. QED
    BY <2>1
<1>7. QED
  BY <1>6 DEF IsTree

LEMMA PowerOfTwo ==
  ASSUME NEW n \in 1 .. 32
  PROVE  \E p \in {1, 2, 4, 8, 16, 32} : n <= p /\ 2 * n > p
<1>1. CASE n <= 1
  BY <1>1
<1>2. CASE n > 1 /\ n <= 2
  BY <1>2
<1>3. CASE n > 2 /\ n <= 4
  BY <1>3
<1>4. CASE n > 4 /\ n <= 8
  BY <1>4
<1>5. CASE n > 8 /\ n <= 16
  BY <1>5
<1>6. CASE n > 16
  BY <1>6
<1>7. QED
  BY <1>1, <1>2, <1>3, <1>4, <1>5, <1>6

LEMMA TreeIsBuilt ==
  ASSUME NEW leaves, Len(leaves) \in 1 .. 32
  PROVE  \E padded \in Nat \ {0} :
           /\ padded = NextPowerOfTwo(Len(leaves)) /\ Len(leaves) <= padded
           /\ IsTree(TreeNodes(leaves), leaves, padded)
<1> DEFINE padded == NextPowerOfTwo(Len(leaves))
<1>1. padded \in Nat \ {0} /\ Len(leaves) <= padded
  <2>1. \E p \in {1, 2, 4, 8, 16, 32} : Len(leaves) <= p /\ 2 * Len(leaves) > p
    BY PowerOfTwo
  <2>2. padded \in {1, 2, 4, 8, 16, 32} /\ Len(leaves) <= padded
    BY <2>1 DEF NextPowerOfTwo
  <2>3. QED
    BY <2>2
<1> DEFINE node == CHOOSE h : IsTree(h, leaves, padded)
<1>2. IsTree(node, leaves, padded)
  <2> HIDE DEF padded
  <2>1. QED
    BY <1>1, TreeExists
<1>3. TreeNodes(leaves) = node
  BY DEF TreeNodes, IsTree, PlacedAt
<1>4. QED
  BY <1>1, <1>2, <1>3

\* The leaves are the last nodes, the first leaf last.
LEMMA LeafPlace ==
  ASSUME NEW leaves, Len(leaves) \in Nat, NEW padded \in Nat \ {0}, Len(leaves) <= padded,
         NEW nodes, IsTree(nodes, leaves, padded), NEW i \in 1 .. Len(leaves)
  PROVE  /\ (2 * padded - 1) - i \in 0 .. (2 * padded - 1) - 1
         /\ nodes[(2 * padded - 1) - i] = Leaf(leaves[i])
<1>1. PICK q : q = (2 * padded - 1) - i
  OBVIOUS
<1>2. /\ q \in 0 .. (2 * padded - 1) - 1 /\ ~(q < (2 * padded - 1) - padded)
      /\ (2 * padded - 1) - q = i
  BY <1>1
<1>3. nodes[q] = PlacedAt(nodes, leaves, padded, q)
  BY <1>2 DEF IsTree
<1>4. i <= Len(leaves)
  OBVIOUS
<1>5. PlacedAt(nodes, leaves, padded, q) = Leaf(leaves[i])
  BY <1>2, <1>4 DEF PlacedAt
<1>6. QED
  BY <1>1, <1>2, <1>3, <1>5

\* A node is the left or the right child of its parent, which has a lower place.
LEMMA ParentPlace ==
  ASSUME NEW padded \in Nat \ {0}, NEW pos \in 1 .. (2 * padded - 1) - 1
  PROVE  LET parent == (pos - 1) \div 2
         IN  /\ parent \in 0 .. pos - 1 /\ parent < (2 * padded - 1) - padded
             /\ pos % 2 = 1 => 2 * parent + 1 = pos /\ 2 * parent + 2 = pos + 1
             /\ pos % 2 = 0 => 2 * parent + 1 = pos - 1 /\ 2 * parent + 2 = pos
             /\ pos % 2 \in {0, 1}
  OBVIOUS

LEMMA ParentNode ==
  ASSUME NEW leaves, NEW padded \in Nat \ {0}, NEW nodes, IsTree(nodes, leaves, padded),
         NEW pos \in 1 .. (2 * padded - 1) - 1
  PROVE  nodes[(pos - 1) \div 2] =
           IF pos % 2 = 1 THEN Node(nodes[pos], nodes[pos + 1]) ELSE Node(nodes[pos - 1], nodes[pos])
<1>1. PICK parent : parent = (pos - 1) \div 2
  OBVIOUS
<1>2. /\ parent \in 0 .. (2 * padded - 1) - 1 /\ parent < (2 * padded - 1) - padded
      /\ pos % 2 = 1 => 2 * parent + 1 = pos /\ 2 * parent + 2 = pos + 1
      /\ pos % 2 = 0 => 2 * parent + 1 = pos - 1 /\ 2 * parent + 2 = pos
      /\ pos % 2 \in {0, 1}
  BY <1>1, ParentPlace
<1>3. nodes[parent] = PlacedAt(nodes, leaves, padded, parent)
  BY <1>2 DEF IsTree
<1>4. nodes[parent] = Node(nodes[2 * parent + 1], nodes[2 * parent + 2])
  BY <1>2, <1>3 DEF PlacedAt
<1>5. QED
  BY <1>1, <1>2, <1>4

-----------------------------------------------------------------------------
(* Evidence: the way from a leaf to the root.                              *)

SiblingOf(nodes, pos) ==
  [is_left |-> pos % 2 = 0, hash |-> nodes[IF pos % 2 = 1 THEN pos + 1 ELSE pos - 1]]

IsWay(way, nodes) ==
  way = [pos \in DOMAIN nodes |->
           IF pos = 0 THEN << >> ELSE <<SiblingOf(nodes, pos)>> \o way[(pos - 1) \div 2]]

\* h holds the ways from the places up to k.
IsWayTo(h, k, nodes) ==
  /\ h = [pos \in 0 .. k |-> h[pos]]
  /\ h[0] = << >>
  /\ \A pos \in 1 .. k : h[pos] = <<SiblingOf(nodes, pos)>> \o h[(pos - 1) \div 2]

LEMMA WayExists ==
  ASSUME NEW padded \in Nat \ {0}, NEW nodes, DOMAIN nodes = 0 .. (2 * padded - 1) - 1
  PROVE  \E way : IsWay(way, nodes)
<1> DEFINE N == (2 * padded - 1) - 1
           S == {k \in Nat : k <= N => \E h : IsWayTo(h, k, nodes)}
<1>1. 0 \in S
  <2> DEFINE h == [pos \in 0 .. 0 |-> << >>]
  <2>1. h = [pos \in 0 .. 0 |-> h[pos]] /\ h[0] = << >>
    OBVIOUS
  <2> HIDE DEF h
  <2>2. IsWayTo(h, 0, nodes)
    BY <2>1 DEF IsWayTo
  <2>3. QED
    BY <2>2
<1>2. ASSUME NEW k \in Nat, k \in S PROVE k + 1 \in S
  <2> SUFFICES ASSUME k + 1 <= N PROVE \E h : IsWayTo(h, k + 1, nodes)
    OBVIOUS
  <2>1. PICK f : IsWayTo(f, k, nodes)
    BY <1>2
  <2>2. PICK m : m = k + 1
    OBVIOUS
  <2>3. PICK parent : parent = (m - 1) \div 2
    OBVIOUS
  <2>4. m \in 1 .. N /\ m \in Nat /\ parent \in 0 .. k
    BY <2>2, <2>3, ParentPlace
  <2> DEFINE new == <<SiblingOf(nodes, m)>> \o f[parent]
             h == [pos \in 0 .. m |-> IF pos = m THEN new ELSE f[pos]]
  <2> HIDE DEF new
  <2>5. h[0] = << >> /\ h = [pos \in 0 .. m |-> h[pos]]
    BY <2>1, <2>4 DEF IsWayTo
  <2>6. ASSUME NEW pos \in 1 .. m
        PROVE  h[pos] = <<SiblingOf(nodes, pos)>> \o h[(pos - 1) \div 2]
    <3>1. CASE pos = m
      <4>1. parent \in 0 .. m /\ parent # m
        BY <2>2, <2>4
      <4>2. h[parent] = f[parent] /\ h[m] = new
        BY <2>4, <4>1
      <4> HIDE DEF h
      <4>3. QED
        BY <2>3, <3>1, <4>2 DEF new
    <3>2. CASE pos # m
      <4>1. pos \in 1 .. k
        BY <2>2, <3>2
      <4>2. PICK up : up = (pos - 1) \div 2
        OBVIOUS
      <4>3. pos \in 1 .. N
        BY <2>4
      <4>4. up \in 0 .. pos - 1
        BY <4>2, <4>3, ParentPlace
      <4>5. up \in 0 .. m /\ up # m
        BY <2>2, <4>1, <4>4
      <4>6. h[up] = f[up] /\ h[pos] = f[pos]
        BY <3>2, <4>5
      <4>7. f[pos] = <<SiblingOf(nodes, pos)>> \o f[up]
        BY <2>1, <4>1, <4>2 DEF IsWayTo
      <4> HIDE DEF h
      <4>8. QED
        BY <4>2, <4>6, <4>7
    <3>3. QED
      BY <3>1, <3>2
  <2> HIDE DEF h
  <2>7. IsWayTo(h, m, nodes)
    BY <2>5, <2>6 DEF IsWayTo
  <2>8. QED
    BY <2>2, <2>7
<1>3. \A k \in Nat : k \in S
  <2> HIDE DEF S
  <2>1. QED
    BY <1>1, <1>2, NaturalsClosed
<1>4. N \in Nat /\ N <= N
  OBVIOUS
<1>5. PICK h : IsWayTo(h, N, nodes)
  BY <1>3, <1>4
<1>6. ASSUME NEW pos \in 0 .. N
      PROVE  h[pos] = IF pos = 0 THEN << >> ELSE <<SiblingOf(nodes, pos)>> \o h[(pos - 1) \div 2]
  <2>1. pos # 0 => pos \in 1 .. N
    OBVIOUS
  <2>2. QED
    BY <1>5, <2>1 DEF IsWayTo
<1>7. h = [pos \in 0 .. N |-> h[pos]]
  BY <1>5 DEF IsWayTo
<1>8. IsWay(h, nodes)
  BY <1>6, <1>7 DEF IsWay
<1>9. QED
  BY <1>8

\* Whoever climbs the way from a node gets to the root: among the nodes for which this
\* were wrong, the one with the least place has a parent for which it is wrong too.
LEMMA WayLeadsToRoot ==
  ASSUME NEW leaves, NEW padded \in Nat \ {0}, NEW nodes, IsTree(nodes, leaves, padded),
         NEW way, IsWay(way, nodes)
  PROVE  \A pos \in DOMAIN nodes :
           Len(way[pos]) \in Nat /\ RootOf(nodes[pos], way[pos]) = nodes[0]
<1> DEFINE N == (2 * padded - 1) - 1
           X == {SiblingOf(nodes, pos) : pos \in 1 .. N}
           Leads(pos) == way[pos] \in Seq(X) /\ RootOf(nodes[pos], way[pos]) = nodes[0]
           Bad == {pos \in 0 .. N : ~Leads(pos)}
<1>1. DOMAIN nodes = 0 .. N /\ N \in Nat
  BY DEF IsTree
<1>2. \A pos \in 1 .. N : SiblingOf(nodes, pos) \in X
  OBVIOUS
<1> HIDE DEF X
<1>3. Leads(0)
  <2>1. way[0] = << >>
    BY <1>1 DEF IsWay
  <2>2. QED
    BY <2>1, RootOfNothing
<1>4. ASSUME NEW pos \in 1 .. N, Leads((pos - 1) \div 2) PROVE Leads(pos)
  <2>1. PICK parent : parent = (pos - 1) \div 2
    OBVIOUS
  <2>2. PICK s : s = SiblingOf(nodes, pos)
    OBVIOUS
  <2>3. PICK rest : rest = way[parent]
    OBVIOUS
  <2>4. way[pos] = <<s>> \o rest /\ rest \in Seq(X) /\ s \in X
    <3>1. pos # 0 /\ pos \in DOMAIN nodes
      BY <1>1
    <3>2. QED
      BY <1>2, <1>4, <2>1, <2>2, <2>3, <3>1 DEF IsWay
  <2>5. PICK all : all = <<s>> \o rest
    OBVIOUS
  <2>6. RootOf(nodes[pos], all) = RootOf(Climb(nodes[pos], s), rest) /\ all \in Seq(X)
    <3>1. /\ all \in Seq(X) /\ Len(all) = Len(rest) + 1 /\ Len(rest) \in Nat
          /\ all[1] = s /\ \A i \in 1 .. Len(rest) : all[i + 1] = rest[i]
      BY <2>4, <2>5
    <3>2. QED
      BY <3>1, RootOfFirst
  <2>7. Climb(nodes[pos], s) = nodes[parent]
    <3>1. nodes[parent] = IF pos % 2 = 1 THEN Node(nodes[pos], nodes[pos + 1])
                          ELSE Node(nodes[pos - 1], nodes[pos])
      BY <2>1, ParentNode
    <3> DEFINE even == pos % 2 = 0
               other == IF pos % 2 = 1 THEN pos + 1 ELSE pos - 1
    <3>2. s = [is_left |-> even, hash |-> nodes[other]]
      BY <2>2 DEF SiblingOf
    <3> HIDE DEF even, other
    <3>3. s.is_left = even /\ s.hash = nodes[other]
      BY <3>2
    <3>4. CASE pos % 2 = 1
      <4>1. s.hash = nodes[pos + 1] /\ ~s.is_left
        <5>1. ~even /\ other = pos + 1
          BY <3>4 DEF even, other
        <5>2. QED
          BY <3>3, <5>1
      <4>2. QED
        BY <3>1, <3>4, <4>1 DEF Climb
    <3>5. CASE pos % 2 = 0
      <4>1. s.hash = nodes[pos - 1] /\ s.is_left
        <5>1. even /\ other = pos - 1
          BY <3>5 DEF even, other
        <5>2. QED
          BY <3>3, <5>1
      <4>2. QED
        BY <3>1, <3>5, <4>1 DEF Climb
    <3>6. QED
      BY <3>4, <3>5, ParentPlace
  <2>8. QED
    BY <1>4, <2>1, <2>3, <2>4, <2>5, <2>6, <2>7
<1>5. Bad = {}
  <2> SUFFICES ASSUME Bad # {} PROVE FALSE
    OBVIOUS
  <2>1. Bad \in SUBSET Nat
    OBVIOUS
  <2>2. PICK pos \in Bad : \A q \in Bad : pos <= q
    <3> HIDE DEF Bad
    <3>1. QED
      BY <2>1, LeastNatural
  <2> HIDE DEF Leads
  <2>3. pos \in 1 .. N /\ ~Leads(pos)
    BY <1>3
  <2>4. PICK parent : parent = (pos - 1) \div 2
    OBVIOUS
  <2>5. parent \in 0 .. pos - 1
    BY <2>3, <2>4, ParentPlace
  <2>6. parent \in 0 .. N /\ ~(pos <= parent)
    BY <2>3, <2>5
  <2>7. Leads(parent)
    BY <2>2, <2>6
  <2>8. QED
    BY <1>4, <2>3, <2>4, <2>7
<1>6. QED
  BY <1>1, <1>5

\* Two trees of one shape that differ in a leaf differ in all nodes above it.
LEMMA RootBindsPlace ==
  ASSUME NEW leaves, NEW others, NEW padded \in Nat \ {0},
         NEW nodes, IsTree(nodes, leaves, padded), NEW changed, IsTree(changed, others, padded),
         NEW place \in DOMAIN nodes, nodes[place] # changed[place]
  PROVE  nodes[0] # changed[0]
<1> DEFINE N == (2 * padded - 1) - 1
           Apart == {pos \in 0 .. N : nodes[pos] # changed[pos]}
<1>1. place \in Apart /\ Apart \in SUBSET Nat
  BY DEF IsTree
<1>2. PICK pos \in Apart : \A q \in Apart : pos <= q
  <2> HIDE DEF Apart
  <2>1. QED
    BY <1>1, LeastNatural
<1>3. CASE pos = 0
  BY <1>3
<1>4. CASE pos # 0
  <2>1. pos \in 1 .. N
    BY <1>4
  <2>2. PICK parent : parent = (pos - 1) \div 2
    OBVIOUS
  <2>3. parent \in 0 .. pos - 1
    BY <2>1, <2>2, ParentPlace
  <2>4. nodes[parent] = IF pos % 2 = 1 THEN Node(nodes[pos], nodes[pos + 1])
                        ELSE Node(nodes[pos - 1], nodes[pos])
    BY <2>1, <2>2, ParentNode
  <2>5. changed[parent] = IF pos % 2 = 1 THEN Node(changed[pos], changed[pos + 1])
                          ELSE Node(changed[pos - 1], changed[pos])
    BY <2>1, <2>2, ParentNode
  <2>6. nodes[pos] # changed[pos]
    OBVIOUS
  <2>7. nodes[parent] # changed[parent]
    BY <2>4, <2>5, <2>6, NodeBinds
  <2>8. parent \in Apart /\ ~(pos <= parent)
    BY <2>1, <2>3, <2>7
  <2>9. QED
    BY <1>2, <2>8
<1>5. QED
  BY <1>3, <1>4

LEMMA ProofIsTheWay ==
  ASSUME NEW leaves, Len(leaves) \in 1 .. 32, NEW i \in 1 .. Len(leaves)
  PROVE  \E padded \in Nat \ {0} : \E way :
           LET nodes == TreeNodes(leaves)
               place == (2 * padded - 1) - i
           IN  /\ padded = NextPowerOfTwo(Len(leaves)) /\ Len(leaves) <= padded
               /\ IsTree(nodes, leaves, padded) /\ IsWay(way, nodes)
               /\ ProofOf(leaves, i) =
                    [leaf |-> nodes[place], root |-> nodes[0], siblings |-> way[place]]
<1> DEFINE nodes == TreeNodes(leaves)
           way == CHOOSE h : IsWay(h, nodes)
           places == Cardinality(DOMAIN nodes)
<1>1. PICK padded \in Nat \ {0} :
        /\ padded = NextPowerOfTwo(Len(leaves)) /\ Len(leaves) <= padded
        /\ IsTree(nodes, leaves, padded)
  BY TreeIsBuilt
<1>2. ProofOf(leaves, i) =
        [leaf |-> nodes[places - i], root |-> nodes[0], siblings |-> way[places - i]]
  BY DEF ProofOf, IsWay, SiblingOf
<1> HIDE DEF nodes
<1>3. DOMAIN nodes = 0 .. (2 * padded - 1) - 1
  BY <1>1 DEF IsTree
<1>4. IsWay(way, nodes)
  BY <1>3, WayExists
<1>5. places = 2 * padded - 1
  <2>1. PICK n \in Nat : n = (2 * padded - 1) - 1
    OBVIOUS
  <2>2. IsFiniteSet(1 .. n) /\ Cardinality(1 .. n) = n /\ 0 \notin 1 .. n
    BY UpToCardinality
  <2>3. PICK up : up = 1 .. n
    OBVIOUS
  <2>4. Cardinality(0 .. n) = n + 1
    <3>1. Cardinality(up \cup {0}) = Cardinality(up) + 1
      BY <2>2, <2>3, FS_AddElement
    <3>2. up \cup {0} = 0 .. n
      BY <2>3
    <3>3. QED
      BY <2>2, <2>3, <3>1, <3>2
  <2>5. QED
    BY <1>3, <2>1, <2>4
<1> HIDE DEF way, places
<1>6. QED
  BY <1>1, <1>2, <1>4, <1>5 DEF nodes

\* A bank whose tree can be built.
LEMMA BankIsBound ==
  ASSUME treeBank \in Seq(TreeDigests), Len(treeBank) <= TreePcrs
  PROVE  ProofsBindLeaves
<1> SUFFICES ASSUME NEW i \in DOMAIN treeBank
             PROVE  LET proof == ProofOf(treeBank, i)
                    IN  /\ proof.leaf = Leaf(treeBank[i])
                        /\ VerifyProof(proof)
                        /\ \A digest \in TreeDigests \ {treeBank[i]} :
                             /\ ~VerifyProof([proof EXCEPT !.leaf = Leaf(digest)])
                             /\ TreeNodes([treeBank EXCEPT ![i] = digest])[0] # proof.root
  BY DEF ProofsBindLeaves
<1> DEFINE nodes == TreeNodes(treeBank)
           proof == ProofOf(treeBank, i)
<1>1. Len(treeBank) \in 1 .. 32 /\ i \in 1 .. Len(treeBank)
  <2>1. i \in 1 .. Len(treeBank) /\ Len(treeBank) \in Nat
    OBVIOUS
  <2>2. TreePcrs \in 0 .. 32
    BY EvidenceAssumption
  <2>3. PICK n \in Nat : n = Len(treeBank)
    BY <2>1
  <2>4. n \in 1 .. 32
    <3>1. i \in 1 .. n /\ n <= TreePcrs
      BY <2>1, <2>3
    <3>2. QED
      BY <2>2, <3>1
  <2>5. QED
    BY <2>1, <2>3, <2>4
<1> DEFINE Proves(padded, way) ==
             /\ padded = NextPowerOfTwo(Len(treeBank)) /\ Len(treeBank) <= padded
             /\ IsTree(nodes, treeBank, padded) /\ IsWay(way, nodes)
             /\ proof = [leaf |-> nodes[(2 * padded - 1) - i], root |-> nodes[0],
                         siblings |-> way[(2 * padded - 1) - i]]
<1>p. PICK padded \in Nat \ {0} : \E way : Proves(padded, way)
  BY <1>1, ProofIsTheWay
<1>2. PICK way : Proves(padded, way)
  BY <1>p
<1> HIDE DEF nodes, proof
<1>3. PICK place : place = (2 * padded - 1) - i
  OBVIOUS
<1>4. place \in DOMAIN nodes /\ nodes[place] = Leaf(treeBank[i])
  <2>1. Len(treeBank) \in Nat
    BY <1>1
  <2>2. DOMAIN nodes = 0 .. (2 * padded - 1) - 1
    BY <1>2 DEF IsTree
  <2>3. QED
    BY <1>1, <1>2, <1>3, <2>1, <2>2, LeafPlace
<1>5. proof.leaf = Leaf(treeBank[i]) /\ proof.root = nodes[0] /\ proof.siblings = way[place]
  BY <1>2, <1>3, <1>4
<1>6. Len(way[place]) \in Nat /\ RootOf(nodes[place], way[place]) = nodes[0]
  BY <1>2, <1>4, WayLeadsToRoot
<1>7. VerifyProof(proof)
  BY <1>4, <1>5, <1>6 DEF VerifyProof
<1>8. ASSUME NEW digest \in TreeDigests \ {treeBank[i]}
      PROVE  /\ ~VerifyProof([proof EXCEPT !.leaf = Leaf(digest)])
             /\ TreeNodes([treeBank EXCEPT ![i] = digest])[0] # proof.root
  <2>1. Leaf(digest) # Leaf(treeBank[i])
    BY DEF Leaf
  <2>2. ~VerifyProof([proof EXCEPT !.leaf = Leaf(digest)])
    <3>1. PICK forged : forged = [proof EXCEPT !.leaf = Leaf(digest)]
      OBVIOUS
    <3>2. forged.leaf = Leaf(digest) /\ forged.root = nodes[0] /\ forged.siblings = way[place]
      BY <1>2, <1>3, <3>1
    <3>3. RootOf(Leaf(digest), way[place]) # nodes[0]
      BY <1>4, <1>6, <2>1, RootBindsLeaf
    <3>4. ~VerifyProof(forged)
      BY <3>2, <3>3 DEF VerifyProof
    <3>5. QED
      BY <3>1, <3>4
  <2>3. PICK other : other = [treeBank EXCEPT ![i] = digest]
    OBVIOUS
  <2>4. Len(other) = Len(treeBank) /\ other[i] = digest
    BY <1>1, <2>3
  <2>5. PICK changed : changed = TreeNodes(other)
    OBVIOUS
  <2>6. IsTree(changed, other, padded)
    BY <1>1, <1>2, <2>4, <2>5, TreeIsBuilt
  <2>7. changed[place] = Leaf(digest)
    BY <1>1, <1>2, <1>3, <2>4, <2>6, LeafPlace
  <2>8. nodes[0] # changed[0]
    BY <1>2, <1>4, <2>1, <2>6, <2>7, RootBindsPlace
  <2>9. QED
    BY <1>5, <2>2, <2>3, <2>5, <2>8
<1>9. QED
  BY <1>5, <1>7, <1>8 DEF proof

LEMMA EvidenceHolds == EvidenceSpec => [](LogsAccountForTheBank /\ ProofsBindLeaves)
<1>1. EvidenceInv => ProofsBindLeaves
  BY BankIsBound DEF EvidenceInv, EvidenceTypes
<1>2. QED
  BY <1>1, InvAccounts, EvidenceStarts, EvidenceStep, PTL DEF EvidenceSpec

-----------------------------------------------------------------------------
(* The parts together.                                                     *)

\* A behaviour of MCTpm is one of each part: the focus decides which one moves.
LEMMA PartsMove == Spec => EvidenceSpec /\ RatsSpec
<1>1. Init => EvidenceInit /\ RatsInit
  BY DEF Init
<1>2. [Next]_vars => [LogNext \/ TreeNext]_evvars /\ [RatsNext]_rtvars
  BY DEF Next, vars, TpmStep, AttestationStep
<1>3. QED
  BY <1>1, <1>2, PTL DEF Spec, EvidenceSpec, RatsSpec

\* Evidence says what was measured: logs account for the bank, a proof binds one leaf to
\* the root, and what was taken for verified was fresh (tcg_eventlog_replay_sha256,
\* tcg_eventlog_integrity_check, merkle_generate_proof, merkle_verify_proof,
\* rats_appraise_evidence).
THEOREM EvidenceStaysSound == Spec => []EvidenceIsSound
  BY PartsMove, EvidenceHolds, VerifiedStaysFresh, PTL DEF EvidenceIsSound
=============================================================================
