--------------------------- MODULE ServicesProofs ---------------------------
(* What the services beside the graph keep, for any number of holders, runs, *)
(* readers and documents: the lease of a schedule, the coding surface, the   *)
(* stream of a run's journal, the memory store and its sidecar.  Each has an *)
(* invariant of its own; they share no state.                                *)
EXTENDS RunStream, Memory, Coding, Lease, FiniteSetTheorems, NaturalsInduction, TLAPS

-----------------------------------------------------------------------------
(* The lease.                                                                *)

(* One process serves every tick: what the lock of lease.py is enough for.   *)
OneServer == \A t, other \in Ticks : ProcessOf[t] = ProcessOf[other]

LeaseRecords == [token : Ticks \cup {NoLease}, expires : Nat]

LeaseTypeOK ==
    /\ clock \in Nat
    /\ lease \in LeaseRecords
    /\ asking \in [Ticks -> [read : LeaseRecords, moment : Nat]]
    /\ tick \in [Ticks -> {"new", "asking", "granted", "refused", "over", "dead"}]

(* A call took the time before now; the file is as it read it, and nobody    *)
(* else is between reading and writing.                                      *)
AskedEarlier == \A t \in Ticks : asking[t].moment <= clock
OneAsks == \A t, other \in Ticks : tick[t] = "asking" /\ tick[other] = "asking" => t = other
ReadStands == \A t \in Ticks : tick[t] = "asking" => asking[t].read = lease

(* The holder in the file was granted it until the moment written there.     *)
HolderWasGranted ==
    lease.token # NoLease => /\ tick[lease.token] \in {"granted", "dead"}
                             /\ lease.expires = asking[lease.token].moment + Ttl

(* Who lost the file to another outlived its lease.                          *)
LosersExpired ==
    \A t \in Ticks : tick[t] = "granted" /\ lease.token # t => clock >= asking[t].moment + Ttl

LeaseInv == /\ LeaseTypeOK /\ AskedEarlier /\ OneAsks /\ ReadStands
            /\ HolderWasGranted /\ LosersExpired

\* Nobody holds the lease when the server starts.
LEMMA LeaseInitHolds == LeaseInit => LeaseInv
<1>. SUFFICES ASSUME LeaseInit PROVE LeaseInv
  OBVIOUS
<1>. USE LeaseConstants DEF LeaseInit, Free
<1>1. LeaseTypeOK
  BY DEF LeaseTypeOK, LeaseRecords
<1>2. AskedEarlier /\ OneAsks /\ ReadStands /\ HolderWasGranted /\ LosersExpired
  BY DEF AskedEarlier, OneAsks, ReadStands, HolderWasGranted, LosersExpired
<1>. QED BY <1>1, <1>2 DEF LeaseInv

(* The lock of the one process: while a call is between reading and writing, *)
(* no other begins and none is given back.                                   *)
LEMMA LockedByAnyone ==
    ASSUME OneServer, NEW t \in Ticks, ~Locked(t)
    PROVE  \A other \in Ticks : tick[other] # "asking"
BY DEF OneServer, Locked

\* Asking for the lease keeps the invariant: with one process, the lock lets a
\* call read the file only when no other call is between reading and writing.
LEMMA AskKeeps ==
    ASSUME OneServer, LeaseInv, NEW t \in Ticks, NEW moment \in 0..clock, Ask(t, moment)
    PROVE  LeaseInv'
<1>. USE LeaseConstants DEF LeaseInv, LeaseTypeOK, Ask
<1>1. \A other \in Ticks : tick[other] # "asking"
  BY LockedByAnyone
<1>2. /\ moment \in Nat /\ moment <= clock
      /\ asking'[t] = [read |-> lease, moment |-> moment] /\ tick'[t] = "asking"
      /\ \A other \in Ticks \ {t} : asking'[other] = asking[other] /\ tick'[other] = tick[other]
  OBVIOUS
<1>3. LeaseTypeOK'
  BY <1>2
<1>4. AskedEarlier' /\ OneAsks' /\ ReadStands'
  BY <1>1, <1>2 DEF AskedEarlier, OneAsks, ReadStands
<1>5. HolderWasGranted'
  BY <1>2 DEF HolderWasGranted, LeaseRecords
<1>6. LosersExpired'
  BY <1>2 DEF LosersExpired
<1>. QED BY <1>3, <1>4, <1>5, <1>6

(* A tick that takes the file over finds it free, or expired when it began.  *)
LEMMA GrantKeeps ==
    ASSUME LeaseInv, NEW t \in Ticks, Grant(t)
    PROVE  LeaseInv'
<1>. USE LeaseConstants DEF LeaseInv, LeaseTypeOK, Grant
<1>1. /\ asking[t].moment \in Nat /\ asking[t].moment + Ttl \in Nat
      /\ lease' = [token |-> t, expires |-> asking[t].moment + Ttl]
      /\ asking' = asking /\ clock' = clock /\ tick'[t] = "granted"
      /\ \A other \in Ticks \ {t} : tick'[other] = tick[other]
  OBVIOUS
<1>2. LeaseTypeOK'
  BY <1>1 DEF LeaseRecords
<1>3. AskedEarlier'
  BY <1>1 DEF AskedEarlier
<1>4. \A other \in Ticks : tick'[other] # "asking"
  BY <1>1 DEF OneAsks
<1>5. OneAsks' /\ ReadStands'
  BY <1>4 DEF OneAsks, ReadStands
<1>6. HolderWasGranted'
  BY <1>1 DEF HolderWasGranted
<1>7. ASSUME NEW other \in Ticks, tick'[other] = "granted", lease'.token # other
      PROVE  clock' >= asking'[other].moment + Ttl
  <2>1. other # t /\ tick[other] = "granted"
    BY <1>1, <1>7
  <2>2. CASE lease.token # other
    BY <1>1, <2>1, <2>2 DEF LosersExpired
  <2>3. CASE lease.token = other
    <3>1. lease.expires = asking[other].moment + Ttl
      BY <2>3 DEF HolderWasGranted
    <3>2. lease.expires <= asking[t].moment
      BY <2>3 DEF Held, ReadStands, LeaseRecords
    <3>. QED BY <1>1, <3>1, <3>2 DEF AskedEarlier, LeaseRecords
  <2>. QED BY <2>2, <2>3
<1>8. LosersExpired'
  BY <1>7 DEF LosersExpired
<1>. QED BY <1>2, <1>3, <1>5, <1>6, <1>8

\* Giving the lease back keeps the invariant.
LEMMA ReleaseKeeps ==
    ASSUME OneServer, LeaseInv, NEW t \in Ticks, Release(t)
    PROVE  LeaseInv'
<1>. USE LeaseConstants DEF LeaseInv, LeaseTypeOK, Release, Owns, Free
<1>1. \A other \in Ticks : tick[other] # "asking"
  BY LockedByAnyone
<1>2. /\ asking' = asking /\ clock' = clock /\ tick'[t] = "over"
      /\ \A other \in Ticks \ {t} : tick'[other] = tick[other]
      /\ lease.token = t => lease' = [token |-> NoLease, expires |-> 0]
      /\ lease.token # t => lease' = lease
  OBVIOUS
<1>3. LeaseTypeOK'
  BY <1>2 DEF LeaseRecords
<1>4. AskedEarlier' /\ OneAsks' /\ ReadStands'
  BY <1>1, <1>2 DEF AskedEarlier, OneAsks, ReadStands
<1>5. HolderWasGranted'
  BY <1>2 DEF HolderWasGranted, LeaseRecords
<1>6. LosersExpired'
  BY <1>2 DEF LosersExpired
<1>. QED BY <1>3, <1>4, <1>5, <1>6

(* A tick that is refused or dies leaves the file; time only runs out.       *)
LEMMA OthersKeep ==
    ASSUME LeaseInv, (\E t \in Ticks : Refuse(t) \/ Perish(t)) \/ Pass \/ UNCHANGED leaseVars
    PROVE  LeaseInv'
<1>. USE LeaseConstants DEF LeaseInv, LeaseTypeOK
<1>1. CASE \E t \in Ticks : Refuse(t) \/ Perish(t)
  <2>1. PICK t \in Ticks : Refuse(t) \/ Perish(t)
    BY <1>1
  <2>2. /\ UNCHANGED <<clock, lease, asking>>
        /\ tick'[t] \in {"refused", "dead"} /\ tick[t] \in {"asking", "granted"}
        /\ tick'[t] = "refused" => tick[t] = "asking"
        /\ \A other \in Ticks \ {t} : tick'[other] = tick[other]
    BY <2>1 DEF Refuse, Perish
  <2>3. LeaseTypeOK'
    BY <2>1 DEF Refuse, Perish
  <2>4. AskedEarlier' /\ OneAsks' /\ ReadStands'
    BY <2>2 DEF AskedEarlier, OneAsks, ReadStands
  <2>5. HolderWasGranted'
    BY <2>2 DEF HolderWasGranted, LeaseRecords
  <2>6. LosersExpired'
    BY <2>2 DEF LosersExpired
  <2>. QED BY <2>3, <2>4, <2>5, <2>6
<1>2. CASE Pass
  BY <1>2 DEF Pass, AskedEarlier, OneAsks, ReadStands, HolderWasGranted, LosersExpired, LeaseRecords
<1>3. CASE UNCHANGED leaseVars
  BY <1>3 DEF leaseVars, AskedEarlier, OneAsks, ReadStands, HolderWasGranted, LosersExpired
<1>. QED BY <1>1, <1>2, <1>3

\* Of two granted ticks one is not named in the file, and so outlived its
\* lease: the invariant gives the property.
LEMMA HolderIsAlone == LeaseInv => NoOverlap
<1>. SUFFICES ASSUME LeaseInv PROVE NoOverlap
  OBVIOUS
<1>1. ASSUME NEW t \in Ticks, tick[t] = "granted"
      PROVE  lease.token = t \/ clock >= asking[t].moment + Ttl
  BY <1>1 DEF LeaseInv, LosersExpired
<1>2. \A t \in Ticks : asking[t].moment + Ttl \in Nat /\ clock \in Nat
  BY LeaseConstants DEF LeaseInv, LeaseTypeOK
<1>. QED BY <1>1, <1>2 DEF NoOverlap

(* A periodic trigger never overlaps itself while one process serves it: a   *)
(* granted tick keeps the file until it gives it back or its lease expires,  *)
(* whoever asks, dies, or ends late (lease.py: acquire, release).            *)
THEOREM TriggersNeverOverlap == OneServer => (LeaseSpec => []NoOverlap)
<1>. SUFFICES ASSUME OneServer PROVE LeaseSpec => []NoOverlap
  OBVIOUS
<1>1. LeaseInit => LeaseInv
  BY LeaseInitHolds
<1>2. LeaseInv /\ [LeaseNext]_leaseVars => LeaseInv'
  <2>. SUFFICES ASSUME LeaseInv, [LeaseNext]_leaseVars PROVE LeaseInv'
    OBVIOUS
  <2>1. ASSUME NEW t \in Ticks, NEW moment \in 0..clock, Ask(t, moment) PROVE LeaseInv'
    BY <2>1, AskKeeps
  <2>2. ASSUME NEW t \in Ticks, Grant(t) PROVE LeaseInv'
    BY <2>2, GrantKeeps
  <2>3. ASSUME NEW t \in Ticks, Release(t) PROVE LeaseInv'
    BY <2>3, ReleaseKeeps
  <2>. QED BY <2>1, <2>2, <2>3, OthersKeep DEF LeaseNext
<1>. QED BY <1>1, <1>2, HolderIsAlone, PTL DEF LeaseSpec

-----------------------------------------------------------------------------
(* The coding surface.                                                       *)

(* The checkout and its commit are files; a run may edit under a name only   *)
(* the file it had before its eyes under that name.                          *)
LedgerTruthful ==
    /\ DOMAIN files = Files /\ DOMAIN head = Files
    /\ ledger \in [Coders -> SUBSET Names] /\ shown \in [Coders -> SUBSET Files]
    /\ \A r \in Coders : \A name \in ledger[r] : Denotes[name] \in shown[r]

\* Marking a name as seen keeps every name in the ledger the name of a file
\* whose content was shown.
LEMMA MarksTruthful ==
    ASSUME LedgerTruthful, NEW r \in Coders, NEW name \in Names, Marks(r, name)
    PROVE  /\ ledger' \in [Coders -> SUBSET Names] /\ shown' \in [Coders -> SUBSET Files]
           /\ \A c \in Coders : \A n \in ledger'[c] : Denotes[n] \in shown'[c]
<1>. USE CodingConstants DEF LedgerTruthful, Marks
<1>1. /\ ledger'[r] = ledger[r] \cup {name} /\ shown'[r] = shown[r] \cup {Denotes[name]}
      /\ \A c \in Coders \ {r} : ledger'[c] = ledger[c] /\ shown'[c] = shown[c]
  OBVIOUS
<1>. QED BY <1>1

\* Every step of the coding surface keeps the ledger truthful.
LEMMA LedgerStep == LedgerTruthful /\ [CodingNext]_codingVars => LedgerTruthful'
<1>. SUFFICES ASSUME LedgerTruthful, [CodingNext]_codingVars PROVE LedgerTruthful'
  OBVIOUS
<1>. USE CodingConstants
<1>1. ASSUME NEW r \in Coders, NEW name \in Names, ReadCode(r, name) PROVE LedgerTruthful'
  BY <1>1, MarksTruthful DEF ReadCode, LedgerTruthful
<1>2. ASSUME NEW r \in Coders, NEW name \in Names, NEW old \in Pieces, NEW new \in Pieces,
             NEW all \in BOOLEAN, ApplyEdit(r, name, old, new, all)
      PROVE  LedgerTruthful'
  BY <1>2 DEF ApplyEdit, Puts, LedgerTruthful
<1>3. ASSUME NEW r \in Coders, NEW name \in Names, NEW body \in Bodies, NEW overwrite \in BOOLEAN,
             CreateFile(r, name, body, overwrite)
      PROVE  LedgerTruthful'
  BY <1>3, MarksTruthful DEF CreateFile, Puts, LedgerTruthful
<1>4. ASSUME NEW r \in Coders, NEW name \in Names, NEW target \in Names, NEW overwrite \in BOOLEAN,
             CopyWithinWorkspace(r, name, target, overwrite)
      PROVE  LedgerTruthful'
  BY <1>4, MarksTruthful DEF CopyWithinWorkspace, Puts, LedgerTruthful
<1>5. ASSUME NEW argv \in Commands, NEW f \in Files, NEW body \in Bodies \cup {Absent},
             NEW commit \in BOOLEAN, RunCommand(argv, f, body, commit)
      PROVE  LedgerTruthful'
  BY <1>5 DEF RunCommand, LedgerTruthful
<1>6. CASE GitReset
  BY <1>6 DEF GitReset, LedgerTruthful
<1>7. ASSUME NEW r \in Coders, Restarted(r) PROVE LedgerTruthful'
  BY <1>7 DEF Restarted, LedgerTruthful
<1>8. CASE UNCHANGED codingVars
  BY <1>8 DEF codingVars, LedgerTruthful
<1>. QED BY <1>1, <1>2, <1>3, <1>4, <1>5, <1>6, <1>7, <1>8 DEF CodingNext

(* An edit whose anchor is found once changes one piece of the file.         *)
LEMMA EditChangesOccurrences ==
    ASSUME LedgerTruthful, NEW r \in Coders, NEW name \in Names, NEW old \in Pieces, NEW new \in Pieces,
           NEW all \in BOOLEAN, ApplyEdit(r, name, old, new, all)
    PROVE  {i \in DOMAIN files[Denotes[name]] : files'[Denotes[name]][i] # files[Denotes[name]][i]}
              = Occurrences(files[Denotes[name]], old)
<1>. DEFINE f == Denotes[name]
            body == [i \in DOMAIN files[f] |-> IF files[f][i] = old THEN new ELSE files[f][i]]
<1>1. f \in Files /\ DOMAIN files = Files
  BY CodingConstants DEF LedgerTruthful
<1>2. files'[f] = body /\ old # new
  BY <1>1 DEF ApplyEdit, Puts
<1>. QED BY <1>2 DEF Occurrences

(* What exists is edited or written over only by a run that had it before    *)
(* its eyes, and an anchor changes one place unless all were asked for       *)
(* (coding/edit.py: apply_edit, create_file).                                *)
THEOREM ChangesAlwaysInformed == CodingSpec => ChangesAreInformed
<1>. DEFINE f == change'.file
            Informed == files' # files /\ change'.how \in {"edit", "edit all", "create"} =>
                           /\ files[f] # Absent => f \in shown[change'.run]
                           /\ change'.how = "edit" =>
                                 Cardinality({i \in DOMAIN files[f] : files'[f][i] # files[f][i]}) = 1
<1>. USE CodingConstants
<1>1. CodingInit => LedgerTruthful
  BY DEF CodingInit, LedgerTruthful
<1>2. LedgerTruthful /\ [CodingNext]_codingVars => LedgerTruthful'
  BY LedgerStep
<1>3. LedgerTruthful /\ [CodingNext]_codingVars => [Informed]_codingVars
  <2>. SUFFICES ASSUME LedgerTruthful, CodingNext PROVE Informed
    OBVIOUS
  <2>1. ASSUME NEW r \in Coders, NEW name \in Names, ReadCode(r, name) PROVE Informed
    BY <2>1 DEF ReadCode
  <2>2. ASSUME NEW r \in Coders, NEW name \in Names, NEW old \in Pieces, NEW new \in Pieces,
               NEW all \in BOOLEAN, ApplyEdit(r, name, old, new, all)
        PROVE  Informed
    <3>1. f = Denotes[name] /\ change'.run = r /\ change'.how = IF all THEN "edit all" ELSE "edit"
      BY <2>2 DEF ApplyEdit, Puts
    <3>2. f \in shown[r]
      BY <2>2, <3>1 DEF ApplyEdit, HasRead, LedgerTruthful
    <3>3. change'.how = "edit" => Cardinality(Occurrences(files[f], old)) = 1
      BY <2>2, <3>1 DEF ApplyEdit, Anchored
    <3>4. {i \in DOMAIN files[f] : files'[f][i] # files[f][i]} = Occurrences(files[f], old)
      <4>1. {i \in DOMAIN files[Denotes[name]] : files'[Denotes[name]][i] # files[Denotes[name]][i]}
               = Occurrences(files[Denotes[name]], old)
        BY <2>2, EditChangesOccurrences
      <4>. QED BY <3>1, <4>1
    <3>. QED BY <3>1, <3>2, <3>3, <3>4
  <2>3. ASSUME NEW r \in Coders, NEW name \in Names, NEW body \in Bodies, NEW overwrite \in BOOLEAN,
               CreateFile(r, name, body, overwrite)
        PROVE  Informed
    <3>1. f = Denotes[name] /\ change'.run = r /\ change'.how = "create"
      BY <2>3 DEF CreateFile, Puts
    <3>. QED BY <2>3, <3>1 DEF CreateFile, HasRead, LedgerTruthful
  <2>4. ASSUME NEW r \in Coders, NEW name \in Names, NEW target \in Names, NEW overwrite \in BOOLEAN,
               CopyWithinWorkspace(r, name, target, overwrite)
        PROVE  Informed
    BY <2>4 DEF CopyWithinWorkspace, Puts
  <2>5. ASSUME NEW argv \in Commands, NEW g \in Files, NEW body \in Bodies \cup {Absent},
               NEW commit \in BOOLEAN, RunCommand(argv, g, body, commit)
        PROVE  Informed
    BY <2>5 DEF RunCommand, NoChange
  <2>6. CASE GitReset
    BY <2>6 DEF GitReset, NoChange
  <2>7. ASSUME NEW r \in Coders, Restarted(r) PROVE Informed
    BY <2>7 DEF Restarted
  <2>. HIDE DEF Informed, f
  <2>. QED BY <2>1, <2>2, <2>3, <2>4, <2>5, <2>6, <2>7 DEF CodingNext
<1>. QED BY <1>1, <1>2, <1>3, PTL DEF CodingSpec, ChangesAreInformed

-----------------------------------------------------------------------------
(* The stream of a run's journal.                                            *)

\* A set of numbers that is not empty has a least one.
LEMMA LeastNumber ==
    ASSUME NEW S \in SUBSET Nat, S # {}
    PROVE  \E n \in S : \A m \in 0..(n - 1) : m \notin S
<1>. DEFINE R == OpToRel(<, Nat)
<1>1. IsWellFoundedOn(R, Nat)
  BY NatLessThanWellFounded
<1>2. PICK n \in S : \A y \in Nat : <<y, n>> \in R => y \notin S
  BY <1>1, WFMin
<1>3. \A y \in Nat : y < n => <<y, n>> \in R
  BY DEF OpToRel
<1>. HIDE DEF R
<1>4. ASSUME NEW m \in 0..(n - 1) PROVE m \notin S
  <2>1. m \in Nat /\ m < n
    OBVIOUS
  <2>. QED BY <1>2, <1>3, <2>1
<1>. QED BY <1>4

(* The data model as the fold of any tape, and what makes a function it.     *)
DeltaOf(tp, s, i) ==
    CASE tp[i] = "patch" -> [s EXCEPT !.patches = Append(@, i)]
      [] tp[i] \in ResultNodes ->
            [s EXCEPT !.results = [n \in DOMAIN @ \cup {tp[i]} |-> IF n = tp[i] THEN i ELSE @[n]]]
      [] OTHER -> s

ModelOf(tp, k) ==
    LET after[i \in 0..k] == IF i = 0 THEN EmptyState ELSE DeltaOf(tp, after[i - 1], i)
    IN after[k]

IsFold(tp, k, f) == f = [i \in 0..k |-> IF i = 0 THEN EmptyState ELSE DeltaOf(tp, f[i - 1], i)]

\* The data model a page holds is the fold of the tape up to that point: the
\* definition below only takes the tape as a parameter.
LEMMA ModelOfTape == \A k : DataModel(k) = ModelOf(tape, k)
BY DEF DataModel, ModelOf, Delta, DeltaOf

\* Every prefix of a tape can be folded.
LEMMA FoldsExist ==
    ASSUME NEW tp
    PROVE  \A k \in Nat : \E f : IsFold(tp, k, f)
<1>. DEFINE S == {k \in Nat : ~\E f : IsFold(tp, k, f)}
<1>. SUFFICES ASSUME S # {} PROVE FALSE
  OBVIOUS
<1>1. PICK n \in S : \A m \in 0..(n - 1) : m \notin S
  BY LeastNumber
<1>2. CASE n = 0
  <2>. DEFINE f == [i \in 0..0 |-> EmptyState]
  <2>1. IsFold(tp, 0, f)
    BY DEF IsFold
  <2>. HIDE DEF f
  <2>. QED BY <1>1, <1>2, <2>1
<1>3. CASE n # 0
  <2>1. PICK f : IsFold(tp, n - 1, f)
    BY <1>1, <1>3
  <2>. DEFINE g == [i \in 0..n |-> IF i = n THEN DeltaOf(tp, f[n - 1], n) ELSE f[i]]
  <2>2. \A i \in 0..n : g[i] = IF i = n THEN DeltaOf(tp, f[n - 1], n) ELSE f[i]
    OBVIOUS
  <2>3. g = [i \in 0..n |-> g[i]]
    OBVIOUS
  <2>. HIDE DEF g
  <2>4. ASSUME NEW i \in 0..n PROVE g[i] = IF i = 0 THEN EmptyState ELSE DeltaOf(tp, g[i - 1], i)
    <3>1. CASE i = n
      <4>1. i - 1 \in 0..n /\ i - 1 # n
        BY <1>1, <1>3, <3>1
      <4>. QED BY <1>3, <2>2, <3>1, <4>1
    <3>2. CASE i # n
      <4>1. i \in 0..(n - 1) /\ (i # 0 => i - 1 \in 0..n /\ i - 1 # n)
        BY <1>1, <3>2
      <4>2. f[i] = IF i = 0 THEN EmptyState ELSE DeltaOf(tp, f[i - 1], i)
        BY <2>1, <4>1 DEF IsFold
      <4>. QED BY <2>2, <3>2, <4>1, <4>2
    <3>. QED BY <3>1, <3>2
  <2>5. IsFold(tp, n, g)
    BY <2>3, <2>4 DEF IsFold
  <2>. QED BY <1>1, <2>5
<1>. QED BY <1>2, <1>3

(* Folds of tapes that agree so far agree so far.                            *)
LEMMA FoldsAgree ==
    ASSUME NEW tp, NEW tq, NEW k \in Nat, NEW m \in Nat, NEW n \in Nat, NEW f, NEW g,
           IsFold(tp, m, f), IsFold(tq, n, g), k <= m, k <= n,
           \A i \in 1..k : tp[i] = tq[i]
    PROVE  f[k] = g[k]
<1>. DEFINE S == {i \in Nat : i <= k /\ f[i] # g[i]}
<1>1. ASSUME S # {} PROVE FALSE
  <2>1. PICK i \in S : \A j \in 0..(i - 1) : j \notin S
    BY <1>1, LeastNumber
  <2>2. i \in 0..m /\ i \in 0..n
    BY <2>1
  <2>3. i # 0
    BY <2>1, <2>2 DEF IsFold
  <2>4. i - 1 \in Nat /\ i - 1 <= k /\ i - 1 \in 0..(i - 1) /\ i \in 1..k
    BY <2>1, <2>3
  <2>5. f[i - 1] = g[i - 1] /\ tp[i] = tq[i]
    BY <2>1, <2>4
  <2>6. f[i] = DeltaOf(tp, f[i - 1], i) /\ g[i] = DeltaOf(tq, g[i - 1], i)
    BY <2>2, <2>3 DEF IsFold
  <2>7. f[i] = g[i]
    BY <2>5, <2>6 DEF DeltaOf
  <2>. QED BY <2>1, <2>7
<1>. QED BY <1>1

\* Hence the CHOOSE behind the recursive function picks a fold.
LEMMA ModelIsFold ==
    ASSUME NEW tp, NEW k \in Nat
    PROVE  \E f : IsFold(tp, k, f) /\ ModelOf(tp, k) = f[k]
<1>. DEFINE F == CHOOSE f : IsFold(tp, k, f)
<1>1. IsFold(tp, k, F)
  BY FoldsExist
<1>2. ModelOf(tp, k) = F[k]
  BY DEF ModelOf, IsFold
<1>. QED BY <1>1, <1>2

(* So the recursive definition unfolds, and depends on the prefix alone.     *)
LEMMA ModelUnfolds ==
    ASSUME NEW tp
    PROVE  /\ ModelOf(tp, 0) = EmptyState
           /\ \A k \in Nat \ {0} : ModelOf(tp, k) = DeltaOf(tp, ModelOf(tp, k - 1), k)
<1>1. ModelOf(tp, 0) = EmptyState
  BY ModelIsFold DEF IsFold
<1>2. ASSUME NEW k \in Nat \ {0} PROVE ModelOf(tp, k) = DeltaOf(tp, ModelOf(tp, k - 1), k)
  <2>1. k - 1 \in Nat /\ k \in Nat /\ k - 1 <= k /\ k \in 0..k
    OBVIOUS
  <2>2. PICK f : IsFold(tp, k, f) /\ ModelOf(tp, k) = f[k]
    BY <2>1, ModelIsFold
  <2>3. PICK g : IsFold(tp, k - 1, g) /\ ModelOf(tp, k - 1) = g[k - 1]
    BY <2>1, ModelIsFold
  <2>4. f[k - 1] = g[k - 1]
    <3>. DEFINE p == k - 1
    <3>1. p \in Nat /\ p <= p /\ p <= k /\ \A i \in 1..p : tp[i] = tp[i]
      BY <2>1
    <3>2. IsFold(tp, p, g)
      BY <2>3
    <3>. HIDE DEF p
    <3>3. f[p] = g[p]
      BY <2>2, <3>1, <3>2, FoldsAgree
    <3>. QED BY <3>3 DEF p
  <2>5. f[k] = DeltaOf(tp, f[k - 1], k)
    BY <2>1, <2>2 DEF IsFold
  <2>. QED BY <2>2, <2>3, <2>4, <2>5
<1>. QED BY <1>1, <1>2

\* What a page shows depends on the entries it has consumed and on no later
\* one: two tapes that agree so far show the same.
LEMMA ModelOfPrefix ==
    ASSUME NEW tp, NEW tq, NEW k \in Nat, \A i \in 1..k : tp[i] = tq[i]
    PROVE  ModelOf(tp, k) = ModelOf(tq, k)
<1>1. PICK f : IsFold(tp, k, f) /\ ModelOf(tp, k) = f[k]
  BY ModelIsFold
<1>2. PICK g : IsFold(tq, k, g) /\ ModelOf(tq, k) = g[k]
  BY ModelIsFold
<1>. QED BY <1>1, <1>2, FoldsAgree

StateType == [results : UNION {[A -> Nat] : A \in SUBSET ResultNodes}, patches : Seq(Nat)]
FrameType == [type : {"STATE_SNAPSHOT", "EVENT", "RUN_FINISHED"}, state : StateType, seq : Nat]

StreamTypeOK ==
    /\ tape \in Seq(Entries) /\ runOver \in BOOLEAN
    /\ conn \in [Readers -> {"closed", "open", "lost", "done", "dead"}]
    /\ cursor \in [Readers -> Nat] /\ reached \in [Readers -> Nat]
    /\ wire \in [Readers -> Seq(FrameType)] /\ model \in [Readers -> StateType]
    /\ reconnected \subseteq Page

(* What is shown is the run as it was, and so is every snapshot under way.   *)
ShowsSome(s) == \E k \in 0..Len(tape) : s = DataModel(k)
SnapshotsTrue(r) == \A i \in DOMAIN wire[r] : wire[r][i].type = "STATE_SNAPSHOT" => ShowsSome(wire[r][i].state)

(* A reader that folds all along shows what it reached.                      *)
ShowsReached(r) == /\ reached[r] <= Len(tape) /\ model[r] = DataModel(reached[r])
                   /\ conn[r] = "closed" => reached[r] = 0
                   /\ conn[r] = "done" => runOver /\ model[r] = DataModel(Len(tape))

(* Under way to it are the events from there to the server's cursor, each    *)
(* once and in order, and the end of the run only behind all of them.        *)
Under(r) == cursor[r] - reached[r]
WireInOrder(r) ==
    /\ reached[r] <= cursor[r] /\ cursor[r] <= Len(tape)
    /\ Len(wire[r]) \in {Under(r), Under(r) + 1}
    /\ \A i \in 1..Under(r) : wire[r][i] = AguiEvent(reached[r] + i)
    /\ Len(wire[r]) = Under(r) + 1 => /\ wire[r][Under(r) + 1].type = "RUN_FINISHED"
                                      /\ runOver /\ DataModel(cursor[r]) = DataModel(Len(tape))

ReaderTold(r) == /\ cursor[r] <= Len(tape) /\ ShowsSome(model[r])
                 /\ r \in reconnected /\ conn[r] = "open" => SnapshotsTrue(r)
                 /\ r \notin reconnected => ShowsReached(r)
                 /\ r \notin reconnected /\ conn[r] = "open" => WireInOrder(r)

StreamInv == StreamTypeOK /\ \A r \in Readers : ReaderTold(r)

\* A STATE_DELTA turns a page's state into a page's state.
LEMMA DeltaTyped ==
    ASSUME NEW tp, NEW s \in StateType, NEW i \in Nat
    PROVE  DeltaOf(tp, s, i) \in StateType
<1>1. PICK A \in SUBSET ResultNodes : s.results \in [A -> Nat]
  BY DEF StateType
<1>2. s.patches \in Seq(Nat)
  BY DEF StateType
<1>3. CASE tp[i] = "patch"
  <2>. DEFINE more == Append(s.patches, i)
  <2>1. more \in Seq(Nat)
    BY <1>2
  <2>2. tp[i] \notin ResultNodes
    BY <1>3, StreamConstants
  <2>3. DeltaOf(tp, s, i) = [s EXCEPT !.patches = more]
    BY <1>3, <2>2 DEF DeltaOf
  <2>. HIDE DEF more
  <2>. QED BY <2>1, <2>3 DEF StateType
<1>4. CASE tp[i] # "patch" /\ tp[i] \in ResultNodes
  <2>. DEFINE more == [n \in A \cup {tp[i]} |-> IF n = tp[i] THEN i ELSE s.results[n]]
  <2>1. DOMAIN s.results = A /\ A \cup {tp[i]} \in SUBSET ResultNodes
    BY <1>1, <1>4
  <2>2. more \in [A \cup {tp[i]} -> Nat]
    BY <1>1, <2>1
  <2>3. DeltaOf(tp, s, i) = [s EXCEPT !.results = more]
    BY <1>4, <2>1 DEF DeltaOf
  <2>. HIDE DEF more
  <2>4. more \in UNION {[B -> Nat] : B \in SUBSET ResultNodes}
    BY <2>1, <2>2
  <2>. QED BY <2>3, <2>4 DEF StateType
<1>5. CASE tp[i] # "patch" /\ tp[i] \notin ResultNodes
  BY <1>5 DEF DeltaOf
<1>. QED BY <1>3, <1>4, <1>5

\* The empty page is a state.
LEMMA EmptyTyped == EmptyState \in StateType
<1>1. [n \in {} |-> 0] \in [{} -> Nat] /\ {} \in SUBSET ResultNodes
  OBVIOUS
<1>2. [n \in {} |-> 0] \in UNION {[A -> Nat] : A \in SUBSET ResultNodes}
  BY <1>1
<1>. QED BY <1>2 DEF EmptyState, StateType

\* What a page shows is a state, however much of the tape it has consumed.
LEMMA ModelTyped ==
    ASSUME NEW tp
    PROVE  \A k \in Nat : ModelOf(tp, k) \in StateType
<1>. DEFINE S == {k \in Nat : ModelOf(tp, k) \notin StateType}
<1>. SUFFICES ASSUME S # {} PROVE FALSE
  OBVIOUS
<1>1. PICK k \in S : \A m \in 0..(k - 1) : m \notin S
  BY LeastNumber
<1>2. k # 0
  BY <1>1, ModelUnfolds, EmptyTyped
<1>3. k - 1 \in Nat /\ k - 1 \in 0..(k - 1) /\ k \in Nat \ {0} /\ k \in Nat
  BY <1>1, <1>2
<1>4. ModelOf(tp, k - 1) \in StateType
  BY <1>1, <1>3
<1>5. DeltaOf(tp, ModelOf(tp, k - 1), k) \in StateType
  BY <1>3, <1>4, DeltaTyped
<1>. QED BY <1>1, <1>3, <1>5, ModelUnfolds

\* A run with an empty journal and no page satisfies the invariant.
LEMMA StreamStarts == StreamInit => StreamInv
<1>. SUFFICES ASSUME StreamInit PROVE StreamInv
  OBVIOUS
<1>1. tape = <<"other">> /\ tape \in Seq(Entries) /\ Len(tape) = 1
  BY DEF StreamInit, Entries
<1>2. EmptyState \in StateType /\ EmptyState = DataModel(0)
  BY EmptyTyped, ModelOfTape, ModelUnfolds
<1>3. StreamTypeOK
  <2>1. wire \in [Readers -> Seq(FrameType)] /\ model \in [Readers -> StateType]
    BY <1>2 DEF StreamInit
  <2>. QED BY <1>1, <2>1 DEF StreamInit, StreamTypeOK
<1>4. ASSUME NEW r \in Readers PROVE ReaderTold(r)
  <2>1. /\ cursor[r] = 0 /\ reached[r] = 0 /\ conn[r] = "closed" /\ r \notin reconnected
        /\ model[r] = EmptyState
    BY DEF StreamInit
  <2>2. 0 \in 0..Len(tape)
    BY <1>1
  <2>. QED BY <1>1, <1>2, <2>1, <2>2 DEF ReaderTold, ShowsSome, ShowsReached
<1>. QED BY <1>3, <1>4 DEF StreamInv

(* A reader that a step leaves alone is told what it was.                    *)
LEMMA ReaderLeft ==
    ASSUME NEW r \in Readers, ReaderTold(r), tape' = tape, runOver' = runOver, conn'[r] = conn[r],
           cursor'[r] = cursor[r], wire'[r] = wire[r], model'[r] = model[r], reached'[r] = reached[r],
           r \in reconnected' <=> r \in reconnected
    PROVE  ReaderTold(r)'
<1>1. \A k : DataModel(k)' = DataModel(k)
  BY ModelOfTape DEF DataModel, Delta
<1>2. \A s : ShowsSome(s)' = ShowsSome(s)
  BY <1>1 DEF ShowsSome
<1>. QED BY <1>1, <1>2 DEF ReaderTold, SnapshotsTrue, ShowsReached, WireInOrder, Under

(* The journal grows: what was shown stays true, and once the run is over    *)
(* nothing that is shown is added.                                           *)
LEMMA JournalGrows ==
    ASSUME StreamTypeOK, NEW e \in Entries, Journal(e)
    PROVE  /\ tape' \in Seq(Entries) /\ Len(tape') = Len(tape) + 1 /\ (runOver => runOver')
           /\ \A k \in 0..Len(tape) : DataModel(k)' = DataModel(k)
           /\ runOver => DataModel(Len(tape))' = DataModel(Len(tape))
<1>1. /\ tape \in Seq(Entries) /\ tape' = Append(tape, e) /\ Len(tape) \in Nat
      /\ runOver => e = "other" /\ runOver'
  BY DEF StreamTypeOK, Journal
<1>2. /\ tape' \in Seq(Entries) /\ Len(tape') = Len(tape) + 1 /\ tape'[Len(tape) + 1] = e
      /\ \A i \in 1..Len(tape) : tape'[i] = tape[i]
  BY <1>1
<1>3. \A k : DataModel(k)' = ModelOf(tape', k)
  BY DEF DataModel, ModelOf, Delta, DeltaOf
<1>4. ASSUME NEW k \in 0..Len(tape) PROVE DataModel(k)' = DataModel(k)
  <2>1. k \in Nat /\ \A i \in 1..k : tape'[i] = tape[i]
    BY <1>1, <1>2
  <2>2. ModelOf(tape', k) = ModelOf(tape, k)
    BY <2>1, ModelOfPrefix
  <2>. QED BY <1>3, <2>2, ModelOfTape
<1>5. ASSUME runOver PROVE DataModel(Len(tape))' = DataModel(Len(tape))
  <2>1. Len(tape') \in Nat \ {0} /\ Len(tape') - 1 = Len(tape) /\ Len(tape) \in 0..Len(tape)
    BY <1>1, <1>2
  <2>2. ModelOf(tape', Len(tape')) = DeltaOf(tape', ModelOf(tape', Len(tape)), Len(tape'))
    BY <2>1, ModelUnfolds
  <2>3. tape'[Len(tape')] = "other" /\ "other" \notin ResultNodes
    BY <1>1, <1>2, <1>5, StreamConstants
  <2>4. ModelOf(tape', Len(tape')) = ModelOf(tape', Len(tape))
    BY <2>2, <2>3 DEF DeltaOf
  <2>. QED BY <1>3, <1>4, <2>1, <2>4
<1>. QED BY <1>1, <1>2, <1>4, <1>5

\* A journal entry keeps the invariant: each of its branches appends to the
\* tape the events that bring the page to what the run now says.
LEMMA JournalTells ==
    ASSUME StreamInv, NEW e \in Entries, Journal(e)
    PROVE  StreamInv'
<1>1. /\ tape' \in Seq(Entries) /\ Len(tape') = Len(tape) + 1 /\ (runOver => runOver')
      /\ \A k \in 0..Len(tape) : DataModel(k)' = DataModel(k)
      /\ runOver => DataModel(Len(tape))' = DataModel(Len(tape))
  BY JournalGrows DEF StreamInv
<1>2. UNCHANGED <<conn, cursor, wire, model, reached, reconnected>> /\ runOver' \in BOOLEAN
  BY DEF Journal, StreamInv, StreamTypeOK
<1>3. StreamTypeOK'
  BY <1>1, <1>2 DEF StreamInv, StreamTypeOK
<1>4. Len(tape) \in Nat /\ \A r \in Readers : reached[r] \in Nat /\ cursor[r] \in Nat
  BY DEF StreamInv, StreamTypeOK
<1>5. ASSUME NEW s, ShowsSome(s) PROVE ShowsSome(s)'
  <2>1. PICK k \in 0..Len(tape) : s = DataModel(k)
    BY <1>5 DEF ShowsSome
  <2>2. k \in 0..Len(tape')
    BY <1>1, <1>4
  <2>. QED BY <1>1, <2>1, <2>2 DEF ShowsSome
<1>6. ASSUME NEW r \in Readers PROVE ReaderTold(r)'
  <2>1. ReaderTold(r)
    BY DEF StreamInv
  <2>2. (cursor[r] <= Len(tape) /\ ShowsSome(model[r]))'
    BY <1>1, <1>2, <1>4, <1>5, <2>1 DEF ReaderTold
  <2>3. (r \in reconnected /\ conn[r] = "open" => SnapshotsTrue(r))'
    BY <1>2, <1>5, <2>1 DEF ReaderTold, SnapshotsTrue
  <2>4. ASSUME r \notin reconnected PROVE ShowsReached(r)'
    <3>1. ShowsReached(r) /\ reached[r] \in 0..Len(tape)
      BY <1>4, <2>1, <2>4 DEF ReaderTold, ShowsReached
    <3>2. DataModel(reached[r])' = DataModel(reached[r])
      BY <1>1, <1>2, <3>1
    <3>. QED BY <1>1, <1>2, <1>4, <3>1, <3>2 DEF ShowsReached
  <2>5. ASSUME r \notin reconnected, conn[r] = "open" PROVE WireInOrder(r)'
    <3>1. WireInOrder(r) /\ cursor[r] \in 0..Len(tape)
      BY <1>4, <2>1, <2>5 DEF ReaderTold
    <3>2. DataModel(cursor[r])' = DataModel(cursor[r])
      BY <1>1, <1>2, <3>1
    <3>. QED BY <1>1, <1>2, <1>4, <3>1, <3>2 DEF WireInOrder, Under
  <2>. QED BY <1>2, <2>2, <2>3, <2>4, <2>5 DEF ReaderTold
<1>. QED BY <1>3, <1>6 DEF StreamInv

(* A connection opens at what the reader reached, or with a snapshot.        *)
LEMMA ConnectTells ==
    ASSUME StreamInv, NEW r \in Readers, Connect(r)
    PROVE  StreamInv'
<1>. DEFINE again == r \in Page /\ conn[r] = "lost"
            first == Snapshot(DataModel(Len(tape)))
<1>0. /\ StreamTypeOK /\ ReaderTold(r) /\ Len(tape) \in Nat
      /\ reached[r] \in Nat /\ 0 \in 0..Len(tape) /\ Len(tape) \in 0..Len(tape)
  BY DEF StreamInv, StreamTypeOK
<1>1. /\ UNCHANGED <<tape, runOver, model, reached>> /\ conn[r] \in {"closed", "lost"}
      /\ conn' = [conn EXCEPT ![r] = "open"]
      /\ cursor' = [cursor EXCEPT ![r] = IF r \in Page THEN 0 ELSE reached[r]]
      /\ wire' = [wire EXCEPT ![r] = IF again THEN <<first>> ELSE <<>>]
      /\ reconnected' = IF again THEN reconnected \cup {r} ELSE reconnected
  BY DEF Connect
<1>2. \A k : DataModel(k)' = DataModel(k)
  BY <1>1, ModelOfTape DEF DataModel, Delta
<1>3. first \in FrameType /\ first.type = "STATE_SNAPSHOT" /\ first.state = DataModel(Len(tape))
  <2>1. DataModel(Len(tape)) \in StateType
    BY <1>0, ModelOfTape, ModelTyped
  <2>. QED BY <2>1 DEF Snapshot, FrameType
<1>. HIDE DEF first
<1>4. StreamTypeOK'
  <2>1. <<first>> \in Seq(FrameType) /\ <<>> \in Seq(FrameType)
    BY <1>3
  <2>. QED BY <1>0, <1>1, <2>1 DEF StreamTypeOK
<1>5. /\ conn'[r] = "open" /\ cursor'[r] = (IF r \in Page THEN 0 ELSE reached[r])
      /\ wire'[r] = IF again THEN <<first>> ELSE <<>>
  BY <1>0, <1>1 DEF StreamTypeOK
<1>6. \A s : ShowsSome(s)' = ShowsSome(s)
  BY <1>1, <1>2 DEF ShowsSome
<1>7. ReaderTold(r)'
  <2>1. CASE r \in reconnected'
    <3>1. SnapshotsTrue(r)'
      <4>1. ASSUME NEW i \in DOMAIN wire'[r] PROVE wire'[r][i] = first
        BY <1>5, <4>1
      <4>2. ShowsSome(first.state)
        BY <1>0, <1>3 DEF ShowsSome
      <4>. QED BY <1>6, <4>1, <4>2 DEF SnapshotsTrue
    <3>2. cursor'[r] <= Len(tape)
      <4>1. r \in Page
        BY <1>0, <1>1, <2>1 DEF StreamTypeOK
      <4>. QED BY <1>0, <1>5, <4>1
    <3>. QED BY <1>0, <1>1, <1>6, <2>1, <3>1, <3>2 DEF ReaderTold
  <2>2. CASE r \notin reconnected'
    <3>1. ~again /\ r \notin reconnected
      BY <1>1, <2>2
    <3>2. ShowsReached(r) /\ (r \in Page => conn[r] = "closed")
      BY <1>0, <1>1, <3>1 DEF ReaderTold
    <3>3. cursor'[r] = reached[r] /\ wire'[r] = <<>>
      BY <1>5, <3>1, <3>2 DEF ShowsReached
    <3>4. ShowsReached(r)'
      BY <1>1, <1>2, <1>5, <3>2 DEF ShowsReached
    <3>5. WireInOrder(r)'
      BY <1>0, <1>1, <3>2, <3>3 DEF WireInOrder, Under, ShowsReached
    <3>. QED BY <1>0, <1>1, <1>6, <2>2, <3>3, <3>4, <3>5, <3>2 DEF ReaderTold, ShowsReached
  <2>. QED BY <2>1, <2>2
<1>8. ASSUME NEW q \in Readers \ {r} PROVE ReaderTold(q)'
  <2>1. /\ conn'[q] = conn[q] /\ cursor'[q] = cursor[q] /\ wire'[q] = wire[q]
        /\ q \in reconnected' <=> q \in reconnected
    BY <1>0, <1>1 DEF StreamTypeOK
  <2>. QED BY <1>1, <2>1, ReaderLeft DEF StreamInv
<1>. QED BY <1>4, <1>7, <1>8 DEF StreamInv

\* Where the elements of a concatenation come from.
LEMMA Concatenated ==
    ASSUME NEW S, NEW s \in Seq(S), NEW t \in Seq(S)
    PROVE  /\ s \o t \in Seq(S) /\ Len(s \o t) = Len(s) + Len(t)
           /\ \A i \in 1..Len(s) : (s \o t)[i] = s[i]
           /\ \A i \in 1..Len(t) : (s \o t)[Len(s) + i] = t[i]
OBVIOUS

\* The same for three sequences, the shape of what one journal entry puts on
\* the tape.
LEMMA ThreeParts ==
    ASSUME NEW S, NEW s \in Seq(S), NEW t \in Seq(S), NEW u \in Seq(S), NEW x, x = s \o t \o u
    PROVE  /\ x \in Seq(S) /\ Len(x) = Len(s) + Len(t) + Len(u)
           /\ Len(s) \in Nat /\ Len(t) \in Nat /\ Len(u) \in Nat
           /\ \A i \in 1..Len(s) : x[i] = s[i]
           /\ \A i \in 1..Len(t) : x[Len(s) + i] = t[i]
           /\ \A i \in 1..Len(u) : x[Len(s) + Len(t) + i] = u[i]
<1>1. PICK v \in Seq(S) : v = s \o t
  BY Concatenated
<1>2. /\ Len(v) = Len(s) + Len(t) /\ Len(s) \in Nat /\ Len(t) \in Nat /\ Len(u) \in Nat
      /\ \A i \in 1..Len(s) : v[i] = s[i]
      /\ \A i \in 1..Len(t) : v[Len(s) + i] = t[i]
  BY <1>1, Concatenated
<1>3. v \o u \in Seq(S) /\ Len(v \o u) = Len(v) + Len(u)
  OBVIOUS
<1>4. \A i \in 1..Len(v) : (v \o u)[i] = v[i]
  BY Concatenated
<1>5. \A i \in 1..Len(u) : (v \o u)[Len(v) + i] = u[i]
  BY Concatenated
<1>6. /\ \A i \in 1..Len(s) : i \in 1..Len(v)
      /\ \A i \in 1..Len(t) : Len(s) + i \in 1..Len(v)
  BY <1>2
<1>7. /\ \A i \in 1..Len(s) : (v \o u)[i] = s[i]
      /\ \A i \in 1..Len(t) : (v \o u)[Len(s) + i] = t[i]
      /\ \A i \in 1..Len(u) : (v \o u)[Len(s) + Len(t) + i] = u[i]
  BY <1>2, <1>4, <1>5, <1>6
<1>. QED BY <1>1, <1>2, <1>3, <1>7

(* A round sends what the reader is missing, and the end behind it.          *)
LEMMA ServeTells ==
    ASSUME StreamInv, NEW r \in Readers, Serve(r)
    PROVE  StreamInv'
<1>. DEFINE m == Len(tape) - cursor[r]
            w == wire[r]
            more == [i \in 1..m |-> AguiEvent(cursor[r] + i)]
            end == IF Over THEN <<RunFinished(Len(tape) + 1)>> ELSE <<>>
            sent == w \o more \o end
<1>0. /\ StreamTypeOK /\ ReaderTold(r) /\ Len(tape) \in Nat
      /\ reached[r] \in Nat /\ cursor[r] \in Nat /\ cursor[r] <= Len(tape) /\ m \in Nat
      /\ w \in Seq(FrameType)
  BY DEF StreamInv, StreamTypeOK, ReaderTold
<1>1. /\ UNCHANGED <<tape, runOver, conn, model, reached, reconnected>>
      /\ conn[r] = "open" /\ \A i \in DOMAIN w : w[i].type # "RUN_FINISHED"
      /\ cursor' = [cursor EXCEPT ![r] = Len(tape)]
      /\ wire' = [wire EXCEPT ![r] = w \o more \o end]
  BY DEF Serve, Sending
<1>2. more \in Seq(FrameType) /\ Len(more) = m /\ \A i \in 1..m : more[i] = AguiEvent(cursor[r] + i)
  <2>1. \A i \in 1..m : AguiEvent(cursor[r] + i) \in FrameType
    BY <1>0, EmptyTyped DEF AguiEvent, FrameType
  <2>. QED BY <1>0, <2>1
<1>3. /\ end \in Seq(FrameType) /\ Len(end) \in {0, 1} /\ (Len(end) = 1 => runOver)
      /\ \A i \in 1..Len(end) : end[i].type = "RUN_FINISHED"
  <2>1. RunFinished(Len(tape) + 1) \in FrameType /\ RunFinished(Len(tape) + 1).type = "RUN_FINISHED"
    BY <1>0, EmptyTyped DEF RunFinished, FrameType
  <2>. QED BY <2>1 DEF Over
<1>. HIDE DEF more, end
<1>4. /\ sent \in Seq(FrameType) /\ Len(sent) = Len(w) + m + Len(end) /\ Len(w) \in Nat
      /\ \A i \in 1..Len(w) : sent[i] = w[i]
      /\ \A i \in 1..m : sent[Len(w) + i] = more[i]
      /\ \A i \in 1..Len(end) : sent[Len(w) + m + i] = end[i]
  <2>. HIDE DEF w
  <2>1. sent = w \o more \o end
    OBVIOUS
  <2>. HIDE DEF m, sent
  <2>2. w \in Seq(FrameType) /\ more \in Seq(FrameType) /\ end \in Seq(FrameType)
    BY <1>0, <1>2, <1>3
  <2>3. sent \in Seq(FrameType) /\ Len(sent) = Len(w) + Len(more) + Len(end) /\ Len(w) \in Nat
    BY <2>1, <2>2, ThreeParts
  <2>4. \A i \in 1..Len(w) : sent[i] = w[i]
    BY <2>1, <2>2, ThreeParts
  <2>5. \A i \in 1..Len(more) : sent[Len(w) + i] = more[i]
    BY <2>1, <2>2, ThreeParts
  <2>6. \A i \in 1..Len(end) : sent[Len(w) + Len(more) + i] = end[i]
    BY <2>1, <2>2, ThreeParts
  <2>. QED BY <1>2, <2>3, <2>4, <2>5, <2>6
<1>5. cursor'[r] = Len(tape) /\ wire'[r] = sent
  BY <1>0, <1>1 DEF StreamTypeOK
<1>. HIDE DEF sent
<1>6. StreamTypeOK'
  <2>1. wire' = [wire EXCEPT ![r] = sent]
    BY <1>1 DEF sent
  <2>2. cursor' \in [Readers -> Nat] /\ wire' \in [Readers -> Seq(FrameType)]
    BY <1>0, <1>1, <1>4, <2>1 DEF StreamTypeOK
  <2>. QED BY <1>0, <1>1, <2>2 DEF StreamTypeOK
<1>7. \A k : DataModel(k)' = DataModel(k)
  BY <1>1, ModelOfTape DEF DataModel, Delta
<1>8. \A s : ShowsSome(s)' = ShowsSome(s)
  BY <1>1, <1>7 DEF ShowsSome
<1>9. r \in reconnected => SnapshotsTrue(r)'
  <2>. SUFFICES ASSUME r \in reconnected, NEW i \in DOMAIN sent, sent[i].type = "STATE_SNAPSHOT"
                PROVE  ShowsSome(sent[i].state)
    BY <1>5, <1>8 DEF SnapshotsTrue
  <2>1. CASE i \in 1..Len(w)
    <3>1. i \in DOMAIN w
      BY <1>0, <2>1
    <3>. QED BY <1>0, <1>1, <1>4, <2>1, <3>1 DEF ReaderTold, SnapshotsTrue
  <2>2. CASE i - Len(w) \in 1..m
    <3>1. sent[i] = AguiEvent(cursor[r] + (i - Len(w)))
      <4>1. Len(w) + (i - Len(w)) = i
        BY <1>4, <2>2
      <4>. QED BY <1>2, <1>4, <2>2, <4>1
    <3>. QED BY <3>1 DEF AguiEvent
  <2>3. CASE i - Len(w) - m \in 1..Len(end)
    <3>1. sent[i].type = "RUN_FINISHED"
      <4>1. Len(w) + m + (i - Len(w) - m) = i
        BY <1>0, <1>4, <2>3
      <4>. QED BY <1>3, <1>4, <2>3, <4>1
    <3>. QED BY <3>1
  <2>4. i \in 1..Len(sent) /\ Len(sent) = Len(w) + m + Len(end)
    BY <1>4
  <2>5. i \in 1..Len(w) \/ i - Len(w) \in 1..m \/ i - Len(w) - m \in 1..Len(end)
    <3>1. Len(w) \in Nat /\ m \in Nat /\ Len(end) \in Nat
      BY <1>0, <1>3, <1>4
    <3>. HIDE DEF w, m
    <3>. QED BY <2>4, <3>1
  <2>. QED BY <2>1, <2>2, <2>3, <2>5
<1>10. ASSUME r \notin reconnected PROVE WireInOrder(r)' /\ ShowsReached(r)'
  <2>1. WireInOrder(r) /\ ShowsReached(r)
    BY <1>0, <1>1, <1>10 DEF ReaderTold
  <2>2. Len(w) = Under(r) /\ Under(r) \in Nat
    <3>1. Under(r) \in Nat
      BY <1>0, <2>1 DEF WireInOrder, Under
    <3>2. Len(w) # Under(r) + 1
      BY <1>0, <1>1, <2>1, <3>1 DEF WireInOrder
    <3>. QED BY <2>1, <3>1, <3>2 DEF WireInOrder
  <2>3. Under(r)' = Under(r) + m /\ Under(r) = cursor[r] - reached[r]
    BY <1>0, <1>1, <1>5 DEF Under
  <2>. HIDE DEF m, w
  <2>4. ASSUME NEW i \in 1..(Under(r) + m) PROVE sent[i] = AguiEvent(reached[r] + i)
    <3>1. CASE i \in 1..Len(w)
      <4>1. w[i] = AguiEvent(reached[r] + i)
        BY <2>1, <2>2, <3>1 DEF WireInOrder, w
      <4>. QED BY <1>4, <3>1, <4>1
    <3>2. CASE i - Len(w) \in 1..m
      <4>1. Len(w) + (i - Len(w)) = i /\ cursor[r] + (i - Len(w)) = reached[r] + i
        BY <1>0, <2>2, <2>3, <3>2
      <4>. QED BY <1>2, <1>4, <3>2, <4>1
    <3>. QED BY <1>0, <2>2, <3>1, <3>2
  <2>5. ASSUME Len(end) = 1 PROVE sent[Under(r) + m + 1].type = "RUN_FINISHED"
    BY <1>3, <1>4, <2>2, <2>5
  <2>6. WireInOrder(r)'
    <3>1. reached'[r] <= cursor'[r] /\ cursor'[r] <= Len(tape')
      <4>1. reached[r] <= cursor[r] /\ reached'[r] = reached[r] /\ Len(tape') = Len(tape)
        BY <1>1, <2>1 DEF WireInOrder
      <4>. QED BY <1>0, <1>5, <4>1
    <3>2. Len(sent) \in {Under(r)', Under(r)' + 1} /\ (Len(sent) = Under(r)' + 1 => Len(end) = 1)
      <4>1. Len(sent) = Under(r)' + Len(end) /\ Under(r)' \in Nat
        BY <1>0, <1>3, <1>4, <2>2, <2>3
      <4>. QED BY <1>3, <4>1
    <3>3. \A i \in 1..Under(r)' : sent[i] = AguiEvent(reached'[r] + i)
      BY <1>1, <2>3, <2>4
    <3>4. Len(sent) = Under(r)' + 1 =>
             /\ sent[Under(r)' + 1].type = "RUN_FINISHED" /\ runOver'
             /\ DataModel(cursor[r])' = DataModel(Len(tape))'
      BY <1>1, <1>3, <1>5, <2>3, <2>5, <3>2
    <3>. QED BY <1>5, <3>1, <3>2, <3>3, <3>4 DEF WireInOrder
  <2>7. ShowsReached(r)'
    BY <1>1, <1>7, <2>1 DEF ShowsReached
  <2>. QED BY <2>6, <2>7
<1>11. ReaderTold(r)'
  BY <1>0, <1>1, <1>5, <1>8, <1>9, <1>10 DEF ReaderTold
<1>12. ASSUME NEW q \in Readers \ {r} PROVE ReaderTold(q)'
  <2>1. cursor'[q] = cursor[q] /\ wire'[q] = wire[q]
    BY <1>0, <1>1 DEF StreamTypeOK
  <2>. QED BY <1>1, <2>1, ReaderLeft DEF StreamInv
<1>. QED BY <1>6, <1>11, <1>12 DEF StreamInv

(* A reader takes one frame: the next entry it misses, the snapshot it       *)
(* reconnected with, or the end, which comes when it misses nothing.         *)
LEMMA ReceiveTells ==
    ASSUME StreamInv, NEW r \in Readers, Receive(r)
    PROVE  StreamInv'
<1>. DEFINE w == wire[r]
            frame == Head(w)
            shownNow == CASE frame.type = "STATE_SNAPSHOT" -> frame.state
                          [] frame.type = "EVENT"          -> Folded(r, frame)
                          [] OTHER                         -> model[r]
            rest == Tail(w)
<1>0. /\ StreamTypeOK /\ ReaderTold(r) /\ Len(tape) \in Nat
      /\ reached[r] \in Nat /\ cursor[r] \in Nat /\ cursor[r] <= Len(tape)
      /\ w \in Seq(FrameType) /\ w # <<>> /\ model[r] \in StateType
  BY DEF StreamInv, StreamTypeOK, ReaderTold, Receive
<1>1. /\ UNCHANGED <<tape, runOver, cursor, reconnected>>
      /\ conn[r] = "open"
      /\ model' = [model EXCEPT ![r] = shownNow]
      /\ reached' = [reached EXCEPT ![r] = IF frame.type = "EVENT" THEN frame.seq ELSE reached[r]]
      /\ conn' = [conn EXCEPT ![r] = IF frame.type = "RUN_FINISHED" THEN "done" ELSE conn[r]]
      /\ wire' = [wire EXCEPT ![r] = rest]
  BY DEF Receive
<1>2. /\ frame = w[1] /\ frame \in FrameType /\ Len(w) \in Nat \ {0} /\ 1 \in DOMAIN w
      /\ rest \in Seq(FrameType) /\ Len(rest) = Len(w) - 1
      /\ \A i \in 1..(Len(w) - 1) : rest[i] = w[i + 1]
  BY <1>0
<1>. HIDE DEF frame, rest
<1>3. shownNow \in StateType
  <2>1. frame.state \in StateType /\ frame.seq \in Nat
    BY <1>2 DEF FrameType
  <2>2. Folded(r, frame) \in StateType
    <3>1. DeltaOf(tape, model[r], frame.seq) \in StateType
      BY <1>0, <2>1, DeltaTyped
    <3>. QED BY <1>0, <3>1 DEF Folded, Delta, DeltaOf
  <2>. HIDE DEF w
  <2>. QED BY <1>0, <2>1, <2>2
<1>. HIDE DEF shownNow
<1>4. /\ model'[r] = shownNow /\ wire'[r] = rest
      /\ reached'[r] = IF frame.type = "EVENT" THEN frame.seq ELSE reached[r]
      /\ conn'[r] = IF frame.type = "RUN_FINISHED" THEN "done" ELSE "open"
  BY <1>0, <1>1 DEF StreamTypeOK
<1>5. StreamTypeOK'
  <2>1. frame.seq \in Nat
    BY <1>2 DEF FrameType
  <2>2. wire' \in [Readers -> Seq(FrameType)] /\ model' \in [Readers -> StateType]
    BY <1>0, <1>1, <1>2, <1>3 DEF StreamTypeOK
  <2>. QED BY <1>0, <1>1, <2>1, <2>2 DEF StreamTypeOK
<1>6. \A k : DataModel(k)' = DataModel(k)
  BY <1>1, ModelOfTape DEF DataModel, Delta
<1>7. \A s : ShowsSome(s)' = ShowsSome(s)
  BY <1>1, <1>6 DEF ShowsSome
<1>8. reconnected' = reconnected /\ cursor'[r] <= Len(tape')
  BY <1>0, <1>1
<1>9. ASSUME r \in reconnected PROVE ReaderTold(r)'
  <2>1. SnapshotsTrue(r) /\ ShowsSome(model[r])
    BY <1>0, <1>1, <1>9 DEF ReaderTold
  <2>2. ShowsSome(shownNow)
    <3>1. CASE frame.type = "STATE_SNAPSHOT"
      BY <1>2, <2>1, <3>1 DEF shownNow, SnapshotsTrue
    <3>2. CASE frame.type # "STATE_SNAPSHOT"
      BY <1>9, <2>1, <3>2 DEF shownNow, Folded
    <3>. QED BY <3>1, <3>2
  <2>3. SnapshotsTrue(r)'
    <3>1. ASSUME NEW i \in DOMAIN rest, rest[i].type = "STATE_SNAPSHOT" PROVE ShowsSome(rest[i].state)
      <4>1. i \in 1..(Len(w) - 1) /\ i + 1 \in DOMAIN w
        BY <1>0, <1>2
      <4>2. rest[i] = w[i + 1]
        BY <1>2, <4>1
      <4>. QED BY <2>1, <3>1, <4>1, <4>2 DEF SnapshotsTrue
    <3>. QED BY <1>4, <1>7, <3>1 DEF SnapshotsTrue
  <2>4. ShowsSome(model[r])'
    BY <1>1, <1>4, <1>6, <2>2 DEF ShowsSome
  <2>. QED BY <1>8, <1>9, <2>3, <2>4 DEF ReaderTold
<1>10. ASSUME r \notin reconnected PROVE ReaderTold(r)'
  <2>1. WireInOrder(r) /\ ShowsReached(r)
    BY <1>0, <1>1, <1>10 DEF ReaderTold
  <2>2. Under(r) \in Nat /\ Under(r) = cursor[r] - reached[r]
    BY <1>0, <2>1 DEF WireInOrder, Under
  <2>3. CASE Under(r) > 0
    <3>1. frame = AguiEvent(reached[r] + 1)
      <4>1. 1 \in 1..Under(r)
        BY <2>2, <2>3
      <4>. QED BY <1>2, <2>1, <4>1 DEF WireInOrder
    <3>2. frame.type = "EVENT" /\ frame.seq = reached[r] + 1
      BY <3>1 DEF AguiEvent
    <3>3. /\ reached'[r] = reached[r] + 1 /\ conn'[r] = "open" /\ reached[r] + 1 \in Nat \ {0}
          /\ reached[r] + 1 <= cursor[r]
      BY <1>0, <1>4, <2>2, <2>3, <3>2
    <3>4. shownNow = DataModel(reached[r] + 1)
      <4>1. shownNow = DeltaOf(tape, model[r], reached[r] + 1)
        BY <1>10, <3>2 DEF shownNow, Folded, Delta, DeltaOf
      <4>2. model[r] = ModelOf(tape, reached[r])
        BY <2>1, ModelOfTape DEF ShowsReached
      <4>3. PICK k \in Nat \ {0} : k = reached[r] + 1 /\ k - 1 = reached[r]
        BY <1>0, <3>3
      <4>4. ModelOf(tape, k) = DeltaOf(tape, ModelOf(tape, k - 1), k)
        BY ModelUnfolds
      <4>. QED BY <4>1, <4>2, <4>3, <4>4, ModelOfTape
    <3>5. ShowsReached(r)' /\ ShowsSome(model[r])'
      <4>1. reached[r] + 1 <= Len(tape) /\ reached[r] + 1 \in 0..Len(tape)
        BY <1>0, <3>3
      <4>2. model'[r] = DataModel(reached[r] + 1)
        BY <1>4, <3>4
      <4>3. ShowsReached(r)'
        BY <1>1, <1>6, <3>3, <4>1, <4>2 DEF ShowsReached
      <4>. QED BY <1>7, <4>1, <4>2, <4>3 DEF ShowsSome
    <3>6. WireInOrder(r)'
      <4>1. Under(r)' = Under(r) - 1
        BY <1>0, <1>1, <2>2, <3>3 DEF Under
      <4>2. Len(rest) \in {Under(r)', Under(r)' + 1} /\ (Len(rest) = Under(r)' + 1 => Len(w) = Under(r) + 1)
        <5>1. Len(w) \in {Under(r), Under(r) + 1}
          BY <2>1 DEF WireInOrder
        <5>. QED BY <1>2, <2>2, <4>1, <5>1
      <4>3. ASSUME NEW i \in 1..(Under(r) - 1) PROVE rest[i] = AguiEvent(reached[r] + 1 + i)
        <5>1. i \in 1..(Len(w) - 1) /\ i + 1 \in 1..Under(r) /\ reached[r] + 1 + i = reached[r] + (i + 1)
          <6>1. Len(w) \in {Under(r), Under(r) + 1}
            BY <2>1 DEF WireInOrder
          <6>2. Under(r) \in Int /\ reached[r] \in Nat
            BY <1>0 DEF Under
          <6>. HIDE DEF w
          <6>. QED BY <6>1, <6>2
        <5>2. w[i + 1] = AguiEvent(reached[r] + (i + 1))
          BY <2>1, <5>1 DEF WireInOrder
        <5>. QED BY <1>2, <5>1, <5>2
      <4>4. ASSUME Len(rest) = Under(r)' + 1 PROVE rest[Under(r)' + 1].type = "RUN_FINISHED"
        <5>1. Len(w) = Under(r) + 1 /\ Under(r)' + 1 = Under(r) /\ Under(r) \in 1..(Len(w) - 1)
          BY <1>2, <2>2, <2>3, <4>1, <4>2, <4>4
        <5>2. rest[Under(r)] = w[Under(r) + 1]
          BY <1>2, <5>1
        <5>. QED BY <2>1, <5>1, <5>2 DEF WireInOrder
      <4>5. Len(rest) = Under(r)' + 1 => runOver /\ DataModel(cursor[r]) = DataModel(Len(tape))
        BY <2>1, <4>2 DEF WireInOrder
      <4>6. reached'[r] <= cursor'[r] /\ cursor'[r] <= Len(tape')
        BY <1>0, <1>1, <3>3
      <4>7. \A i \in 1..Under(r)' : rest[i] = AguiEvent(reached'[r] + i)
        BY <3>3, <4>1, <4>3
      <4>8. Len(rest) = Under(r)' + 1 =>
               /\ rest[Under(r)' + 1].type = "RUN_FINISHED" /\ runOver'
               /\ DataModel(cursor[r])' = DataModel(Len(tape))'
        BY <1>1, <1>6, <4>4, <4>5
      <4>. QED BY <1>4, <4>2, <4>6, <4>7, <4>8 DEF WireInOrder
    <3>. QED BY <1>10, <1>8, <3>5, <3>6 DEF ReaderTold
  <2>4. CASE Under(r) = 0
    <3>1. Len(w) = Under(r) + 1 /\ reached[r] = cursor[r]
      BY <1>0, <1>2, <2>1, <2>2, <2>4 DEF WireInOrder
    <3>2. frame.type = "RUN_FINISHED" /\ runOver /\ DataModel(cursor[r]) = DataModel(Len(tape))
      BY <1>2, <2>1, <2>4, <3>1 DEF WireInOrder
    <3>3. conn'[r] = "done" /\ model'[r] = model[r] /\ reached'[r] = reached[r]
      BY <1>4, <3>2 DEF shownNow
    <3>4. ShowsReached(r)'
      BY <1>1, <1>6, <2>1, <3>1, <3>2, <3>3 DEF ShowsReached
    <3>5. ShowsSome(model[r])'
      BY <1>0, <1>1, <1>6, <3>3 DEF ShowsSome, ReaderTold
    <3>. QED BY <1>10, <1>8, <3>3, <3>4, <3>5 DEF ReaderTold
  <2>. QED BY <2>2, <2>3, <2>4
<1>11. ASSUME NEW q \in Readers \ {r} PROVE ReaderTold(q)'
  <2>1. /\ conn'[q] = conn[q] /\ wire'[q] = wire[q] /\ model'[q] = model[q] /\ reached'[q] = reached[q]
    BY <1>0, <1>1 DEF StreamTypeOK
  <2>. QED BY <1>1, <2>1, ReaderLeft DEF StreamInv
<1>. QED BY <1>5, <1>9, <1>10, <1>11 DEF StreamInv

(* A connection that breaks leaves the reader what it showed.                *)
LEMMA LoseTells ==
    ASSUME StreamInv, NEW r \in Readers, Lose(r)
    PROVE  StreamInv'
<1>0. StreamTypeOK /\ ReaderTold(r)
  BY DEF StreamInv
<1>1. /\ UNCHANGED <<tape, runOver, cursor, model, reached, reconnected>>
      /\ conn' = [conn EXCEPT ![r] = IF r \in reconnected THEN "dead" ELSE "lost"]
      /\ wire' = [wire EXCEPT ![r] = <<>>]
  BY DEF Lose
<1>2. conn'[r] \in {"dead", "lost"}
  BY <1>0, <1>1 DEF StreamTypeOK
<1>3. StreamTypeOK'
  <2>1. wire' \in [Readers -> Seq(FrameType)]
    BY <1>0, <1>1 DEF StreamTypeOK
  <2>. QED BY <1>0, <1>1, <2>1 DEF StreamTypeOK
<1>4. \A k : DataModel(k)' = DataModel(k)
  BY <1>1, ModelOfTape DEF DataModel, Delta
<1>5. ReaderTold(r)'
  BY <1>0, <1>1, <1>2, <1>4 DEF ReaderTold, ShowsSome, ShowsReached
<1>6. ASSUME NEW q \in Readers \ {r} PROVE ReaderTold(q)'
  <2>1. conn'[q] = conn[q] /\ wire'[q] = wire[q]
    BY <1>0, <1>1 DEF StreamTypeOK
  <2>. QED BY <1>1, <2>1, ReaderLeft DEF StreamInv
<1>. QED BY <1>3, <1>5, <1>6 DEF StreamInv

(* A reader shows the run as it was at some entry; one that folded all along *)
(* as of the last entry it received, and the whole of it when it is told the *)
(* end, through losses, reconnections and late entries (routes.py: gen;      *)
(* agui.py: replay_state).                                                   *)
THEOREM ShownIsAlwaysTrue == StreamSpec => []ShownIsTrue
<1>1. StreamInit => StreamInv
  BY StreamStarts
<1>2. StreamInv /\ [StreamNext]_streamVars => StreamInv'
  <2>. SUFFICES ASSUME StreamInv, [StreamNext]_streamVars PROVE StreamInv'
    OBVIOUS
  <2>1. ASSUME UNCHANGED streamVars PROVE StreamInv'
    <3>1. \A r \in Readers : ReaderTold(r)'
      BY <2>1, ReaderLeft DEF StreamInv, streamVars
    <3>. QED BY <2>1, <3>1 DEF StreamInv, StreamTypeOK, streamVars
  <2>. QED BY <2>1, JournalTells, ConnectTells, ServeTells, ReceiveTells, LoseTells
           DEF StreamNext, Stream
<1>3. StreamInv => ShownIsTrue
  BY DEF StreamInv, ReaderTold, ShowsSome, ShowsReached, ShownIsTrue
<1>. QED BY <1>1, <1>2, <1>3, PTL DEF StreamSpec

-----------------------------------------------------------------------------
(* The memory store.                                                         *)

MemoryRows == [status : {"current", "superseded"}, doc : Documents \cup {"none"},
               version : Nat, supersedes : Nat, vector : Fingerprints]
DocumentVersions == [doc : Documents, version : Nat, state : {"active", "superseded"},
                     content : Contents, chunks : Nat]

(* A table of records and one of documents, the records numbered up to m.    *)
IsDatabase(d, m) ==
    /\ d = [rows |-> d.rows, docs |-> d.docs, audits |-> d.audits]
    /\ DOMAIN d.rows \subseteq 1..m
    /\ d.rows \in [DOMAIN d.rows -> MemoryRows]
    /\ d.docs \subseteq DocumentVersions

MemoryTypeOK ==
    /\ reliable \in BOOLEAN /\ up \in BOOLEAN
    /\ minted \in Nat /\ deaths \in Nat
    /\ fingerprint \in Fingerprints
    /\ IsDatabase(db, minted) /\ IsDatabase(disk, minted)

(* A record that was superseded is there, and is not current.                *)
FormerIsThere(d) ==
    \A i \in DOMAIN d.rows : LET former == d.rows[i].supersedes
                             IN former # 0 => former \in DOMAIN d.rows \ Current(d)

Stands(d) == FormerIsThere(d) /\ SupersededOnce(d) /\ \A doc \in Documents : IsWhole(d, doc)

(* The open transaction only adds to what is committed.                      *)
OnlyAdds == /\ acked \subseteq disk.audits /\ acked \subseteq DOMAIN disk.rows
            /\ disk.audits \subseteq db.audits /\ DOMAIN disk.rows \subseteq DOMAIN db.rows

RecordsInv == MemoryTypeOK /\ Stands(db) /\ Stands(disk) /\ OnlyAdds

(* The two files can be read as one sidecar of this embedding model, or one  *)
(* of them is missing.                                                       *)
FilesAgree(print) == \/ DOMAIN indexFile = {} \/ idsFile = {}
                     \/ indexFile = [i \in idsFile |-> print]

Torn == indexFile = TornIndex \/ idsFile = TornIds

MadeBy(d, print) == \A i \in DOMAIN d.rows : d.rows[i].vector = print

SidecarInv ==
    reliable => /\ db = disk /\ MadeBy(db, fingerprint)
                /\ SidecarAgrees
                /\ \/ FilesAgree(fingerprint)
                   \/ ~up /\ (idsFile # Current(disk) \/ Torn)
-----------------------------------------------------------------------------
(* What a call leaves of the records: those in which are marked, new ones    *)
(* numbered from m + 1 are added, and the rest of every record is kept.      *)
Grows(d, e, which, new, m, k) ==
    /\ DOMAIN e.rows = DOMAIN d.rows \cup ((m + 1)..(m + k))
    /\ \A i \in (m + 1)..(m + k) : i \notin DOMAIN d.rows /\ e.rows[i] = new[i]
    /\ \A i \in DOMAIN d.rows :
          /\ e.rows[i].doc = d.rows[i].doc /\ e.rows[i].version = d.rows[i].version
          /\ e.rows[i].supersedes = d.rows[i].supersedes
          /\ e.rows[i].vector = d.rows[i].vector
          /\ e.rows[i].status = (IF i \in which THEN "superseded" ELSE d.rows[i].status)

LEMMA RecordsGrow ==
    ASSUME NEW m \in Nat, NEW k \in Nat, NEW d, NEW e, NEW which, NEW new,
           IsDatabase(d, m), new \in [(m + 1)..(m + k) -> MemoryRows],
           e.rows = With(Superseded(d.rows, which), new)
    PROVE  /\ Grows(d, e, which, new, m, k)
           /\ DOMAIN e.rows \subseteq 1..(m + k) /\ e.rows \in [DOMAIN e.rows -> MemoryRows]
<1>. DEFINE rows == d.rows
            old == Superseded(rows, which)
            fresh == (m + 1)..(m + k)
<1>1. DOMAIN rows \subseteq 1..m /\ rows \in [DOMAIN rows -> MemoryRows] /\ DOMAIN new = fresh
  BY DEF IsDatabase
<1>2. DOMAIN old = DOMAIN rows
  BY DEF Superseded
<1>3. \A i \in DOMAIN rows :
         old[i] = IF i \in which THEN [rows[i] EXCEPT !.status = "superseded"] ELSE rows[i]
  BY DEF Superseded
<1>4. \A i \in DOMAIN rows :
         /\ old[i] \in MemoryRows
         /\ old[i].doc = rows[i].doc /\ old[i].version = rows[i].version
         /\ old[i].supersedes = rows[i].supersedes /\ old[i].vector = rows[i].vector
         /\ old[i].status = (IF i \in which THEN "superseded" ELSE rows[i].status)
  <2>. TAKE i \in DOMAIN rows
  <2>1. rows[i] \in MemoryRows
    BY <1>1
  <2>. HIDE DEF rows, old
  <2>. QED BY <2>1, <1>3 DEF MemoryRows
<1>5. fresh \cap DOMAIN rows = {}
  BY <1>1
<1>6. DOMAIN e.rows = DOMAIN rows \cup fresh
  BY <1>1, <1>2 DEF With
<1>7. \A i \in fresh : e.rows[i] = new[i]
  BY <1>1, <1>2 DEF With
<1>8. \A i \in DOMAIN rows : e.rows[i] = old[i]
  BY <1>1, <1>2, <1>5 DEF With
<1>9. e.rows \in [DOMAIN e.rows -> MemoryRows]
  <2>1. \A i \in DOMAIN e.rows : e.rows[i] \in MemoryRows
    BY <1>4, <1>6, <1>7, <1>8
  <2>2. e.rows = [i \in DOMAIN e.rows |-> e.rows[i]]
    BY <1>6 DEF With
  <2>. QED BY <2>1, <2>2
<1>10. DOMAIN e.rows \subseteq 1..(m + k)
  BY <1>1, <1>6
<1>11. Grows(d, e, which, new, m, k)
  BY <1>4, <1>5, <1>6, <1>7, <1>8 DEF Grows
<1>. QED BY <1>9, <1>10, <1>11

(* A document whose version and current chunks are as they were is whole.    *)
LEMMA WholeStays ==
    ASSUME NEW d, NEW e, NEW doc, IsWhole(d, doc),
           Ofs(e, doc) = Ofs(d, doc), Active(e, doc) = Active(d, doc),
           \A i \in Ofs(d, doc) : e.rows[i].version = d.rows[i].version
    PROVE  IsWhole(e, doc)
BY DEF IsWhole

(* The records a call adds supersede at most one current record, which the   *)
(* same call marks: then nothing is superseded twice.                        *)
LEMMA FormersStay ==
    ASSUME NEW m \in Nat, NEW k \in Nat, NEW d, NEW e, NEW which, NEW new,
           Grows(d, e, which, new, m, k), FormerIsThere(d), SupersededOnce(d),
           \A i \in (m + 1)..(m + k) :
              new[i].supersedes # 0 => k = 1 /\ new[i].supersedes \in which \cap Current(d)
    PROVE  FormerIsThere(e) /\ SupersededOnce(e)
<1>. DEFINE fresh == (m + 1)..(m + k)
<1>1. /\ DOMAIN e.rows = DOMAIN d.rows \cup fresh
      /\ \A i \in fresh : i \notin DOMAIN d.rows /\ e.rows[i] = new[i]
      /\ \A i \in DOMAIN d.rows :
            /\ e.rows[i].supersedes = d.rows[i].supersedes
            /\ e.rows[i].status = (IF i \in which THEN "superseded" ELSE d.rows[i].status)
  BY DEF Grows
<1>2. Current(d) = {i \in DOMAIN d.rows : d.rows[i].status = "current"}
  BY DEF Current
<1>3. \A i \in DOMAIN d.rows : d.rows[i].supersedes # 0 =>
         d.rows[i].supersedes \in DOMAIN d.rows /\ d.rows[i].supersedes \notin Current(d)
  BY DEF FormerIsThere
<1>4. \A i \in fresh, j \in fresh : k = 1 => i = j
  OBVIOUS
<1>5. \A i \in DOMAIN d.rows : (i \notin Current(d) \/ i \in which) => i \notin Current(e)
  BY <1>1 DEF Current
<1>6. FormerIsThere(e)
  <2>. SUFFICES ASSUME NEW i \in DOMAIN e.rows, e.rows[i].supersedes # 0
                PROVE  e.rows[i].supersedes \in DOMAIN e.rows \ Current(e)
    BY DEF FormerIsThere
  <2>1. CASE i \in DOMAIN d.rows
    BY <2>1, <1>1, <1>3, <1>5
  <2>2. CASE i \in fresh
    BY <2>2, <1>1, <1>2, <1>5
  <2>. QED BY <2>1, <2>2, <1>1
<1>7. SupersededOnce(e)
  <2>. SUFFICES ASSUME NEW i \in DOMAIN e.rows, NEW j \in DOMAIN e.rows,
                       e.rows[i].supersedes # 0, e.rows[i].supersedes = e.rows[j].supersedes
                PROVE  i = j
    BY DEF SupersededOnce
  <2>1. CASE i \in DOMAIN d.rows /\ j \in DOMAIN d.rows
    BY <2>1, <1>1 DEF SupersededOnce
  <2>2. CASE i \in fresh /\ j \in fresh
    BY <2>2, <1>1, <1>4
  <2>3. CASE i \in fresh /\ j \in DOMAIN d.rows
    BY <2>3, <1>1, <1>3
  <2>4. CASE i \in DOMAIN d.rows /\ j \in fresh
    BY <2>4, <1>1, <1>3
  <2>. QED BY <2>1, <2>2, <2>3, <2>4, <1>1
<1>. QED BY <1>6, <1>7

\* Inserting a record that supersedes nothing, or a current fact, leaves the
\* database standing: no document is touched, and the former record, current
\* until now, had no successor.
LEMMA InsertedStands ==
    ASSUME minted \in Nat, fingerprint \in Fingerprints, IsDatabase(db, minted), Stands(db),
           NEW old \in Nat, MaySupersede(old), NEW e,
           e = [rows |-> Inserted(old).rows, docs |-> db.docs, audits |-> e.audits]
    PROVE  /\ IsDatabase(e, minted + 1) /\ Stands(e)
           /\ DOMAIN e.rows = DOMAIN db.rows \cup {minted + 1}
           /\ MadeBy(db, fingerprint) => MadeBy(e, fingerprint)
<1>. DEFINE row == [status |-> "current", doc |-> "none", version |-> 0,
                    supersedes |-> old, vector |-> fingerprint]
            new == [i \in {minted + 1} |-> row]
<1>1. (minted + 1)..(minted + 1) = {minted + 1}
  OBVIOUS
<1>2. row \in MemoryRows
  BY DEF MemoryRows
<1>3. new \in [(minted + 1)..(minted + 1) -> MemoryRows] /\ new[minted + 1] = row
  BY <1>1, <1>2
<1>4. e.rows = With(Superseded(db.rows, {old}), new) /\ e.docs = db.docs
  <2>1. db = [rows |-> db.rows, docs |-> db.docs, audits |-> db.audits]
    BY DEF IsDatabase
  <2>2. Inserted(old).rows = With(Superseded(db.rows, {old}), new)
    BY <2>1 DEF Inserted
  <2>. QED BY <2>2
<1>. HIDE DEF new
<1>5. /\ Grows(db, e, {old}, new, minted, 1)
      /\ DOMAIN e.rows \subseteq 1..(minted + 1) /\ e.rows \in [DOMAIN e.rows -> MemoryRows]
  BY <1>3, <1>4, RecordsGrow
<1>6. IsDatabase(e, minted + 1)
  BY <1>4, <1>5 DEF IsDatabase
<1>7. DOMAIN e.rows = DOMAIN db.rows \cup {minted + 1} /\ e.rows[minted + 1] = row
  BY <1>1, <1>3, <1>5 DEF Grows
<1>8. old # 0 => old \in Current(db) /\ db.rows[old].doc = "none"
  BY DEF MaySupersede, Ofs
<1>9. FormerIsThere(e) /\ SupersededOnce(e)
  <2>1. \A i \in (minted + 1)..(minted + 1) : new[i] = row
    BY <1>1, <1>3
  <2>2. row.supersedes = old
    OBVIOUS
  <2>. HIDE DEF row
  <2>. QED BY <1>5, <1>8, <2>1, <2>2, FormersStay DEF Stands
<1>10. ASSUME NEW doc \in Documents PROVE IsWhole(e, doc)
  <2>1. \A i \in DOMAIN db.rows :
           /\ e.rows[i].doc = db.rows[i].doc /\ e.rows[i].version = db.rows[i].version
           /\ e.rows[i].status = (IF i = old THEN "superseded" ELSE db.rows[i].status)
    BY <1>5 DEF Grows
  <2>2. minted + 1 \notin DOMAIN db.rows /\ 0 \notin DOMAIN db.rows
    BY DEF IsDatabase
  <2>3. e.rows[minted + 1].doc # doc
    BY <1>7, MemoryConstants
  <2>4. Ofs(e, doc) = Ofs(db, doc)
    BY <1>7, <1>8, <2>1, <2>2, <2>3, MemoryConstants DEF Ofs, Current
  <2>5. Active(e, doc) = Active(db, doc)
    BY <1>4 DEF Active
  <2>6. \A i \in Ofs(db, doc) : e.rows[i].version = db.rows[i].version
    BY <2>1 DEF Ofs, Current
  <2>. QED BY <2>4, <2>5, <2>6, WholeStays DEF Stands
<1>11. MadeBy(db, fingerprint) => MadeBy(e, fingerprint)
  BY <1>5, <1>7 DEF Grows, MadeBy
<1>. QED BY <1>6, <1>7, <1>9, <1>10, <1>11 DEF Stands

\* A new version of a document leaves the database standing: the chunks of the
\* former version, and they alone, are superseded, and the n new ones are those
\* of the only active version.
LEMMA NewVersionStands ==
    ASSUME minted \in Nat, fingerprint \in Fingerprints, IsDatabase(db, minted), Stands(db),
           NEW doc \in Documents, NEW content \in Contents, NEW n \in Nat, NEW e,
           e = NewVersion(doc, content, n)
    PROVE  /\ IsDatabase(e, minted + n) /\ Stands(e)
           /\ DOMAIN e.rows = DOMAIN db.rows \cup ((minted + 1)..(minted + n))
           /\ e.audits = db.audits \cup ((minted + 1)..(minted + n))
           /\ MadeBy(db, fingerprint) => MadeBy(e, fingerprint)
<1>. DEFINE old == Active(db, doc)
            version == IF old = {} THEN 1 ELSE (CHOOSE v \in old : TRUE).version + 1
            row == [status |-> "current", doc |-> doc, version |-> version,
                    supersedes |-> 0, vector |-> fingerprint]
            fresh == (minted + 1)..(minted + n)
            new == [i \in fresh |-> row]
            entry == [doc |-> doc, version |-> version, state |-> "active",
                      content |-> content, chunks |-> n]
            former == {[v EXCEPT !.state = "superseded"] : v \in old}
            which == Ofs(db, doc)
<1>1. db = [rows |-> db.rows, docs |-> db.docs, audits |-> db.audits] /\ db.docs \subseteq DocumentVersions
  BY DEF IsDatabase
<1>2. /\ e.rows = With(Superseded(db.rows, which), new)
      /\ e.docs = (db.docs \ old) \cup former \cup {entry}
      /\ e.audits = db.audits \cup fresh
      /\ e = [rows |-> e.rows, docs |-> e.docs, audits |-> e.audits]
  BY <1>1 DEF NewVersion, Replaced
<1>3. old \subseteq DocumentVersions /\ \A v \in old : v.doc = doc /\ v.state = "active"
  BY <1>1 DEF Active
<1>4. version \in Nat
  <2>1. CASE old = {}
    BY <2>1
  <2>2. CASE old # {}
    <3>1. (CHOOSE v \in old : TRUE) \in DocumentVersions
      BY <2>2, <1>3
    <3>. HIDE DEF old
    <3>. QED BY <2>2, <3>1 DEF DocumentVersions
  <2>. QED BY <2>1, <2>2
<1>. HIDE DEF version
<1>5. row \in MemoryRows /\ entry \in DocumentVersions
  BY <1>4 DEF MemoryRows, DocumentVersions
<1>6. new \in [fresh -> MemoryRows] /\ \A i \in fresh : new[i] = row
  BY <1>5
<1>7. \A f \in former : f \in DocumentVersions /\ f.doc = doc /\ f.state = "superseded"
  <2>. SUFFICES ASSUME NEW v \in old
                PROVE  LET f == [v EXCEPT !.state = "superseded"]
                       IN f \in DocumentVersions /\ f.doc = doc /\ f.state = "superseded"
    OBVIOUS
  <2>1. v \in DocumentVersions /\ v.doc = doc
    BY <1>3
  <2>. HIDE DEF old
  <2>. QED BY <2>1 DEF DocumentVersions
<1>. HIDE DEF new, former, entry, row
<1>8. /\ Grows(db, e, which, new, minted, n)
      /\ DOMAIN e.rows \subseteq 1..(minted + n) /\ e.rows \in [DOMAIN e.rows -> MemoryRows]
  BY <1>2, <1>6, RecordsGrow
<1>9. IsDatabase(e, minted + n)
  BY <1>1, <1>2, <1>3, <1>5, <1>7, <1>8 DEF IsDatabase
<1>10. row.supersedes = 0 /\ row.status = "current" /\ row.doc = doc /\ row.version = version
       /\ row.vector = fingerprint
  BY DEF row
<1>11. /\ entry.doc = doc /\ entry.state = "active" /\ entry.chunks = n /\ entry.version = version
  BY DEF entry
<1>12. FormerIsThere(e) /\ SupersededOnce(e)
  BY <1>6, <1>8, <1>10, FormersStay DEF Stands
<1>13. /\ DOMAIN e.rows = DOMAIN db.rows \cup fresh
       /\ \A i \in fresh : i \notin DOMAIN db.rows /\ e.rows[i] = row
       /\ \A i \in DOMAIN db.rows :
             /\ e.rows[i].doc = db.rows[i].doc /\ e.rows[i].version = db.rows[i].version
             /\ e.rows[i].vector = db.rows[i].vector
             /\ e.rows[i].status = (IF i \in which THEN "superseded" ELSE db.rows[i].status)
  BY <1>6, <1>8 DEF Grows
<1>14. IsWhole(e, doc)
  <2>1. Active(e, doc) = {entry}
    BY <1>2, <1>7, <1>11 DEF Active
  <2>2. Ofs(e, doc) = fresh
    BY <1>10, <1>13 DEF Ofs, Current
  <2>3. Cardinality(fresh) = n
    BY FS_Interval
  <2>. QED BY <2>1, <2>2, <2>3, <1>10, <1>11, <1>13 DEF IsWhole
<1>15. ASSUME NEW other \in Documents, other # doc PROVE IsWhole(e, other)
  <2>1. Active(e, other) = Active(db, other)
    BY <1>2, <1>3, <1>7, <1>11, <1>15 DEF Active
  <2>2. \A i \in which : db.rows[i].doc = doc
    BY DEF Ofs
  <2>3. Ofs(e, other) = Ofs(db, other)
    BY <1>10, <1>13, <1>15, <2>2 DEF Ofs, Current
  <2>4. \A i \in Ofs(db, other) : e.rows[i].version = db.rows[i].version
    BY <1>13 DEF Ofs, Current
  <2>. QED BY <2>1, <2>3, <2>4, WholeStays DEF Stands
<1>16. MadeBy(db, fingerprint) => MadeBy(e, fingerprint)
  BY <1>10, <1>13 DEF MadeBy
<1>17. Stands(e)
  BY <1>12, <1>14, <1>15 DEF Stands
<1>. QED BY <1>2, <1>9, <1>13, <1>16, <1>17

\* Making vectors again leaves the database standing: nothing else of a record
\* changes.
LEMMA RenewedStands ==
    ASSUME NEW m \in Nat, NEW print \in Fingerprints, NEW d, IsDatabase(d, m), Stands(d),
           NEW renewed, NEW e,
           e = [d EXCEPT !.rows = [i \in DOMAIN d.rows |->
                    IF i \in renewed THEN [d.rows[i] EXCEPT !.vector = print] ELSE d.rows[i]]]
    PROVE  /\ IsDatabase(e, m) /\ Stands(e)
           /\ DOMAIN e.rows = DOMAIN d.rows /\ e.audits = d.audits
           /\ Current(e) = Current(d)
<1>1. d = [rows |-> d.rows, docs |-> d.docs, audits |-> d.audits]
  BY DEF IsDatabase
<1>2. /\ e = [rows |-> e.rows, docs |-> d.docs, audits |-> d.audits]
      /\ e.rows = [i \in DOMAIN d.rows |->
                      IF i \in renewed THEN [d.rows[i] EXCEPT !.vector = print] ELSE d.rows[i]]
  BY <1>1
<1>3. \A i \in DOMAIN d.rows :
         /\ e.rows[i] \in MemoryRows
         /\ e.rows[i].doc = d.rows[i].doc /\ e.rows[i].version = d.rows[i].version
         /\ e.rows[i].supersedes = d.rows[i].supersedes /\ e.rows[i].status = d.rows[i].status
  <2>. SUFFICES ASSUME NEW i \in DOMAIN d.rows
                PROVE  /\ e.rows[i] \in MemoryRows
                       /\ e.rows[i].doc = d.rows[i].doc /\ e.rows[i].version = d.rows[i].version
                       /\ e.rows[i].supersedes = d.rows[i].supersedes
                       /\ e.rows[i].status = d.rows[i].status
    OBVIOUS
  <2>1. d.rows[i] \in MemoryRows
    BY DEF IsDatabase
  <2>2. e.rows[i] = IF i \in renewed THEN [d.rows[i] EXCEPT !.vector = print] ELSE d.rows[i]
    BY <1>2
  <2>. QED BY <2>1, <2>2 DEF MemoryRows
<1>4. DOMAIN e.rows = DOMAIN d.rows /\ e.rows = [i \in DOMAIN d.rows |-> e.rows[i]]
  BY <1>2
<1>5. e.docs = d.docs /\ e.audits = d.audits /\ e = [rows |-> e.rows, docs |-> e.docs, audits |-> e.audits]
  BY <1>2
<1>6. IsDatabase(e, m)
  BY <1>3, <1>4, <1>5 DEF IsDatabase
<1>7. Current(e) = Current(d) /\ \A doc : Ofs(e, doc) = Ofs(d, doc)
  BY <1>3, <1>4 DEF Current, Ofs
<1>8. FormerIsThere(e) /\ SupersededOnce(e)
  BY <1>3, <1>4, <1>7 DEF FormerIsThere, SupersededOnce, Stands
<1>9. ASSUME NEW doc \in Documents PROVE IsWhole(e, doc)
  <2>1. Active(e, doc) = Active(d, doc)
    BY <1>5 DEF Active
  <2>2. \A i \in Ofs(d, doc) : e.rows[i].version = d.rows[i].version
    BY <1>3 DEF Ofs, Current
  <2>. QED BY <1>7, <2>1, <2>2, WholeStays DEF Stands
<1>. QED BY <1>4, <1>5, <1>6, <1>7, <1>8, <1>9 DEF Stands

\* A call that leaves standing databases, and commits what was acknowledged
\* and no more than its connection sees, keeps the invariant of the records.
LEMMA CallKeeps ==
    ASSUME RecordsInv, NEW d, NEW saved, NEW m \in Nat, NEW cut \in Cuts, Leaves(d, saved, cut),
           minted' = m, reliable' = reliable, fingerprint' \in Fingerprints,
           IsDatabase(d, m), Stands(d), IsDatabase(saved, m), Stands(saved),
           acked' \subseteq saved.audits, acked' \subseteq DOMAIN saved.rows,
           saved.audits \subseteq d.audits, DOMAIN saved.rows \subseteq DOMAIN d.rows
    PROVE  RecordsInv'
<1>1. disk' = saved /\ (db' = d \/ db' = saved) /\ deaths' \in Nat /\ up' \in BOOLEAN
  BY DEF Leaves, RecordsInv, MemoryTypeOK
<1>2. MemoryTypeOK'
  <2>1. IsDatabase(db', m) /\ IsDatabase(disk', m)
    BY <1>1
  <2>. QED BY <1>1, <2>1 DEF RecordsInv, MemoryTypeOK
<1>3. Stands(db') /\ Stands(disk')
  BY <1>1
<1>4. OnlyAdds'
  BY <1>1 DEF OnlyAdds
<1>. QED BY <1>2, <1>3, <1>4 DEF RecordsInv

\* More records minted: a database stays one.
LEMMA MintedMore ==
    ASSUME NEW m \in Nat, NEW k \in Nat, NEW d, IsDatabase(d, m)
    PROVE  IsDatabase(d, m + k)
BY DEF IsDatabase

\* Write keeps the invariant of the records.
LEMMA WriteKeeps ==
    ASSUME RecordsInv, NEW old \in Nat, NEW cut \in Cuts, Write(old, cut)
    PROVE  RecordsInv'
<1>. DEFINE d == [Inserted(old) EXCEPT !.audits = db.audits \cup {minted + 1}]
<1>1. /\ MaySupersede(old) /\ minted' = minted + 1 /\ Leaves(d, d, cut)
      /\ acked' \subseteq acked \cup {minted + 1} /\ UNCHANGED <<reliable, fingerprint>>
  BY DEF Write
<1>2. minted \in Nat /\ fingerprint \in Fingerprints /\ IsDatabase(db, minted) /\ Stands(db)
  BY DEF RecordsInv, MemoryTypeOK
<1>3. db = [rows |-> db.rows, docs |-> db.docs, audits |-> db.audits]
  BY <1>2 DEF IsDatabase
<1>4. Inserted(old) = [rows |-> Inserted(old).rows, docs |-> db.docs, audits |-> db.audits]
  BY <1>3 DEF Inserted
<1>5. d = [rows |-> Inserted(old).rows, docs |-> db.docs, audits |-> d.audits]
      /\ d.audits = db.audits \cup {minted + 1}
  <2>. DEFINE r == Inserted(old).rows
              a == db.audits \cup {minted + 1}
  <2>1. Inserted(old) = [rows |-> r, docs |-> db.docs, audits |-> db.audits]
        /\ d = [Inserted(old) EXCEPT !.audits = a]
    BY <1>4
  <2>. HIDE DEF r, a, d
  <2>2. d = [rows |-> r, docs |-> db.docs, audits |-> a]
    BY <2>1
  <2>. QED BY <2>2 DEF r, a
<1>. HIDE DEF d
<1>6. /\ IsDatabase(d, minted + 1) /\ Stands(d)
      /\ DOMAIN d.rows = DOMAIN db.rows \cup {minted + 1}
  BY <1>1, <1>2, <1>5, InsertedStands
<1>7. acked' \subseteq d.audits /\ acked' \subseteq DOMAIN d.rows
  BY <1>1, <1>5, <1>6 DEF RecordsInv, OnlyAdds
<1>8. minted + 1 \in Nat /\ fingerprint' \in Fingerprints /\ reliable' = reliable
  BY <1>1, <1>2
<1>. QED BY <1>1, <1>6, <1>7, <1>8, CallKeeps

\* A write whose audit event cannot be embedded keeps it: the record stays in
\* the open transaction, and what is committed is untouched.
LEMMA WriteRaisesKeeps ==
    ASSUME RecordsInv, NEW old \in Nat, WriteRaises(old)
    PROVE  RecordsInv'
<1>1. /\ MaySupersede(old) /\ minted' = minted + 1 /\ db' = Inserted(old)
      /\ UNCHANGED <<reliable, disk, fingerprint, up, deaths, acked>>
  BY DEF WriteRaises
<1>2. /\ minted \in Nat /\ fingerprint \in Fingerprints /\ IsDatabase(db, minted) /\ Stands(db)
      /\ IsDatabase(disk, minted) /\ Stands(disk)
  BY DEF RecordsInv, MemoryTypeOK
<1>3. db = [rows |-> db.rows, docs |-> db.docs, audits |-> db.audits]
  BY <1>2 DEF IsDatabase
<1>4. db' = [rows |-> Inserted(old).rows, docs |-> db.docs, audits |-> db'.audits]
      /\ db'.audits = db.audits
  BY <1>1, <1>3 DEF Inserted
<1>5. /\ IsDatabase(db', minted + 1) /\ Stands(db')
      /\ DOMAIN db'.rows = DOMAIN db.rows \cup {minted + 1}
  BY <1>1, <1>2, <1>4, InsertedStands
<1>6. IsDatabase(disk', minted + 1) /\ Stands(disk')
  BY <1>1, <1>2, MintedMore
<1>7. MemoryTypeOK'
  BY <1>1, <1>2, <1>5, <1>6 DEF RecordsInv, MemoryTypeOK
<1>8. OnlyAdds'
  BY <1>1, <1>4, <1>5 DEF RecordsInv, OnlyAdds
<1>. QED BY <1>5, <1>6, <1>7, <1>8 DEF RecordsInv

\* IngestDocument keeps the invariant of the records.
LEMMA IngestKeeps ==
    ASSUME RecordsInv, NEW doc \in Documents, NEW content \in Contents, NEW n \in Nat,
           NEW cut \in Cuts, IngestDocument(doc, content, n, cut)
    PROVE  RecordsInv'
<1>. DEFINE d == NewVersion(doc, content, n)
            fresh == (minted + 1)..(minted + n)
<1>1. /\ minted' = minted + n /\ Leaves(d, d, cut)
      /\ acked' \subseteq acked \cup fresh /\ UNCHANGED <<reliable, fingerprint>>
  BY DEF IngestDocument
<1>2. minted \in Nat /\ fingerprint \in Fingerprints /\ IsDatabase(db, minted) /\ Stands(db)
  BY DEF RecordsInv, MemoryTypeOK
<1>3. d = NewVersion(doc, content, n)
  OBVIOUS
<1>. HIDE DEF d
<1>4. /\ IsDatabase(d, minted + n) /\ Stands(d)
      /\ DOMAIN d.rows = DOMAIN db.rows \cup fresh /\ d.audits = db.audits \cup fresh
  BY <1>2, <1>3, NewVersionStands
<1>5. acked' \subseteq d.audits /\ acked' \subseteq DOMAIN d.rows
  BY <1>1, <1>4 DEF RecordsInv, OnlyAdds
<1>6. minted + n \in Nat /\ fingerprint' \in Fingerprints /\ reliable' = reliable
  BY <1>1, <1>2
<1>. QED BY <1>1, <1>4, <1>5, <1>6, CallKeeps

\* Recall keeps the invariant of the records: it changes vectors only, and a
\* commit of the open transaction adds to what was acknowledged.
LEMMA RecallKeeps ==
    ASSUME RecordsInv, NEW docs, NEW renewed, NEW cut \in Cuts, Recall(docs, renewed, cut)
    PROVE  RecordsInv'
<1>. DEFINE stale == {i \in {x \in Current(db) : db.rows[x].doc \in docs} :
                         db.rows[i].vector # fingerprint}
            fresh == [db EXCEPT !.rows =
                         [i \in DOMAIN db.rows |-> IF i \in renewed
                             THEN [db.rows[i] EXCEPT !.vector = fingerprint] ELSE db.rows[i]]]
            saved == IF renewed = stale /\ stale # {} THEN fresh ELSE disk
<1>1. /\ IF cut = "none" THEN Leaves(fresh, saved, cut) ELSE Leaves(db, disk, cut)
      /\ UNCHANGED <<reliable, fingerprint, minted, acked>>
  BY DEF Recall
<1>2. /\ minted \in Nat /\ fingerprint \in Fingerprints /\ IsDatabase(db, minted) /\ Stands(db)
      /\ IsDatabase(disk, minted) /\ Stands(disk)
  BY DEF RecordsInv, MemoryTypeOK
<1>. HIDE DEF stale
<1>3. /\ IsDatabase(fresh, minted) /\ Stands(fresh)
      /\ DOMAIN fresh.rows = DOMAIN db.rows /\ fresh.audits = db.audits
  BY <1>2, RenewedStands
<1>. HIDE DEF fresh
<1>4. saved = fresh \/ saved = disk
  OBVIOUS
<1>. HIDE DEF saved
<1>5. /\ acked \subseteq disk.audits /\ acked \subseteq DOMAIN disk.rows
      /\ disk.audits \subseteq db.audits /\ DOMAIN disk.rows \subseteq DOMAIN db.rows
  BY DEF RecordsInv, OnlyAdds
<1>6. minted' = minted /\ acked' = acked /\ fingerprint' \in Fingerprints /\ reliable' = reliable
  BY <1>1, <1>2
<1>7. CASE cut = "none"
  <2>1. Leaves(fresh, saved, cut)
    BY <1>1, <1>7
  <2>2. IsDatabase(saved, minted) /\ Stands(saved)
    BY <1>2, <1>3, <1>4
  <2>3. /\ acked' \subseteq saved.audits /\ acked' \subseteq DOMAIN saved.rows
        /\ saved.audits \subseteq fresh.audits /\ DOMAIN saved.rows \subseteq DOMAIN fresh.rows
    BY <1>3, <1>4, <1>5, <1>6
  <2>. QED BY <1>2, <1>3, <1>6, <2>1, <2>2, <2>3, CallKeeps
<1>8. CASE cut # "none"
  <2>1. Leaves(db, disk, cut)
    BY <1>1, <1>8
  <2>. QED BY <1>2, <1>5, <1>6, <2>1, CallKeeps
<1>. QED BY <1>7, <1>8

\* A rollback, a crash and a start keep it: the connection sees what is
\* committed.
LEMMA RollbackKeeps ==
    ASSUME RecordsInv, db' = disk, disk' = disk, minted' = minted, acked' = acked,
           reliable' = reliable, fingerprint' \in Fingerprints, up' \in BOOLEAN, deaths' \in Nat
    PROVE  RecordsInv'
<1>1. /\ minted \in Nat /\ IsDatabase(disk, minted) /\ Stands(disk)
      /\ acked \subseteq disk.audits /\ acked \subseteq DOMAIN disk.rows
  BY DEF RecordsInv, MemoryTypeOK, OnlyAdds
<1>2. MemoryTypeOK'
  BY <1>1 DEF RecordsInv, MemoryTypeOK
<1>3. Stands(db)' /\ Stands(disk)'
  BY <1>1
<1>4. OnlyAdds'
  BY <1>1 DEF OnlyAdds
<1>. QED BY <1>2, <1>3, <1>4 DEF RecordsInv

\* Every step keeps the invariant of the records.
LEMMA RecordsStep ==
    ASSUME RecordsInv, [MemoryNext]_memoryVars
    PROVE  RecordsInv'
<1>1. 0..MaxRecords \subseteq Nat /\ 0..MaxChunks \subseteq Nat
  BY MemoryConstants
<1>2. ASSUME NEW old \in 0..MaxRecords, NEW cut \in Cuts, Write(old, cut) PROVE RecordsInv'
  BY <1>1, <1>2, WriteKeeps
<1>3. ASSUME NEW old \in 0..MaxRecords, WriteRaises(old) PROVE RecordsInv'
  BY <1>1, <1>3, WriteRaisesKeeps
<1>4. ASSUME NEW doc \in Documents, NEW content \in Contents, NEW n \in 0..MaxChunks,
             NEW cut \in Cuts, IngestDocument(doc, content, n, cut)
      PROVE  RecordsInv'
  BY <1>1, <1>4, IngestKeeps
<1>5. ASSUME NEW doc \in Documents, NEW content \in Contents, IngestRaises(doc, content)
      PROVE  RecordsInv'
  BY <1>5, RollbackKeeps DEF IngestRaises, RecordsInv, MemoryTypeOK
<1>6. ASSUME NEW docs, NEW renewed, NEW cut \in Cuts, Recall(docs, renewed, cut)
      PROVE  RecordsInv'
  BY <1>6, RecallKeeps
<1>7. ASSUME Die PROVE RecordsInv'
  <2>1. /\ db' = disk /\ disk' = disk /\ minted' = minted /\ acked' = acked
        /\ reliable' = reliable /\ fingerprint' = fingerprint
        /\ up' \in BOOLEAN /\ deaths' = deaths + 1
    BY <1>7 DEF Die
  <2>2. fingerprint' \in Fingerprints /\ deaths' \in Nat
    BY <2>1 DEF RecordsInv, MemoryTypeOK
  <2>. QED BY <2>1, <2>2, RollbackKeeps
<1>8. ASSUME NEW print \in Fingerprints, NEW cut \in Cuts, Start(print, cut) PROVE RecordsInv'
  BY <1>8, RollbackKeeps DEF Start, Leaves, RecordsInv, MemoryTypeOK
<1>9. ASSUME UNCHANGED memoryVars PROVE RecordsInv'
  BY <1>9 DEF memoryVars, RecordsInv, MemoryTypeOK, OnlyAdds
<1>. QED BY <1>2, <1>3, <1>4, <1>5, <1>6, <1>7, <1>8, <1>9 DEF MemoryNext

(* _ensure_vector_index on a sidecar that agrees when its ids do: cut short  *)
(* nowhere, it leaves one that agrees with its files; cut short, it leaves   *)
(* files that agree, or whose ids the next start finds not to be current or  *)
(* cannot read.                                                              *)
LEMMA SidecarAfter ==
    ASSUME NEW d, NEW print, NEW vectors, NEW held, NEW cut,
           EnsureVectorIndex(d, print, vectors, held, cut), MadeBy(d, print),
           InStep(d, held) => vectors = [i \in held |-> print] /\ FilesAgree(print),
           FilesAgree(print) \/ idsFile # Current(d)
    PROVE  LET agree == \/ DOMAIN indexFile' = {} \/ idsFile' = {}
                        \/ indexFile' = [i \in idsFile' |-> print]
           IN /\ cut = "none" => ids' = Current(d) /\ index' = [i \in ids' |-> print] /\ agree
              /\ agree \/ idsFile' # Current(d) \/ Torn'
<1>1. Own(d, print) = Current(d)
  BY DEF Own, Current, MadeBy
<1>2. CASE /\ InStep(d, held) \/ cut = "before"
           /\ index' = vectors /\ ids' = held
           /\ UNCHANGED <<indexFile, idsFile>>
  BY <1>2 DEF InStep, FilesAgree
<1>3. CASE /\ ~InStep(d, held) /\ cut # "before"
           /\ ids' = Own(d, print) /\ index' = [i \in ids' |-> print]
           /\ cut \in {"in_index", "in_ids"} => ids' # {}
           /\ indexFile' = IF cut = "in_index" THEN TornIndex ELSE index'
           /\ idsFile' = CASE cut \in {"in_index", "between"} -> idsFile
                           [] cut = "in_ids" -> TornIds
                           [] OTHER -> ids'
  <2>1. CASE cut = "in_index"
    BY <1>3, <2>1 DEF Torn
  <2>4. CASE cut = "between"
    BY <1>1, <1>3, <2>4
  <2>2. CASE cut = "in_ids"
    BY <1>3, <2>2 DEF Torn
  <2>3. CASE cut \notin {"in_index", "between", "in_ids"}
    BY <1>1, <1>3, <2>3
  <2>. QED BY <2>1, <2>2, <2>3, <2>4
<1>. QED BY <1>2, <1>3 DEF EnsureVectorIndex

\* A call of the running server leaves the sidecar in agreement with the
\* records it saw, which it committed.
LEMMA CallAgrees ==
    ASSUME SidecarInv, up, reliable, NEW d, NEW cut, MadeBy(d, fingerprint),
           EnsureVectorIndex(d, fingerprint, index, ids, cut),
           db' = d, disk' = d, up' = (cut = "none"), UNCHANGED <<reliable, fingerprint>>
    PROVE  SidecarInv'
<1>. DEFINE p == fingerprint
            agree == \/ DOMAIN indexFile' = {} \/ idsFile' = {}
                     \/ indexFile' = [i \in idsFile' |-> p]
<1>1. index = [i \in ids |-> p] /\ FilesAgree(p) /\ fingerprint' = p
  BY DEF SidecarInv, SidecarAgrees
<1>2. /\ cut = "none" => ids' = Current(d) /\ index' = [i \in ids' |-> p] /\ agree
      /\ agree \/ idsFile' # Current(d) \/ Torn'
  <2>. HIDE DEF p
  <2>1. EnsureVectorIndex(d, p, index, ids, cut) /\ MadeBy(d, p)
    BY DEF p
  <2>. QED BY <1>1, <2>1, SidecarAfter
<1>3. MadeBy(db', fingerprint')
  BY <1>1
<1>. QED BY <1>1, <1>2, <1>3 DEF SidecarInv, SidecarAgrees, FilesAgree

\* A start that reads the two files, and is cut short or not, leaves it so too:
\* files that do not agree have ids that are not the current ones, and are made
\* again.
LEMMA StartAgrees ==
    ASSUME SidecarInv, reliable, NEW print, NEW cut, Start(print, cut)
    PROVE  SidecarInv'
<1>. DEFINE whole == DOMAIN indexFile # {} /\ idsFile # {}
            vectors == IF whole THEN indexFile ELSE NoVectors
            held == IF whole THEN idsFile ELSE {}
            agree == \/ DOMAIN indexFile' = {} \/ idsFile' = {}
                     \/ indexFile' = [i \in idsFile' |-> print]
<1>1. /\ ~up /\ print = fingerprint /\ fingerprint' = print /\ reliable' = reliable
      /\ EnsureVectorIndex(disk, print, vectors, held, cut)
      /\ disk' = disk /\ db' = disk /\ up' = (cut = "none")
      /\ whole => ~Torn
  BY DEF Start, Leaves, Torn
<1>2. MadeBy(disk, print) /\ (FilesAgree(print) \/ idsFile # Current(disk))
  BY <1>1 DEF SidecarInv, FilesAgree
<1>3. InStep(disk, held) => vectors = [i \in held |-> print] /\ FilesAgree(print)
  <2>1. CASE whole
    BY <2>1, <1>2 DEF InStep, FilesAgree
  <2>2. CASE ~whole
    BY <2>2 DEF FilesAgree, NoVectors
  <2>. QED BY <2>1, <2>2
<1>. HIDE DEF vectors, held
<1>4. /\ cut = "none" => ids' = Current(disk) /\ index' = [i \in ids' |-> print] /\ agree
      /\ agree \/ idsFile' # Current(disk) \/ Torn'
  BY <1>1, <1>2, <1>3, SidecarAfter
<1>5. MadeBy(db', fingerprint')
  BY <1>1, <1>2
<1>. QED BY <1>1, <1>4, <1>5 DEF SidecarInv, SidecarAgrees, FilesAgree

\* With a reliable embedder a recall finds no stale vector, and changes nothing
\* in the database.
LEMMA RecallAgrees ==
    ASSUME RecordsInv, SidecarInv, reliable, NEW docs, NEW renewed, NEW cut,
           Recall(docs, renewed, cut)
    PROVE  SidecarInv'
<1>. DEFINE stale == {i \in {x \in Current(db) : db.rows[x].doc \in docs} :
                         db.rows[i].vector # fingerprint}
            fresh == [db EXCEPT !.rows =
                         [i \in DOMAIN db.rows |-> IF i \in renewed
                             THEN [db.rows[i] EXCEPT !.vector = fingerprint] ELSE db.rows[i]]]
            saved == IF renewed = stale /\ stale # {} THEN fresh ELSE disk
<1>1. /\ up /\ renewed \subseteq stale
      /\ EnsureVectorIndex(db, fingerprint, index, ids, cut)
      /\ IF cut = "none" THEN Leaves(fresh, saved, cut) ELSE Leaves(db, disk, cut)
      /\ UNCHANGED <<reliable, fingerprint>>
  BY DEF Recall
<1>2. db = disk /\ MadeBy(db, fingerprint)
  BY DEF SidecarInv
<1>3. stale = {}
  BY <1>2 DEF MadeBy, Current
<1>4. renewed = {} /\ saved = disk
  BY <1>1, <1>3
<1>5. fresh = db
  <2>1. db = [rows |-> db.rows, docs |-> db.docs, audits |-> db.audits]
        /\ db.rows = [i \in DOMAIN db.rows |-> db.rows[i]]
    BY DEF RecordsInv, MemoryTypeOK, IsDatabase
  <2>2. [i \in DOMAIN db.rows |-> IF i \in renewed
            THEN [db.rows[i] EXCEPT !.vector = fingerprint] ELSE db.rows[i]] = db.rows
    BY <1>4, <2>1
  <2>. QED BY <2>1, <2>2
<1>. HIDE DEF fresh, saved, stale
<1>6. db' = db /\ disk' = db /\ up' = (cut = "none")
  BY <1>1, <1>2, <1>4, <1>5 DEF Leaves
<1>. QED BY <1>1, <1>2, <1>6, CallAgrees

\* Every step keeps the invariant of the sidecar.
LEMMA SidecarStep ==
    ASSUME RecordsInv, SidecarInv, [MemoryNext]_memoryVars
    PROVE  SidecarInv'
<1>1. 0..MaxRecords \subseteq Nat /\ 0..MaxChunks \subseteq Nat
  BY MemoryConstants
<1>2. reliable' = reliable
  BY DEF MemoryNext, Write, WriteRaises, IngestDocument, IngestRaises, Recall, Die, Start, memoryVars
<1>3. CASE ~reliable
  BY <1>2, <1>3 DEF SidecarInv
<1>. SUFFICES ASSUME reliable PROVE SidecarInv'
  BY <1>3
<1>4. minted \in Nat /\ fingerprint \in Fingerprints /\ IsDatabase(db, minted) /\ Stands(db)
  BY DEF RecordsInv, MemoryTypeOK
<1>5. db = disk /\ MadeBy(db, fingerprint)
  BY DEF SidecarInv
<1>6. ASSUME NEW old \in 0..MaxRecords, NEW cut \in Cuts, Write(old, cut) PROVE SidecarInv'
  <2>. DEFINE d == [Inserted(old) EXCEPT !.audits = db.audits \cup {minted + 1}]
              e == [rows |-> Inserted(old).rows, docs |-> db.docs, audits |-> db.audits]
  <2>1. /\ up /\ MaySupersede(old) /\ EnsureVectorIndex(d, fingerprint, index, ids, cut)
        /\ Leaves(d, d, cut) /\ UNCHANGED <<reliable, fingerprint>>
    BY <1>6 DEF Write
  <2>2. e = [rows |-> Inserted(old).rows, docs |-> db.docs, audits |-> e.audits]
    OBVIOUS
  <2>3. d.rows = e.rows
    <3>1. db = [rows |-> db.rows, docs |-> db.docs, audits |-> db.audits]
      BY <1>4 DEF IsDatabase
    <3>2. Inserted(old) = e
      BY <3>1 DEF Inserted
    <3>. QED BY <3>2
  <2>. HIDE DEF d, e
  <2>4. MadeBy(e, fingerprint)
    BY <1>1, <1>4, <1>5, <2>1, <2>2, InsertedStands
  <2>5. MadeBy(d, fingerprint)
    BY <2>3, <2>4 DEF MadeBy
  <2>6. db' = d /\ disk' = d /\ up' = (cut = "none")
    BY <2>1 DEF Leaves
  <2>. QED BY <2>1, <2>5, <2>6, CallAgrees
<1>7. ASSUME NEW doc \in Documents, NEW content \in Contents, NEW n \in 0..MaxChunks,
             NEW cut \in Cuts, IngestDocument(doc, content, n, cut)
      PROVE  SidecarInv'
  <2>. DEFINE d == NewVersion(doc, content, n)
  <2>1. /\ up /\ EnsureVectorIndex(d, fingerprint, index, ids, cut)
        /\ Leaves(d, d, cut) /\ UNCHANGED <<reliable, fingerprint>>
    BY <1>7 DEF IngestDocument
  <2>2. d = NewVersion(doc, content, n)
    OBVIOUS
  <2>. HIDE DEF d
  <2>3. MadeBy(d, fingerprint)
    BY <1>1, <1>4, <1>5, <2>2, NewVersionStands
  <2>4. db' = d /\ disk' = d /\ up' = (cut = "none")
    BY <2>1 DEF Leaves
  <2>. QED BY <2>1, <2>3, <2>4, CallAgrees
<1>8. ASSUME NEW docs, NEW renewed, NEW cut, Recall(docs, renewed, cut) PROVE SidecarInv'
  BY <1>8, RecallAgrees
<1>9. ASSUME Die PROVE SidecarInv'
  BY <1>5, <1>9 DEF Die, sidecar, SidecarInv, SidecarAgrees, FilesAgree, Torn
<1>10. ASSUME NEW print, NEW cut, Start(print, cut) PROVE SidecarInv'
  BY <1>10, StartAgrees
<1>11. ASSUME UNCHANGED memoryVars PROVE SidecarInv'
  BY <1>11 DEF memoryVars, SidecarInv, SidecarAgrees, FilesAgree, Torn
<1>12. ~(\E old \in 0..MaxRecords : WriteRaises(old))
       /\ ~(\E doc \in Documents, content \in Contents : IngestRaises(doc, content))
  BY DEF WriteRaises, IngestRaises
<1>. QED BY <1>6, <1>7, <1>8, <1>9, <1>10, <1>11, <1>12 DEF MemoryNext

\* The empty store satisfies both invariants.
LEMMA MemoryStarts == MemoryInit => RecordsInv /\ SidecarInv
<1>. SUFFICES ASSUME MemoryInit PROVE RecordsInv /\ SidecarInv
  OBVIOUS
<1>1. /\ db = [rows |-> NoRows, docs |-> {}, audits |-> {}] /\ disk = db
      /\ index = NoVectors /\ ids = {} /\ indexFile = NoVectors /\ idsFile = {}
      /\ fingerprint \in Fingerprints /\ reliable \in BOOLEAN
      /\ up = TRUE /\ deaths = 0 /\ minted = 0 /\ acked = {}
  BY DEF MemoryInit
<1>2. db.rows = NoRows /\ db.docs = {} /\ db.audits = {} /\ DOMAIN db.rows = {}
  BY <1>1 DEF NoRows
<1>3. Current(db) = {} /\ \A doc : Ofs(db, doc) = {} /\ Active(db, doc) = {}
  BY <1>2 DEF Current, Ofs, Active
<1>4. IsDatabase(db, 0)
  BY <1>1, <1>2 DEF IsDatabase, NoRows
<1>5. Stands(db)
  BY <1>2, <1>3 DEF Stands, FormerIsThere, SupersededOnce, IsWhole
<1>6. RecordsInv
  BY <1>1, <1>4, <1>5 DEF RecordsInv, MemoryTypeOK, OnlyAdds
<1>7. SidecarInv
  BY <1>1, <1>2, <1>3 DEF SidecarInv, SidecarAgrees, MadeBy, FilesAgree, NoVectors
<1>. QED BY <1>6, <1>7

(* For any documents, embedding models and bounds: a document is seen in one *)
(* version, whole, and what was acknowledged stays, with its audit event,    *)
(* through failed embeddings, rollbacks and crashes (write, ingest_document, *)
(* recall).                                                                  *)
THEOREM RecordsAlwaysStand == MemorySpec => []RecordsStand
<1>1. MemoryInit => RecordsInv
  BY MemoryStarts
<1>2. RecordsInv /\ [MemoryNext]_memoryVars => RecordsInv'
  BY RecordsStep
<1>3. RecordsInv => RecordsStand
  BY DEF RecordsInv, Stands, OnlyAdds, RecordsStand, DocumentIsWhole, AcknowledgedIsKept
<1>. QED BY <1>1, <1>2, <1>3, PTL DEF MemorySpec

(* With an embedder that neither fails nor is changed, the vector sidecar    *)
(* agrees with the records between any two calls, wherever crashes cut the   *)
(* writing of its two files, during a call or during a start, between them   *)
(* or inside one: a file that was torn keeps the server down.                *)
THEOREM SidecarAlwaysAgrees == MemorySpec => []SidecarAgrees
<1>1. MemoryInit => RecordsInv /\ SidecarInv
  BY MemoryStarts
<1>2. RecordsInv /\ SidecarInv /\ [MemoryNext]_memoryVars => RecordsInv' /\ SidecarInv'
  BY RecordsStep, SidecarStep
<1>3. SidecarInv => SidecarAgrees
  BY DEF SidecarInv, SidecarAgrees
<1>. QED BY <1>1, <1>2, <1>3, PTL DEF MemorySpec
=============================================================================
